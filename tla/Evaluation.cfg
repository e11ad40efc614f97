INIT EvaluationInit
NEXT EvaluationNext
CONSTANTS
    DailyReturns <- SomeReturns
    MaxDays = 6
    ShortWindow = 2
    MidWindow = 3
    LongWindow = 5
    HurstWindow = 3
    HurstThreshold = 38
    MinHistory = 4
    TrendWindow = 4
    VolWindow = 4
    HistWindow = 4
    MinHistRows = 2
    DayIC <- SomeDayIC
    NoIC = NoIC
    NumCandidates = 4
    NumSlices = 4
    Series <- SomeSeries
    Symbols = {"a", "b"}
    Weights = {0, 2, 4}
    MaxPeriods = 3
    Components = {"fee", "spread", "slipage"}
    Bps <- SomeBps
    StampedPayload <- Stamped
CHECK_DEADLOCK FALSE
INVARIANTS
    LabelsIgnoreTheFuture
    WarmupIsNoEvidence
    EstimatorsAgree
    EveryFillIsPaidOnce
    VerifiedIsSame
