SPECIFICATION PhasedSpec
CONSTANTS
    NumTasks <- FourJobs
    PhaseJob = 2
    PhaseTask = 2
    NumItems = 3
    MaxWorkers = 0
    CpuCount = 4
    Timed = TRUE
    Outcomes <- AllOutcomes
INVARIANTS ReturnMeansComplete RaiseNamesEveryOpenItem ResultIsAudited
PROPERTIES NoStartAfterRaise BarrierSpec BudgetEnforced DownstreamSeesWholeSet PipelineEnds
\* The pipeline ends and the workers run dry.
CHECK_DEADLOCK FALSE
