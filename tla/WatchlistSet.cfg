INIT IdentityInit
NEXT IdentityNext
CONSTANTS
    a = a
    b = b
    None = None
    NaN = NaN
    Opaque = Opaque
    Missing = Missing
    Values <- TwoValues
    EditValues <- ToolValues
    MaxSchema = 2
    Tickers = {"A", "B", "SPY"}
    Benchmarks = {"SPY", "QQQ", "A"}
    Spy = "SPY"
    Watchlists <- SomeWatchlists
    Sectors = {"tech", "energy"}
    Etfs = {"fund"}
    Settings = {"default", "changed"}
    Default = "default"
    FirstConfig <- TwoSectors
    MaxEdits = 2
    MaxTrained = 2
INVARIANT WatchlistIsSet
CHECK_DEADLOCK FALSE
