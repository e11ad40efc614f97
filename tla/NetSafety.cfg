SPECIFICATION FairSpec
CONSTANTS
    c1 = c1
    c2 = c2
    Callers <- TwoCallers
    Total = 4
    Timeout = 3
    Second = 2
    MaxCalls = 3
    MaxThreads = 2
INVARIANTS OwnAnswerOnly OvershootBelowFloor ChargedInFull NeverOvercharged
PROPERTY CallerGetsBack
\* The callers make MaxCalls calls and stop.
CHECK_DEADLOCK FALSE
