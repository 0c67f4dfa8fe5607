CONSTANTS
    p1 = p1
    p2 = p2
    c1 = c1
    c2 = c2
    None = None
    Process <- TwoProcesses
    Call <- TwoCalls
    Interval = 2
    Heartbeat = 1
    Base = 1
    MaxPause = 2
SPECIFICATION FairSpec
INVARIANTS OneAtATime
PROPERTIES StartsAreSpaced ResetsAreRespected AbortsEnd
