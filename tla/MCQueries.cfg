SPECIFICATION Spec
CONSTANTS
    Null = Null
    Operations = 3
    MaxSnapshots = 2
    MaxAttempts = 2
    Now0 = 2
    MaxNow = 3
    Found = {1, 2}
CONSTANTS
    Collected <- MCCollected
    Requests <- MCRequests
CHECK_DEADLOCK FALSE
INVARIANT ChainsAreWhole
INVARIANT ChainsEndWithTheTotal
INVARIANT PinnedIsAnswered
