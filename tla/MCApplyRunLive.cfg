CONSTANTS
    create = create
    assign = assign
    r1 = r1
    r2 = r2
    None = None
    Op <- OneOp
    N = 1
    Order <- JustCreate
    Deps <- NoDeps
    Creates <- CreateOnly
    Request <- TwoRequests
    StopMode = FALSE
    MaxAttempts = 1
    MaxEdits = 1
    HonestTransport = TRUE
    Repeats = FALSE
SPECIFICATION FairSpec
PROPERTIES EveryCallEnds RunsAreClosed LeaseIsGivenBack
CHECK_DEADLOCK FALSE
