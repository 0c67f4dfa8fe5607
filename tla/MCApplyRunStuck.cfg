CONSTANTS
    create = create
    assign = assign
    r1 = r1
    r2 = r2
    None = None
    Op <- OneOp
    N = 1
    Order <- JustCreate
    Deps <- NoDeps
    Creates <- NoCreates
    Request <- TwoRequests
    StopMode = FALSE
    MaxAttempts = 3
    MaxEdits = 0
    HonestTransport = TRUE
    Repeats = TRUE
SYMMETRY RequestSymmetry
SPECIFICATION Spec
INVARIANT ResumeIsPossible
CHECK_DEADLOCK FALSE
