CONSTANTS
    create = create
    assign = assign
    r1 = r1
    r2 = r2
    None = None
    Op <- TwoOps
    N = 2
    Order <- OneAfterTheOther
    Deps <- AssignAfterCreate
    Creates <- CreateOnly
    Request <- TwoRequests
    StopMode = FALSE
    MaxAttempts = 2
    MaxEdits = 0
    HonestTransport = TRUE
    Repeats = TRUE
SYMMETRY RequestSymmetry
SPECIFICATION Spec
INVARIANTS RunIsConsistent RowsAreLegal AtMostOneEffect OutcomesAreTrue
PROPERTIES NoBlindDispatch KeepsTheLedger
