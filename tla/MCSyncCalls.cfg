CONSTANTS
    r1 = r1
    r2 = r2
    l1 = l1
    l2 = l2
    c1 = c1
    c2 = c2
    None = None
    PageSize = 1
    Repo <- OneRepo
    List <- NoList
    Call <- TwoCalls
    IncludeLists = FALSE
    Probes <- Both
    Starred <- OneStar
    Listed <- Unlisted
    Returns = FALSE
    MaxAttempts = 2
    MaxEdits = 1
SPECIFICATION FairSpec
INVARIANTS OneDraft NoOverlap
PROPERTIES DraftsAreClosed
CHECK_DEADLOCK FALSE
