CONSTANTS
    r1 = r1
    r2 = r2
    l1 = l1
    l2 = l2
    c1 = c1
    c2 = c2
    None = None
    PageSize = 1
    Repo <- TwoRepos
    List <- TwoLists
    Call <- OneCall
    IncludeLists = TRUE
    Probes <- Either
    Starred <- TwoStars
    Listed <- EachItsOwn
    Returns = FALSE
    MaxAttempts = 1
    MaxEdits = 3
SPECIFICATION Spec
PROPERTIES PublishedIsReal NoFalseAlarm
CHECK_DEADLOCK FALSE
