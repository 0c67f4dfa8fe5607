CONSTANTS
    t1 = t1
    t2 = t2
    Boot = Boot
    Tool <- TwoTools
    Apply = t1
    None = None
    Unread = Unread
    MaxObservationDelay = 2
    MaxEdits = 2
    Answers <- MCAnswers
SPECIFICATION FairSpecAll
PROPERTY KeepsThePromise
CHECK_DEADLOCK FALSE
