SPECIFICATION Spec
CONSTANTS
    None = None
    Unread = Unread
    Concurrency = 2
    Count = 3
    MaxAttempts = 3
    MaxPause = 2
    MaxObservationDelay = 2
    Answers <- MCAnswers
CHECK_DEADLOCK FALSE
INVARIANT NothingOutlivesTheCall
INVARIANT EvidenceIsTrue
