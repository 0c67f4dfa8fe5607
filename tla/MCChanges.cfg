SPECIFICATION Spec
CONSTANTS
    Field = {"name", "private"}
    MaxOperations = 4
    Repo = {1, 2}
    OwnerEdits = TRUE
    MaxFaults = 1
CONSTANTS
    Accounts <- MCAccounts
    Requests <- MCRequests
    Shields <- MCShields
CHECK_DEADLOCK FALSE
INVARIANT PlanHolds
INVARIANT AsRequested
INVARIANT RollbackRestores
PROPERTY ShieldsHold
PROPERTY EditsStand
PROPERTY StarsOutlastMemberships
