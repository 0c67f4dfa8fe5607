SPECIFICATION FileSpec
CONSTANTS
    p1 = p1
    p2 = p2
    None = None
    Process <- TwoProcesses
    Binaries <- MCBinaries
    MaxTx = 2
    MaxWrites = 2
    MaxStarts = 1
\* Three operations on a clock that is set back once.
    s1 = s1
    s2 = s2
    s3 = s3
    Nobody = Nobody
    Scope <- Three
    Ttl = 2
    MaxClock = 3
    MaxBack = 1
SYMMETRY Symmetry
CHECK_DEADLOCK FALSE
INVARIANT AllOrNothing
INVARIANT OneKey
PROPERTY SchemaGrowsWhole
INVARIANT NoInterleavedWork
INVARIANT TrustImpliesOwner
PROPERTY GrantIsNotCutShort
