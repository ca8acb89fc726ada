CONSTANTS
    MaxConnections = 2
    MaxSends = 2
    MaxFailures = 1
SPECIFICATION FairSpec
INVARIANTS
    TypeOK
    TruncatedIsLast
    ClosedStaysClosed
PROPERTY
    EveryClientIsAccepted
CHECK_DEADLOCK FALSE
