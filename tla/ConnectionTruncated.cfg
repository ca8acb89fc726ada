CONSTANTS
    MaxPeer = 3
    MaxSends = 2
SPECIFICATION FairSpec
INVARIANT TruncatedIsLast
CHECK_DEADLOCK FALSE
