CONSTANTS
    MaxPeer = 3
    MaxSends = 2
SPECIFICATION FairSpec
INVARIANTS
    TypeOK
    WireInSendOrder
    NeverDeaf
PROPERTY
    SentIsTransmitted
CHECK_DEADLOCK FALSE
