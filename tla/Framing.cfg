CONSTANTS
    HeaderLength = 2
    ReadBufferSize = 5
    MaxPayload = 2
    MaxFrames = 3
    MaxAnnounced = 3
SPECIFICATION Spec
INVARIANTS
    TypeOK
PROPERTIES
    DeliversFramesInOrder
    EveryFrameArrives
CHECK_DEADLOCK FALSE
