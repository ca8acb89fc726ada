CONSTANTS
    small = small
    large = large
    huge = huge
    AuthCode = AuthCode
    Files = {small, large, huge}
    Size <- MCSize
    ChunkSize = 2
    SizeModulus = 4
    MaxConnections = 2
    MaxAnnounced <- MCMaxAnnounced
    WireCapacity = 3
SPECIFICATION FairSpec
INVARIANTS
    TypeOK
    StreamIsFiles
    CompletedLength
    WriteHasTransfer
PROPERTIES
    EveryFileIsSent
    DownloadEnds
CHECK_DEADLOCK FALSE
