CONSTANTS
    Base = 4
    PositiveFixMax = 1
    NegativeFixes = 1
    FixTextMax = 1
    FixCountMax = 2
    KeyMax = 3
    CustomTypes <- MCCustomTypes
    Schema <- MCSchema
    Exchanged = "message"
    Drafts <- MCDrafts
    Edits <- MCEdits
    Generated <- MCGenerated
    UuidLength = 2
    UsernameLength = 3
    Datetimes <- MCDatetimes
    MaxSends = 2
    MaxEdits = 1
SPECIFICATION Spec
INVARIANTS
    TypeOK
    CodecRoundTrip
    AcceptedIsWhatWasSent
    AcceptedIsWellFormed
    ForwardedIsAccepted
PROPERTIES
    LoadedIsSaved
CHECK_DEADLOCK FALSE
