CONSTANTS
    Modulus = 8
    AllowNone = AllowNone
    AllowInDump = AllowInDump
    AllowInDumpAndPush = AllowInDumpAndPush
    Instant = Instant
    Timeout = Timeout
    MaxSent = 5
    Profiles <- TimeoutProfiles
SPECIFICATION Spec
INVARIANT DeliveredInOrder
CHECK_DEADLOCK FALSE
