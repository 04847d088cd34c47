CONSTANTS
    Modulus = 8
    AllowNone = AllowNone
    AllowInDump = AllowInDump
    AllowInDumpAndPush = AllowInDumpAndPush
    Instant = Instant
    Timeout = Timeout
    MaxSent = 5
    Profiles <- MCProfiles
SPECIFICATION FairSpec
INVARIANTS TypeOK ExportedInOrder StoredIsTimed NoStaleStored
PROPERTY StoredIsExported
CHECK_DEADLOCK FALSE
