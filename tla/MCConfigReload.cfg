SPECIFICATION SeparateSpec
CONSTANTS
    Subjects = {"config"}
    ByteValues = 12
    KeySize = 1
    DbKeys <- cDbKeys
    DbValues <- cDbValues
    MaxSaves = 2
    Keys = {k1, k2}
    Values = {v1, v2}
    Absent = Absent
    NoFile = NoFile
    Clients = {c1}
    JournalItemCountBeforeAutosave = 2
    MaxJournal = 3
    Names <- cNames
    Objects <- cObjects
    Targets <- cTargets
    Environments <- cEnvironments
    Texts <- cTexts
    Options <- cOptions
    WordTypes <- cWordTypes
    ArgLists <- cArgLists
    HandFiles <- cHandFiles
    SetValues = {"s"}
    Paths = {"p1", "p2"}
    Addrs = {"a"}
    MaxConns = 2
    MaxDatagrams = 2
    Tries = 2
    Links = {"raw", "framed", "websocket"}
    Messages = {"small", "huge"}
    Huge = {"huge"}
    Files = {"a", "b"}
    Folders = {"d"}
    MaxChanges = 3
INVARIANT SavedFileLoads
CHECK_DEADLOCK FALSE
