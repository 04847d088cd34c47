CONSTANTS
    busy = busy
    quiet = quiet
    Conns = {busy}
    DataCount <- TwoEach
    ReplyCount <- TwoEach
    MaxIDs = 1
    NoConn = NoConn
    NotPending = NotPending
    Nothing = Nothing
SPECIFICATION FairSpec
INVARIANTS RepliesKept IntactUnlessOverlapped
PROPERTIES DataArrives CloseArrives
CHECK_DEADLOCK FALSE
