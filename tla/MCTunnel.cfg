CONSTANTS
    busy = busy
    quiet = quiet
    Conns = {busy, quiet}
    DataCount <- OneEach
    ReplyCount <- OneEach
    MaxIDs = 2
    NoConn = NoConn
    NotPending = NotPending
    Nothing = Nothing
SPECIFICATION Spec
INVARIANTS TypeOK OneTarget NothingCrosses
CHECK_DEADLOCK FALSE
