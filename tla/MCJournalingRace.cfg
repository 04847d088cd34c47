CONSTANTS
    Keys = {k1, k2}
    Values = {v1, v2}
    Absent = Absent
    NoFile = NoFile
    Clients = {c1, c2}
    JournalItemCountBeforeAutosave = 2
    MaxJournal = 3
SPECIFICATION Spec
INVARIANT DurableWhenIdle
CHECK_DEADLOCK FALSE
