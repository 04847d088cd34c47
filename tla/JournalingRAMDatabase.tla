---- MODULE JournalingRAMDatabase ----
(***************************************************************************)
(* The journaling RAM database: the map lives in memory; every Set and     *)
(* Delete is appended to a journal file, and Save writes the whole map to  *)
(* a new file, renames it over the old one and removes the journal.  Load  *)
(* reads the file, replays the journal over it and saves.                  *)
(*                                                                         *)
(* Several goroutines may use the database; each is a program of its own   *)
(* (`pc`), with one step per system call or access to shared state.  Two   *)
(* saves at the same time are not modelled.  The process may crash between *)
(* any two steps; what was written to a file stays.  Opening and writing   *)
(* the journal succeed: the code only logs a failure there, and Set has no *)
(* way to report it.                                                       *)
(***************************************************************************)
EXTENDS Integers, Sequences, FiniteSets

CONSTANTS Keys, Values, Absent,   \* Absent: not in the map; NoFile: not on the disk
          NoFile,
          Clients,                \* goroutines using the database
          JournalItemCountBeforeAutosave,
          MaxJournal              \* entries in the journal; a failed save lets it grow

VARIABLES status,      \* "down", "loading" or "up"
          pc,          \* what each goroutine does next
          doing,       \* the operation each is at: [key, value]; value Absent deletes
          handle,      \* the journal each has open: on the disk ("live") or unlinked
          data,        \* the map in memory
          journalLen,  \* entries counted since the last save
          file,        \* the database file
          tmp,         \* the file being saved, not yet renamed
          journal      \* the journal file: a sequence of operations, or NoFile

memory == <<pc, doing, handle, data, journalLen>>
disk   == <<file, tmp, journal>>
vars   == <<status, memory, disk>>

Maps       == [Keys -> Values \cup {Absent}]
Operations == [key : Keys, value : Values \cup {Absent}]
Empty      == [k \in Keys |-> Absent]

ASSUME DatabaseAssumption == /\ Absent \notin Values
                             /\ NoFile \notin Maps /\ NoFile \notin Seq(Operations)
                             /\ JournalItemCountBeforeAutosave \in Nat
                             /\ MaxJournal \in Nat
                             /\ Keys # {}

Idle(c) == pc[c] = "idle"
Saving  == \E c \in Clients : pc[c] \in {"write", "rename", "reset", "remove"}

Goto(c, step) == pc' = [pc EXCEPT ![c] = step]

(* No operation yet: any value will do. *)
NoOps == [c \in Clients |-> [key |-> CHOOSE k \in Keys : TRUE, value |-> Absent]]

Init == /\ status = "down"
        /\ pc = [c \in Clients |-> "idle"]
        /\ doing = NoOps
        /\ handle = [c \in Clients |-> "closed"]
        /\ data = Empty
        /\ journalLen = 0
        /\ file = NoFile /\ tmp = NoFile /\ journal = NoFile

-----------------------------------------------------------------------------
(* Set and Delete: the map first ... *)
Update(c, o) ==
    /\ status = "up" /\ Idle(c)
    /\ journal # NoFile => Len(journal) < MaxJournal
    /\ data' = [data EXCEPT ![o.key] = o.value]
    /\ doing' = [doing EXCEPT ![c] = o]
    /\ Goto(c, "open")
    /\ UNCHANGED <<status, handle, journalLen, disk>>

(* ... then appendToJournal opens the journal, creating it if need be ... *)
OpenJournal(c) ==
    /\ pc[c] = "open"
    /\ journal' = IF journal = NoFile THEN <<>> ELSE journal
    /\ handle' = [handle EXCEPT ![c] = "live"]
    /\ Goto(c, "append")
    /\ UNCHANGED <<status, doing, data, journalLen, file, tmp>>

(* The journal is full. *)
AutosaveDue(count) ==
    JournalItemCountBeforeAutosave # 0 /\ JournalItemCountBeforeAutosave <= count

(* Mutant of AppendEntry: the value is not written for a delete. *)
AppendSetOnly(c) ==
    /\ pc[c] = "append"
    /\ journal' = IF handle[c] = "live" /\ doing[c].value # Absent THEN Append(journal, doing[c])
                  ELSE journal
    /\ journalLen' = journalLen + 1
    /\ handle' = [handle EXCEPT ![c] = "closed"]
    /\ Goto(c, IF AutosaveDue(journalLen') THEN "create" ELSE "idle")
    /\ UNCHANGED <<status, doing, data, file, tmp>>

(* ... and appends the entry in one write: to nowhere if a save has unlinked *)
(* the journal since.  A full journal is saved.                              *)
AppendEntry(c) ==
    /\ pc[c] = "append"
    /\ journal' = IF handle[c] = "live" THEN Append(journal, doing[c]) ELSE journal
    /\ journalLen' = journalLen + 1
    /\ handle' = [handle EXCEPT ![c] = "closed"]
    /\ Goto(c, IF AutosaveDue(journalLen') THEN "create" ELSE "idle")
    /\ UNCHANGED <<status, doing, data, file, tmp>>

-----------------------------------------------------------------------------
(* Save, called by the user. *)
CallSave(c) ==
    /\ status = "up" /\ Idle(c)
    /\ Goto(c, "create")
    /\ UNCHANGED <<status, doing, handle, data, journalLen, disk>>

(* Save returns, and so does the Load that called it. *)
Return(c) == Goto(c, "idle") /\ status' = "up"

(* Mutant of CreateTmp: the journal is removed before the map is on the disk. *)
CreateTmpDropsJournal(c) ==
    /\ pc[c] = "create" /\ ~Saving
    /\ \/ tmp' = Empty /\ Goto(c, "write") /\ UNCHANGED status
       \/ tmp' = NoFile /\ Return(c)
    /\ journal' = NoFile
    /\ UNCHANGED <<doing, handle, data, journalLen, file>>

(* A new file is made; what an earlier save left is removed first. *)
CreateTmp(c) ==
    /\ pc[c] = "create" /\ ~Saving
    /\ \/ tmp' = Empty /\ Goto(c, "write") /\ UNCHANGED status
       \/ tmp' = NoFile /\ Return(c)
    /\ UNCHANGED <<doing, handle, data, journalLen, file, journal>>

(* The map is copied (GetData) and written. *)
WriteTmp(c) ==
    /\ pc[c] = "write"
    /\ tmp' = data
    /\ Goto(c, "rename")
    /\ UNCHANGED <<status, doing, handle, data, journalLen, file, journal>>

(* Rename, or fail and leave the old file and the journal. *)
Rename(c) ==
    /\ pc[c] = "rename"
    /\ \/ file' = tmp /\ tmp' = NoFile /\ Goto(c, "reset") /\ UNCHANGED status
       \/ Return(c) /\ UNCHANGED <<file, tmp>>
    /\ UNCHANGED <<doing, handle, data, journalLen, journal>>

(* The count of the journal's entries starts again. *)
ResetLen(c) ==
    /\ pc[c] = "reset"
    /\ journalLen' = 0
    /\ Goto(c, "remove")
    /\ UNCHANGED <<status, doing, handle, data, disk>>

(* The journal is unlinked: who has it open writes to nowhere from now on. *)
RemoveJournal(c) ==
    /\ pc[c] = "remove"
    /\ journal' = NoFile
    /\ handle' = [d \in Clients |-> IF handle[d] = "live" THEN "unlinked" ELSE handle[d]]
    /\ Return(c)
    /\ UNCHANGED <<doing, data, journalLen, file, tmp>>

-----------------------------------------------------------------------------
(* The process stops; memory is gone. *)
Crash == /\ status # "down"
         /\ status' = "down"
         /\ pc' = [c \in Clients |-> "idle"]
         /\ doing' = NoOps
         /\ handle' = [c \in Clients |-> "closed"]
         /\ data' = Empty
         /\ journalLen' = 0
         /\ UNCHANGED disk

(* The journal's entries applied to a map, in order: the last one of a key counts. *)
Replay(base, entries) ==
    [k \in Keys |->
        LET hits == {i \in DOMAIN entries : entries[i].key = k}
        IN  IF hits = {} THEN base[k]
            ELSE entries[CHOOSE i \in hits : \A j \in hits : j <= i].value]

Saved   == IF file = NoFile THEN Empty ELSE file
Entries == IF journal = NoFile THEN <<>> ELSE journal

(* The map Load rebuilds from the disk. *)
Recovered == Replay(Saved, Entries)

(* Load: with a journal on the disk, the map is saved before Load returns. *)
Load(c) ==
    /\ status = "down"
    /\ data' = Recovered
    /\ IF journal = NoFile
       THEN status' = "up" /\ UNCHANGED pc
       ELSE status' = "loading" /\ Goto(c, "create")
    /\ UNCHANGED <<doing, handle, journalLen, disk>>

Next == \/ \E c \in Clients :
              \/ \E o \in Operations : Update(c, o)
              \/ OpenJournal(c)
              \/ AppendEntry(c)
              \/ CallSave(c)
              \/ CreateTmp(c)
              \/ WriteTmp(c)
              \/ Rename(c)
              \/ ResetLen(c)
              \/ RemoveJournal(c)
              \/ Load(c)
        \/ Crash

Spec == Init /\ [][Next]_vars

-----------------------------------------------------------------------------
Steps == {"idle", "open", "append", "create", "write", "rename", "reset", "remove"}

(* Types of the goroutines, the map and the files. *)
TypeOK == /\ status \in {"down", "loading", "up"}
          /\ pc \in [Clients -> Steps]
          /\ doing \in [Clients -> Operations]
          /\ handle \in [Clients -> {"closed", "live", "unlinked"}]
          /\ data \in Maps
          /\ journalLen \in Nat
          /\ file \in Maps \cup {NoFile} /\ tmp \in Maps \cup {NoFile}
          /\ journal # NoFile => journal \in Seq(Operations)

(* "Otherwise everything is stored in Journal": while no operation is under way, *)
(* a crash would lose nothing, whatever saves, failed saves, crashes and loads   *)
(* went before, and while a save is under way too.                               *)
DurableWhenIdle ==
    status = "up" /\ (\A c \in Clients : pc[c] \notin {"open", "append"}) => Recovered = data

(* With one goroutine the database is a durable map: every state the disk is in *)
(* brings back all operations that returned, and at most the one under way is   *)
(* lost, whole.                                                                 *)
Durable == INSTANCE DurableMap
              WITH store <- (IF status = "down" THEN Recovered ELSE data),
                   durable <- Recovered

ImplementsDurableMap == Durable!MapSpec
====
