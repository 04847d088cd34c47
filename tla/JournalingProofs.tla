---- MODULE JournalingProofs ----
(***************************************************************************)
(* The journaling database is a durable map when one goroutine uses it:    *)
(* proofs for every set of keys and values, every autosave threshold and   *)
(* any number of crashes.                                                  *)
(***************************************************************************)
EXTENDS JournalingRAMDatabase, SequenceTheorems, TLAPS

(* The entries of a key. *)
Hits(entries, k) == {i \in DOMAIN entries : entries[i].key = k}

(* A key that has entries has a last one. *)
HasLast(entries) ==
    \A k \in Keys : Hits(entries, k) # {} =>
        \E i \in Hits(entries, k) : \A j \in Hits(entries, k) : j <= i

(* The last entry of a key, as Replay picks it. *)
LastHit(entries, k) == CHOOSE i \in Hits(entries, k) : \A j \in Hits(entries, k) : j <= i

-----------------------------------------------------------------------------
(* Replay in terms of the last entry of a key. *)
LEMMA ReplayDef ==
    ASSUME NEW base, NEW entries
    PROVE  Replay(base, entries) =
             [k \in Keys |-> IF Hits(entries, k) = {} THEN base[k]
                             ELSE entries[LastHit(entries, k)].value]
  BY DEF Replay, Hits, LastHit

(* A last entry is one of the key's entries. *)
LEMMA LastHitType ==
    ASSUME NEW entries, HasLast(entries), NEW k \in Keys, Hits(entries, k) # {}
    PROVE  /\ LastHit(entries, k) \in Hits(entries, k)
           /\ \A j \in Hits(entries, k) : j <= LastHit(entries, k)
  BY DEF HasLast, LastHit

(* Replaying a journal over a map gives a map. *)
LEMMA ReplayType ==
    ASSUME NEW base \in Maps, NEW entries \in Seq(Operations), HasLast(entries)
    PROVE  Replay(base, entries) \in Maps
  <1> SUFFICES ASSUME NEW k \in Keys
               PROVE  (IF Hits(entries, k) = {} THEN base[k]
                       ELSE entries[LastHit(entries, k)].value) \in Values \cup {Absent}
    BY ReplayDef DEF Maps
  <1>1. CASE Hits(entries, k) = {}
    BY <1>1 DEF Maps
  <1>2. CASE Hits(entries, k) # {}
    <2>1. LastHit(entries, k) \in DOMAIN entries
      BY <1>2, LastHitType DEF Hits
    <2>2. entries[LastHit(entries, k)] \in Operations
      BY <2>1, LenProperties, ElementOfSeq
    <2> QED BY <1>2, <2>2 DEF Operations
  <1> QED BY <1>1, <1>2

(* Replaying no entries changes nothing. *)
LEMMA ReplayNothing ==
    ASSUME NEW base \in Maps
    PROVE  Replay(base, <<>>) = base /\ HasLast(<<>>)
  <1>1. \A k \in Keys : Hits(<<>>, k) = {}
    BY DEF Hits
  <1> QED BY <1>1, ReplayDef DEF Maps, HasLast

(* Replaying a journal over its own result changes nothing: a crash between *)
(* the rename and the removal of the journal is harmless.                   *)
LEMMA ReplayTwice ==
    ASSUME NEW base \in Maps, NEW entries
    PROVE  Replay(Replay(base, entries), entries) = Replay(base, entries)
  <1> DEFINE once == Replay(base, entries)
  <1>1. \A k \in Keys : Hits(entries, k) = {} => once[k] = base[k]
    BY ReplayDef
  <1>2. Replay(once, entries) =
           [k \in Keys |-> IF Hits(entries, k) = {} THEN once[k]
                           ELSE entries[LastHit(entries, k)].value]
    BY ReplayDef
  <1>3. once = [k \in Keys |-> IF Hits(entries, k) = {} THEN base[k]
                               ELSE entries[LastHit(entries, k)].value]
    BY ReplayDef
  <1> HIDE DEF once
  <1>4. Replay(once, entries) = once
    BY <1>1, <1>2, <1>3
  <1> QED BY <1>4 DEF once

(* The entry appended last decides its key and no other. *)
LEMMA ReplayAppend ==
    ASSUME NEW base \in Maps, NEW entries \in Seq(Operations), NEW o \in Operations,
           HasLast(entries)
    PROVE  /\ Replay(base, Append(entries, o)) = [Replay(base, entries) EXCEPT ![o.key] = o.value]
           /\ HasLast(Append(entries, o))
  <1> DEFINE longer == Append(entries, o)
             n      == Len(entries) + 1
  <1>1. /\ longer \in Seq(Operations) /\ Len(longer) = n /\ longer[n] = o
        /\ \A i \in 1 .. Len(entries) : longer[i] = entries[i]
        /\ Len(entries) \in Nat /\ DOMAIN entries = 1 .. Len(entries)
        /\ DOMAIN longer = 1 .. n
    BY AppendProperties, LenProperties
  <1> HIDE DEF longer
  <1>2. \A k \in Keys : Hits(longer, k) = IF k = o.key THEN Hits(entries, k) \cup {n}
                                          ELSE Hits(entries, k)
    BY <1>1 DEF Hits
  <1>3. \A k \in Keys : Hits(entries, k) \subseteq 1 .. Len(entries)
    BY <1>1 DEF Hits
  <1>4. o.key \in Keys
    BY DEF Operations
  <1>5. HasLast(longer)
    <2> SUFFICES ASSUME NEW k \in Keys, Hits(longer, k) # {}
                 PROVE  \E i \in Hits(longer, k) : \A j \in Hits(longer, k) : j <= i
      BY DEF HasLast
    <2>1. CASE k = o.key
      <3>1. n \in Hits(longer, k)
        BY <1>2, <2>1
      <3>2. \A j \in Hits(longer, k) : j <= n
        BY <1>1, <1>2, <1>3, <2>1
      <3> QED BY <3>1, <3>2
    <2>2. CASE k # o.key
      <3>1. Hits(longer, k) = Hits(entries, k)
        BY <1>2, <2>2
      <3> QED BY <3>1 DEF HasLast
    <2> QED BY <2>1, <2>2
  <1>6. LastHit(longer, o.key) = n
    <2>1. n \in Hits(longer, o.key)
      BY <1>2, <1>4
    <2>2. /\ LastHit(longer, o.key) \in Hits(longer, o.key)
          /\ n <= LastHit(longer, o.key)
      BY <1>4, <1>5, <2>1, LastHitType
    <2> QED BY <1>1, <1>2, <1>3, <1>4, <2>2
  <1>7. \A k \in Keys \ {o.key} : Hits(longer, k) = Hits(entries, k)
    BY <1>2
  <1>8. \A k \in Keys \ {o.key} :
           Hits(entries, k) # {} => longer[LastHit(longer, k)] = entries[LastHit(entries, k)]
    <2> SUFFICES ASSUME NEW k \in Keys \ {o.key}, Hits(entries, k) # {}
                 PROVE  longer[LastHit(longer, k)] = entries[LastHit(entries, k)]
      OBVIOUS
    <2>1. LastHit(longer, k) = LastHit(entries, k)
      BY <1>7 DEF LastHit
    <2>2. LastHit(entries, k) \in Hits(entries, k)
      BY LastHitType
    <2> QED BY <1>1, <1>3, <2>1, <2>2
  <1>9. n \in Hits(longer, o.key)
    BY <1>2, <1>4
  <1>10. \A k \in Keys : Replay(base, longer)[k] =
                           [Replay(base, entries) EXCEPT ![o.key] = o.value][k]
    <2> SUFFICES ASSUME NEW k \in Keys
                 PROVE  Replay(base, longer)[k] =
                           [Replay(base, entries) EXCEPT ![o.key] = o.value][k]
      OBVIOUS
    <2>1. CASE k = o.key
      <3>1. Replay(base, longer)[k] = o.value
        BY <1>1, <1>6, <1>9, <2>1, ReplayDef
      <3>2. [Replay(base, entries) EXCEPT ![o.key] = o.value][k] = o.value
        BY <2>1, ReplayDef
      <3> QED BY <3>1, <3>2
    <2>2. CASE k # o.key
      <3>1. Replay(base, longer)[k] = Replay(base, entries)[k]
        BY <1>7, <1>8, <2>2, ReplayDef
      <3>2. [Replay(base, entries) EXCEPT ![o.key] = o.value][k] = Replay(base, entries)[k]
        BY <2>2, ReplayDef
      <3> QED BY <3>1, <3>2
    <2> QED BY <2>1, <2>2
  <1>11. /\ Replay(base, longer) = [k \in Keys |-> Replay(base, longer)[k]]
         /\ [Replay(base, entries) EXCEPT ![o.key] = o.value] =
               [k \in Keys |-> [Replay(base, entries) EXCEPT ![o.key] = o.value][k]]
    BY ReplayDef
  <1>12. Replay(base, longer) = [Replay(base, entries) EXCEPT ![o.key] = o.value]
    BY <1>10, <1>11
  <1> QED BY <1>5, <1>12 DEF longer

-----------------------------------------------------------------------------
(* The inductive invariant.  It relates memory and disk at every step of the *)
(* one goroutine: what the disk would bring back is the map, or the map      *)
(* without the operation under way; what a save has written is the map.      *)

Resting(c) ==
    status # "down" /\ pc[c] \notin {"open", "append"} => Recovered = data

UnderWay(c) ==
    pc[c] \in {"open", "append"} => data = [Recovered EXCEPT ![doing[c].key] = doing[c].value]

Written(c) == /\ pc[c] = "rename" => tmp = data
              /\ pc[c] \in {"reset", "remove"} => file = data

JournalInv(c) == /\ TypeOK
                 /\ HasLast(Entries)
                 /\ status = "down" => pc[c] = "idle"
                 /\ pc[c] = "append" => journal # NoFile /\ handle[c] = "live"
                 /\ Resting(c)
                 /\ UnderWay(c)
                 /\ Written(c)

(* The files hold what their types say. *)
LEMMA DiskTypes ==
    ASSUME TypeOK
    PROVE  Saved \in Maps /\ Entries \in Seq(Operations)
  <1>1. Empty \in Maps
    BY DEF Empty, Maps
  <1>2. <<>> \in Seq(Operations)
    BY EmptySeq
  <1> QED BY <1>1, <1>2 DEF TypeOK, Saved, Entries

(* The first process finds no files. *)
LEMMA InitInv ==
    ASSUME NEW c, Clients = {c}, Init
    PROVE  JournalInv(c) /\ Recovered = data
  <1>1. Empty \in Maps
    BY DEF Empty, Maps
  <1>2. NoOps \in [Clients -> Operations]
    BY DatabaseAssumption DEF NoOps, Operations
  <1>3. TypeOK
    BY <1>1, <1>2 DEF Init, TypeOK, Steps
  <1>4. Recovered = data /\ HasLast(Entries)
    BY <1>1, ReplayNothing DEF Init, Recovered, Saved, Entries
  <1>5. pc[c] = "idle"
    BY DEF Init
  <1> QED BY <1>3, <1>4, <1>5 DEF Init, JournalInv, Resting, UnderWay, Written

(* Nothing a step leaves on the disk changes what the disk would bring back. *)
LEMMA SameDisk ==
    ASSUME UNCHANGED <<file, journal>>
    PROVE  Recovered' = Recovered /\ Entries' = Entries /\ Saved' = Saved
  BY DEF Recovered, Saved, Entries

(* Set and Delete change the map by one operation the disk does not have yet. *)
LEMMA UpdateInv ==
    ASSUME NEW c, Clients = {c}, JournalInv(c), NEW o \in Operations, Update(c, o)
    PROVE  /\ JournalInv(c)'
           /\ Recovered = data
           /\ data' = [data EXCEPT ![o.key] = o.value] /\ Recovered' = Recovered
  <1>1. Recovered' = Recovered /\ Entries' = Entries
    BY SameDisk DEF Update, disk
  <1>2. Recovered = data
    BY DEF Update, Idle, JournalInv, Resting
  <1>3. o.key \in Keys /\ o.value \in Values \cup {Absent}
    BY DEF Operations
  <1>4. TypeOK'
    BY <1>3 DEF JournalInv, TypeOK, Update, Goto, Steps, Maps, disk
  <1>5. pc'[c] = "open" /\ doing'[c] = o
    BY DEF JournalInv, TypeOK, Update, Goto
  <1>6. UnderWay(c)'
    BY <1>1, <1>2, <1>5 DEF Update, UnderWay
  <1> QED BY <1>1, <1>2, <1>4, <1>5, <1>6 DEF JournalInv, Update, Resting, Written

(* An empty journal is as good as none. *)
LEMMA OpenInv ==
    ASSUME NEW c, Clients = {c}, JournalInv(c), OpenJournal(c)
    PROVE  JournalInv(c)' /\ Recovered' = Recovered
  <1>0. <<>> \in Seq(Operations)
    BY EmptySeq
  <1>1. <<>> \in Seq(Operations) /\ journal' # NoFile
    <2>1. <<>> # NoFile
      BY <1>0, DatabaseAssumption
    <2> QED BY <1>0, <2>1 DEF OpenJournal
  <1>2. Entries' = Entries /\ Saved' = Saved
    BY <1>1 DEF OpenJournal, Entries, Saved
  <1>3. Recovered' = Recovered
    BY <1>2 DEF Recovered
  <1>4. TypeOK'
    BY <1>1 DEF JournalInv, TypeOK, OpenJournal, Goto, Steps
  <1>5. pc'[c] = "append" /\ handle'[c] = "live"
    BY DEF JournalInv, TypeOK, OpenJournal, Goto
  <1>6. UnderWay(c)'
    BY <1>3 DEF OpenJournal, JournalInv, UnderWay
  <1> QED BY <1>1, <1>2, <1>3, <1>4, <1>5, <1>6 DEF JournalInv, OpenJournal, Resting, Written

(* The appended entry makes the operation durable. *)
LEMMA AppendInv ==
    ASSUME NEW c, Clients = {c}, JournalInv(c), AppendEntry(c)
    PROVE  JournalInv(c)' /\ Recovered' = data' /\ data' = data
  <1> DEFINE longer == Append(journal, doing[c])
  <1>1. journal # NoFile /\ journal' = longer /\ doing[c] \in Operations
    BY DEF JournalInv, TypeOK, AppendEntry
  <1>2. longer \in Seq(Operations) /\ longer # NoFile
    BY <1>1, AppendProperties, DatabaseAssumption DEF JournalInv, TypeOK
  <1>3. Entries = journal /\ Entries' = longer /\ Saved' = Saved
    BY <1>1, <1>2 DEF Entries, Saved, AppendEntry
  <1>4. Saved \in Maps /\ Entries \in Seq(Operations)
    BY DiskTypes DEF JournalInv
  <1>5. /\ Recovered' = [Recovered EXCEPT ![doing[c].key] = doing[c].value]
        /\ HasLast(Entries')
    BY <1>1, <1>3, <1>4, ReplayAppend DEF Recovered, JournalInv
  <1>6. Recovered' = data' /\ data' = data
    BY <1>5 DEF AppendEntry, JournalInv, UnderWay
  <1>7. TypeOK'
    BY <1>1, <1>2 DEF JournalInv, TypeOK, AppendEntry, Goto, Steps
  <1>8. pc'[c] \in {"idle", "create"} /\ status' # "down"
    BY DEF JournalInv, TypeOK, AppendEntry, Goto
  <1> QED BY <1>5, <1>6, <1>7, <1>8 DEF JournalInv, Resting, UnderWay, Written

(* A save changes neither the map nor what the disk would bring back. *)
LEMMA SaveInv ==
    ASSUME NEW c, Clients = {c}, JournalInv(c),
           CallSave(c) \/ CreateTmp(c) \/ WriteTmp(c) \/ Rename(c) \/ ResetLen(c)
             \/ RemoveJournal(c)
    PROVE  JournalInv(c)' /\ Recovered' = Recovered /\ data' = data /\ Recovered = data
  <1>1. CASE CallSave(c)
    <2>1. Recovered' = Recovered /\ Entries' = Entries
      BY <1>1, SameDisk DEF CallSave, disk
    <2>2. TypeOK'
      BY <1>1 DEF JournalInv, TypeOK, CallSave, Goto, Steps, disk
    <2>3. pc'[c] = "create" /\ Recovered = data /\ data' = data /\ status' = status
      BY <1>1 DEF JournalInv, TypeOK, CallSave, Goto, Idle, Resting
    <2> QED BY <1>1, <2>1, <2>2, <2>3 DEF JournalInv, CallSave, Resting, UnderWay, Written
  <1>2. CASE CreateTmp(c)
    <2>1. Recovered' = Recovered /\ Entries' = Entries
      BY <1>2, SameDisk DEF CreateTmp
    <2>2. Empty \in Maps
      BY DEF Empty, Maps
    <2>3. TypeOK'
      BY <1>2, <2>2 DEF JournalInv, TypeOK, CreateTmp, Goto, Return, Steps
    <2>4. pc'[c] \in {"write", "idle"} /\ Recovered = data /\ data' = data /\ status' # "down"
      BY <1>2 DEF JournalInv, TypeOK, CreateTmp, Goto, Return, Resting
    <2> QED BY <1>2, <2>1, <2>3, <2>4 DEF JournalInv, Resting, UnderWay, Written
  <1>3. CASE WriteTmp(c)
    <2>1. Recovered' = Recovered /\ Entries' = Entries
      BY <1>3, SameDisk DEF WriteTmp
    <2>2. TypeOK'
      BY <1>3 DEF JournalInv, TypeOK, WriteTmp, Goto, Steps
    <2>3. /\ pc'[c] = "rename" /\ Recovered = data /\ data' = data /\ status' # "down"
          /\ tmp' = data'
      BY <1>3 DEF JournalInv, TypeOK, WriteTmp, Goto, Resting
    <2> QED BY <2>1, <2>2, <2>3 DEF JournalInv, Resting, UnderWay, Written
  <1>4. CASE Rename(c)
    <2>1. Recovered = data /\ data' = data /\ status' # "down" /\ tmp = data /\ data \in Maps
      BY <1>4 DEF JournalInv, TypeOK, Rename, Return, Resting, Written
    <2>2. CASE file' = tmp /\ tmp' = NoFile /\ Goto(c, "reset") /\ UNCHANGED status
      <3>1. Saved \in Maps /\ Saved' = Replay(Saved, Entries) /\ Entries' = Entries
        BY <1>4, <2>1, <2>2, DiskTypes, DatabaseAssumption
        DEF JournalInv, Saved, Entries, Recovered, Rename
      <3>2. Recovered' = Recovered
        BY <3>1, ReplayTwice DEF Recovered
      <3>3. pc'[c] = "reset" /\ file' = data'
        BY <1>4, <2>1, <2>2 DEF JournalInv, TypeOK, Goto
      <3>4. TypeOK'
        BY <1>4, <2>1, <2>2 DEF JournalInv, TypeOK, Rename, Goto, Steps
      <3> QED BY <2>1, <3>1, <3>2, <3>3, <3>4 DEF JournalInv, Resting, UnderWay, Written
    <2>3. CASE Return(c) /\ UNCHANGED <<file, tmp>>
      <3>1. Recovered' = Recovered /\ Entries' = Entries
        BY <1>4, <2>3, SameDisk DEF Rename
      <3>2. pc'[c] = "idle"
        BY <2>3 DEF JournalInv, TypeOK, Return, Goto
      <3>3. TypeOK'
        BY <1>4, <2>3 DEF JournalInv, TypeOK, Rename, Return, Goto, Steps
      <3> QED BY <2>1, <3>1, <3>2, <3>3 DEF JournalInv, Resting, UnderWay, Written
    <2> QED BY <1>4, <2>2, <2>3 DEF Rename
  <1>5. CASE ResetLen(c)
    <2>1. Recovered' = Recovered /\ Entries' = Entries
      BY <1>5, SameDisk DEF ResetLen, disk
    <2>2. TypeOK'
      BY <1>5 DEF JournalInv, TypeOK, ResetLen, Goto, Steps, disk
    <2>3. /\ pc'[c] = "remove" /\ Recovered = data /\ data' = data /\ status' # "down"
          /\ file' = data'
      BY <1>5 DEF JournalInv, TypeOK, ResetLen, Goto, Resting, Written, disk
    <2> QED BY <2>1, <2>2, <2>3 DEF JournalInv, Resting, UnderWay, Written
  <1>6. CASE RemoveJournal(c)
    <2>1. Recovered = data /\ data' = data /\ data \in Maps /\ file' = data
      BY <1>6 DEF JournalInv, TypeOK, RemoveJournal, Resting, Written
    <2>2. Entries' = <<>> /\ Saved' = data
      BY <1>6, <2>1, DatabaseAssumption DEF RemoveJournal, Entries, Saved
    <2>3. Recovered' = data /\ HasLast(Entries')
      BY <2>1, <2>2, ReplayNothing DEF Recovered
    <2>4. pc'[c] = "idle" /\ status' # "down"
      BY <1>6 DEF JournalInv, TypeOK, RemoveJournal, Return, Goto
    <2>5. TypeOK'
      BY <1>6 DEF JournalInv, TypeOK, RemoveJournal, Return, Goto, Steps
    <2> QED BY <2>1, <2>3, <2>4, <2>5 DEF JournalInv, Resting, UnderWay, Written
  <1> QED BY <1>1, <1>2, <1>3, <1>4, <1>5, <1>6

(* A crash forgets the map; the disk stays. *)
LEMMA CrashInv ==
    ASSUME NEW c, Clients = {c}, JournalInv(c), Crash
    PROVE  JournalInv(c)' /\ Recovered' = Recovered
  <1>1. Recovered' = Recovered /\ Entries' = Entries
    BY SameDisk DEF Crash, disk
  <1>2. Empty \in Maps
    BY DEF Empty, Maps
  <1>3. NoOps \in [Clients -> Operations]
    BY DatabaseAssumption DEF NoOps, Operations
  <1>4. TypeOK'
    BY <1>2, <1>3 DEF JournalInv, TypeOK, Crash, Steps, disk
  <1>5. pc'[c] = "idle" /\ status' = "down"
    BY DEF Crash
  <1> QED BY <1>1, <1>4, <1>5 DEF JournalInv, Resting, UnderWay, Written

(* Load rebuilds the map from the disk. *)
LEMMA LoadInv ==
    ASSUME NEW c, Clients = {c}, JournalInv(c), Load(c)
    PROVE  JournalInv(c)' /\ Recovered' = Recovered /\ data' = Recovered
  <1>1. Recovered' = Recovered /\ Entries' = Entries
    BY SameDisk DEF Load, disk
  <1>2. Recovered \in Maps
    BY DiskTypes, ReplayType DEF JournalInv, Recovered
  <1>3. TypeOK'
    BY <1>2 DEF JournalInv, TypeOK, Load, Goto, Steps, disk
  <1>4. pc'[c] \in {"idle", "create"} /\ status' # "down"
    BY DEF JournalInv, TypeOK, Load, Goto
  <1> QED BY <1>1, <1>3, <1>4 DEF JournalInv, Load, Resting, UnderWay, Written

(* A step of nothing. *)
LEMMA StutterInv ==
    ASSUME NEW c, JournalInv(c), UNCHANGED vars
    PROVE  JournalInv(c)' /\ Recovered' = Recovered
  <1>1. Recovered' = Recovered /\ Entries' = Entries
    BY SameDisk DEF vars, disk
  <1>2. TypeOK'
    BY DEF JournalInv, TypeOK, vars, memory, disk
  <1> QED BY <1>1, <1>2 DEF JournalInv, Resting, UnderWay, Written, vars, memory, disk

-----------------------------------------------------------------------------
(* Every step keeps the invariant. *)
LEMMA NextInv ==
    ASSUME NEW c, Clients = {c}, JournalInv(c), [Next]_vars
    PROVE  JournalInv(c)'
  <1>1. CASE \E o \in Operations : Update(c, o)
    BY <1>1, UpdateInv
  <1>2. CASE OpenJournal(c)
    BY <1>2, OpenInv
  <1>3. CASE AppendEntry(c)
    BY <1>3, AppendInv
  <1>4. CASE CallSave(c) \/ CreateTmp(c) \/ WriteTmp(c) \/ Rename(c) \/ ResetLen(c)
               \/ RemoveJournal(c)
    BY <1>4, SaveInv
  <1>5. CASE Load(c)
    BY <1>5, LoadInv
  <1>6. CASE Crash
    BY <1>6, CrashInv
  <1>7. CASE UNCHANGED vars
    BY <1>7, StutterInv
  <1> QED BY <1>1, <1>2, <1>3, <1>4, <1>5, <1>6, <1>7 DEF Next

(* With one goroutine, the invariant holds of every reachable state. *)
THEOREM JournalInvariant ==
    ASSUME NEW CONSTANT c, Clients = {c}
    PROVE  Spec => []JournalInv(c)
  <1>1. Init => JournalInv(c)
    BY InitInv
  <1>2. JournalInv(c) /\ [Next]_vars => JournalInv(c)'
    BY NextInv
  <1> QED BY <1>1, <1>2, PTL DEF Spec

(* The goroutines, the map and the files always hold what their types say. *)
THEOREM DatabaseTypeCorrect ==
    ASSUME NEW CONSTANT c, Clients = {c}
    PROVE  Spec => []TypeOK
  <1>1. JournalInv(c) => TypeOK
    BY DEF JournalInv
  <1> QED BY <1>1, JournalInvariant, PTL

(* For any keys, values and autosave threshold: whenever the one goroutine is *)
(* not inside Set or Delete, a crash would lose nothing, whatever saves,      *)
(* failures and crashes went before.                                          *)
THEOREM DurableCorrect ==
    ASSUME NEW CONSTANT c, Clients = {c}
    PROVE  Spec => []DurableWhenIdle
  <1>1. JournalInv(c) => DurableWhenIdle
    BY DEF JournalInv, Resting, DurableWhenIdle
  <1> QED BY <1>1, JournalInvariant, PTL

(* Every step of the database is a step of the durable map, or none. *)
LEMMA StepImplements ==
    ASSUME NEW c, Clients = {c}, JournalInv(c), [Next]_vars
    PROVE  [Durable!MapNext]_(Durable!mapVars)
  <1> USE DEF Durable!mapVars
  <1>1. CASE \E o \in Operations : Update(c, o)
    <2>1. PICK o \in Operations : Update(c, o)
      BY <1>1
    <2>2. /\ Recovered = data /\ Recovered' = Recovered
          /\ data' = [data EXCEPT ![o.key] = o.value]
      BY <2>1, UpdateInv
    <2>3. o.key \in Keys /\ o.value \in Values \cup {Absent}
      BY DEF Operations
    <2>4. status # "down" /\ status' # "down"
      BY <2>1 DEF Update
    <2>5. Durable!Put
      BY <2>2, <2>3, <2>4 DEF Durable!Put
    <2> QED BY <2>5 DEF Durable!MapNext
  <1>2. CASE OpenJournal(c)
    <2>1. Recovered' = Recovered /\ data' = data /\ status' = status
      BY <1>2, OpenInv DEF OpenJournal
    <2> QED BY <2>1
  <1>3. CASE AppendEntry(c)
    <2>1. Recovered' = data' /\ data' = data
      BY <1>3, AppendInv
    <2>2. status # "down" /\ status' # "down"
      BY <1>3 DEF AppendEntry, JournalInv
    <2>3. Durable!Sync
      BY <2>1, <2>2 DEF Durable!Sync
    <2> QED BY <2>3 DEF Durable!MapNext
  <1>4. CASE CallSave(c) \/ CreateTmp(c) \/ WriteTmp(c) \/ Rename(c) \/ ResetLen(c)
               \/ RemoveJournal(c)
    <2>1. Recovered' = Recovered /\ data' = data /\ Recovered = data
      BY <1>4, SaveInv
    <2> QED BY <2>1
  <1>5. CASE Load(c)
    <2>1. Recovered' = Recovered /\ data' = Recovered /\ status = "down"
      BY <1>5, LoadInv DEF Load
    <2> QED BY <2>1
  <1>6. CASE Crash
    <2>1. Recovered' = Recovered /\ status' = "down"
      BY <1>6, CrashInv DEF Crash
    <2>2. Durable!Restart
      BY <2>1 DEF Durable!Restart
    <2> QED BY <2>2 DEF Durable!MapNext
  <1>7. CASE UNCHANGED vars
    <2>1. Recovered' = Recovered /\ data' = data /\ status' = status
      BY <1>7, StutterInv DEF vars, memory
    <2> QED BY <2>1
  <1> QED BY <1>1, <1>2, <1>3, <1>4, <1>5, <1>6, <1>7 DEF Next

(* With one goroutine the database implements the durable map, for any keys and *)
(* values: no state of the disk loses an operation that returned, and the one   *)
(* under way is kept or lost whole.                                             *)
THEOREM ImplementsDurable ==
    ASSUME NEW CONSTANT c, Clients = {c}
    PROVE  Spec => ImplementsDurableMap
  <1>1. Init => Durable!MapInit
    BY InitInv DEF Init, Durable!MapInit, Empty
  <1>2. JournalInv(c) /\ [Next]_vars => [Durable!MapNext]_(Durable!mapVars)
    BY StepImplements
  <1> QED BY <1>1, <1>2, JournalInvariant, PTL
          DEF Spec, ImplementsDurableMap, Durable!MapSpec
====
