---- MODULE TunnelServer ----
(***************************************************************************)
(* The server end of a proxy tunnel (HTTPProxyServerTCP): it opens a       *)
(* connection to the target for every connect frame and copies data both   *)
(* ways.                                                                   *)
(*                                                                         *)
(* One goroutine runs handleWebSocketReadFunc for the frames of the        *)
(* client, and one per target connection runs handleTCPReadFunc.  They     *)
(* share idToClient and clientToID, whose entries come and go in steps of  *)
(* their own.  A nil connection that is used ends the process: `panicked`. *)
(***************************************************************************)
EXTENDS TunnelLink, FiniteSets

VARIABLES owner,        \* the connection each drawn id was asked for
          target,       \* the target connection: "none", "open" or "closed"
          alive,        \* ids whose read goroutine runs (IsAlive)
          registered,   \* ids in idToClient of the server
          known,        \* ids whose connection is in clientToID of the server
          dispatcher,   \* handleWebSocketReadFunc
          reader,       \* handleTCPReadFunc of each id
          replies,      \* replies read from each target
          received,     \* history: what was written to each target
          answered,     \* history: replies read when the answer was sent, or -1
          panicked      \* the process has ended

serverVars == <<owner, target, alive, registered, known, dispatcher, reader, replies, received,
                answered, panicked>>

ServerInit == /\ owner = [i \in IDs |-> NoConn]
              /\ target = [i \in IDs |-> "none"]
              /\ alive = {}
              /\ registered = {} /\ known = {}
              /\ dispatcher = Idle
              /\ reader = [i \in IDs |-> Ended]
              /\ replies = [i \in IDs |-> 0]
              /\ received = [i \in IDs |-> <<>>]
              /\ answered = [i \in IDs |-> -1]
              /\ panicked = FALSE

Drawn == {i \in IDs : owner[i] # NoConn}

-----------------------------------------------------------------------------
(* A connect frame: an id is drawn and the target dialled.  Connect() returns  *)
(* half a second later, whether it succeeded or not; the target is read at     *)
(* once.                                                                       *)
Dial(conn) ==
    /\ Drawn # IDs
    /\ LET id == Cardinality(Drawn) + 1
       IN  /\ owner' = [owner EXCEPT ![id] = conn]
           /\ dispatcher' = [at |-> "register", id |-> id]
           /\ \/ /\ target' = [target EXCEPT ![id] = "open"]
                 /\ alive' = alive \cup {id}
                 /\ reader' = [reader EXCEPT ![id] = Idle]
              \/ UNCHANGED <<target, alive, reader>>

(* handleWebSocketReadFunc, up to the first look at idToClient. *)
FromClient ==
    /\ dispatcher = Idle /\ up # <<>>
    /\ up' = Tail(up)
    /\ LET frame == Head(up)
       IN  \/ frame.op = "connect" /\ Dial(frame.data)
           \/ /\ frame.id \in registered
              /\ dispatcher' = [at |-> "dispatch", id |-> frame.id, frame |-> frame]
              /\ UNCHANGED <<owner, target, alive, reader>>
           \/ /\ frame.op # "connect" /\ frame.id \notin registered
              /\ UNCHANGED <<owner, target, alive, reader, dispatcher>>
    /\ UNCHANGED <<registered, known, replies, received, answered, panicked, down>>

(* Mutant of RegisterID: the answer is sent before the connection is in clientToID. *)
AnswerEarly ==
    /\ dispatcher.at = "register"
    /\ registered' = registered \cup {dispatcher.id}
    /\ down' = Append(down, ConnectFrame(owner[dispatcher.id], dispatcher.id))
    /\ answered' = [answered EXCEPT ![dispatcher.id] = replies[dispatcher.id]]
    /\ dispatcher' = [dispatcher EXCEPT !.at = "known"]
    /\ UNCHANGED <<owner, target, alive, known, reader, replies, received, panicked, up>>

(* Mutant of RegisterID: idToClient is left for later. *)
RegisterNothing ==
    /\ dispatcher.at = "register"
    /\ dispatcher' = [dispatcher EXCEPT !.at = "known"]
    /\ UNCHANGED <<owner, target, alive, registered, known, reader, replies, received, answered,
                   panicked, links>>

(* The new connection is put into idToClient ... *)
RegisterID ==
    /\ dispatcher.at = "register"
    /\ registered' = registered \cup {dispatcher.id}
    /\ dispatcher' = [dispatcher EXCEPT !.at = "known"]
    /\ UNCHANGED <<owner, target, alive, known, reader, replies, received, answered, panicked, links>>

(* ... and clientToID ... *)
RegisterClient ==
    /\ dispatcher.at = "known"
    /\ known' = known \cup {dispatcher.id}
    /\ dispatcher' = [dispatcher EXCEPT !.at = "answer"]
    /\ UNCHANGED <<owner, target, alive, registered, reader, replies, received, answered, panicked,
                   links>>

(* ... looked up again, and the answer sent on it. *)
Answer ==
    /\ dispatcher.at = "answer"
    /\ \/ /\ dispatcher.id \in registered
          /\ down' = Append(down, ConnectFrame(owner[dispatcher.id], dispatcher.id))
          /\ answered' = [answered EXCEPT ![dispatcher.id] = replies[dispatcher.id]]
          /\ UNCHANGED panicked
       \/ /\ dispatcher.id \notin registered
          /\ panicked' = TRUE
          /\ UNCHANGED <<down, answered>>
    /\ dispatcher' = Idle
    /\ UNCHANGED <<owner, target, alive, registered, known, reader, replies, received, up>>

(* A frame for a connection that was found: it is looked up again.  Data is    *)
(* written to an open target, a close stops it (Stop, the first step of        *)
(* Close(false)).                                                              *)
Dispatch ==
    /\ dispatcher.at = "dispatch"
    /\ LET id   == dispatcher.id
           data == dispatcher.frame.data
           live == id \in registered /\ id \in alive
           ends == live /\ dispatcher.frame.op = "close"
       IN  /\ panicked' = (id \notin registered)
           /\ received' = IF live /\ target[id] = "open" /\ data # Nothing
                          THEN [received EXCEPT ![id] = Append(@, data)] ELSE received
           /\ target' = IF ends THEN [target EXCEPT ![id] = "closed"] ELSE target
           /\ dispatcher' = IF ends THEN [at |-> "unmap", id |-> id] ELSE Idle
    /\ UNCHANGED <<owner, alive, registered, known, reader, replies, answered, links>>

(* Close(false): the connection leaves idToClient ... *)
Unmap ==
    /\ dispatcher.at = "unmap"
    /\ registered' = registered \ {dispatcher.id}
    /\ dispatcher' = [dispatcher EXCEPT !.at = "forget"]
    /\ UNCHANGED <<owner, target, alive, known, reader, replies, received, answered, panicked, links>>

(* ... and clientToID. *)
Forget ==
    /\ dispatcher.at = "forget"
    /\ known' = known \ {dispatcher.id}
    /\ dispatcher' = Idle
    /\ UNCHANGED <<owner, target, alive, registered, reader, replies, received, answered, panicked,
                   links>>

-----------------------------------------------------------------------------
(* handleTCPReadFunc of id: what the two maps do not hold is not passed on. *)
Check(id, data) ==
    reader' = [reader EXCEPT ![id] =
                  IF id \in known \cap registered THEN [at |-> "found", data |-> data]
                  ELSE IF data = Nothing THEN Ended ELSE Idle]

(* A reply of the target is read. *)
TargetData(id) ==
    /\ reader[id] = Idle /\ target[id] = "open"
    /\ replies[id] < ReplyCount(owner[id])
    /\ replies' = [replies EXCEPT ![id] = @ + 1]
    /\ Check(id, <<id, replies[id] + 1>>)
    /\ UNCHANGED <<owner, target, alive, registered, known, dispatcher, received, answered, panicked,
                   links>>

(* The target closes the connection, or Stop did: the goroutine ends, at once or *)
(* after passing it on.                                                          *)
TargetEnd(id) ==
    /\ reader[id] = Idle
    /\ target' = [target EXCEPT ![id] = "closed"]
    /\ Check(id, Nothing)
    /\ alive' = IF id \in known \cap registered THEN alive ELSE alive \ {id}
    /\ UNCHANGED <<owner, registered, known, dispatcher, replies, received, answered, panicked, links>>

(* The connection is looked up again, and the reply sent on it.  If it has left a *)
(* map since, it is nil.                                                          *)
Forward(id) ==
    /\ reader[id].at = "found"
    /\ LET found == id \in known \cap registered
           data  == reader[id].data
       IN  /\ panicked' = ~found
           /\ down' = IF found /\ data # Nothing THEN Append(down, DataFrame(id, data)) ELSE down
           /\ reader' = [reader EXCEPT ![id] = IF data = Nothing THEN [at |-> "unmap"] ELSE Idle]
    /\ UNCHANGED <<owner, target, alive, registered, known, dispatcher, replies, received, answered, up>>

(* Close(true) after a disconnect: the connection leaves idToClient ... *)
EndUnmap(id) ==
    /\ reader[id].at = "unmap"
    /\ registered' = registered \ {id}
    /\ reader' = [reader EXCEPT ![id] = [at |-> "tell"]]
    /\ UNCHANGED <<owner, target, alive, known, dispatcher, replies, received, answered, panicked, links>>

(* Mutant of EndTell: the close of the target is not passed on (Close(false)). *)
EndSilently(id) ==
    /\ reader[id].at = "tell"
    /\ down' = Append(down, DataFrame(id, Nothing))
    /\ known' = known \ {id}
    /\ reader' = [reader EXCEPT ![id] = Ended]
    /\ alive' = alive \ {id}
    /\ UNCHANGED <<owner, target, registered, dispatcher, replies, received, answered, panicked, up>>

(* ... a close frame is sent, the connection leaves clientToID, and what was read, *)
(* nothing, is sent after it.  The goroutine ends.                                 *)
EndTell(id) ==
    /\ reader[id].at = "tell"
    /\ down' = down \o <<CloseFrame(id), DataFrame(id, Nothing)>>
    /\ known' = known \ {id}
    /\ reader' = [reader EXCEPT ![id] = Ended]
    /\ alive' = alive \ {id}
    /\ UNCHANGED <<owner, target, registered, dispatcher, replies, received, answered, panicked, up>>

ServerReader == FromClient \/ RegisterID \/ RegisterClient \/ Answer \/ Dispatch \/ Unmap \/ Forget

TargetReader(id) == Forward(id) \/ EndUnmap(id) \/ EndTell(id)

ServerNext == \/ ServerReader
              \/ \E id \in IDs : TargetData(id) \/ TargetEnd(id) \/ TargetReader(id)
====
