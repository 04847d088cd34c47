---- MODULE TunnelClient ----
(***************************************************************************)
(* The client end of a proxy tunnel (HTTPProxyClientTCP): browsers connect *)
(* to it, and it asks the server end for a connection to the target with   *)
(* the first data of each.  Until the answer comes, data is held back in   *)
(* pendingConnsData.                                                       *)
(*                                                                         *)
(* One goroutine per browser connection runs handleTCPReadFunc, one runs   *)
(* handleWebTransportReadFunc for the frames of the server.  Each access   *)
(* to a map is a critical section of its own.                              *)
(***************************************************************************)
EXTENDS TunnelLink

VARIABLES open,         \* the connections neither side has closed
          sent,         \* pieces of data read from each connection
          handler,      \* handleTCPReadFunc of each connection
          waiting,      \* pendingConnections: connections that wait for an answer
          pending,      \* pendingConnsData: the data held back, or NotPending
          clientToID,
          idToClient,
          flusher,      \* handleWebTransportReadFunc
          got,          \* history: the replies written to each connection
          overlapped    \* history: connections whose data was stored during a flush

clientVars == <<open, sent, handler, waiting, pending, clientToID, idToClient, flusher, got,
                overlapped>>

ClientInit == /\ open = Conns
              /\ sent = [c \in Conns |-> 0]
              /\ handler = [c \in Conns |-> Idle]
              /\ waiting = {}
              /\ pending = [c \in Conns |-> NotPending]
              /\ clientToID = [c \in Conns |-> NoID]
              /\ idToClient = [i \in IDs |-> NoConn]
              /\ flusher = Idle
              /\ got = [c \in Conns |-> <<>>]
              /\ overlapped = {}

Flushing(c) == flusher # Idle /\ flusher.conn = c

(* The goroutine of c goes on reading, or ends with the connection. *)
After(data) == IF data = Nothing THEN Ended ELSE Idle

-----------------------------------------------------------------------------
(* handleTCPReadFunc(c, data), up to its first change of state.  The two maps *)
(* it looks at do not change for c between the looks: while nothing is        *)
(* pending for c the other goroutine leaves its entries alone.                *)
Handle(c, data) ==
    \/ /\ pending[c] # NotPending
       /\ handler' = [handler EXCEPT ![c] = [at |-> "append", data |-> data]]
       /\ overlapped' = IF Flushing(c) THEN overlapped \cup {c} ELSE overlapped
       /\ UNCHANGED <<waiting, up>>
    \/ /\ pending[c] = NotPending /\ clientToID[c] = NoID
       /\ waiting' = waiting \cup {c}
       /\ up' = Append(up, ConnectFrame(c, NoID))
       /\ handler' = [handler EXCEPT ![c] = [at |-> "store", data |-> data, list |-> <<data>>]]
       /\ UNCHANGED overlapped
    \/ /\ pending[c] = NotPending /\ clientToID[c] # NoID
       /\ up' = Append(up, IF data = Nothing THEN CloseFrame(clientToID[c])
                           ELSE DataFrame(clientToID[c], data))
       /\ handler' = [handler EXCEPT ![c] = After(data)]
       /\ UNCHANGED <<waiting, overlapped>>

(* The browser's next data is read. *)
BrowserData(c) ==
    /\ handler[c] = Idle /\ c \in open
    /\ sent[c] < DataCount(c)
    /\ sent' = [sent EXCEPT ![c] = @ + 1]
    /\ Handle(c, <<c, sent[c] + 1>>)
    /\ UNCHANGED <<open, pending, clientToID, idToClient, flusher, got, down>>

(* The browser closes the connection, or the proxy did. *)
BrowserEnd(c) ==
    /\ handler[c] = Idle
    /\ open' = open \ {c}
    /\ Handle(c, Nothing)
    /\ UNCHANGED <<sent, pending, clientToID, idToClient, flusher, got, down>>

(* Mutant of FetchPending: the new piece is put first. *)
FetchPrepend(c) ==
    /\ handler[c].at = "append"
    /\ LET list == IF pending[c] = NotPending THEN <<>> ELSE pending[c]
       IN  handler' = [handler EXCEPT ![c] =
                          [at |-> "store", data |-> @.data, list |-> <<@.data>> \o list]]
    /\ UNCHANGED <<open, sent, waiting, pending, clientToID, idToClient, flusher, got, overlapped,
                   links>>

(* Data for a pending connection: the list is fetched and extended ... *)
FetchPending(c) ==
    /\ handler[c].at = "append"
    /\ LET list == IF pending[c] = NotPending THEN <<>> ELSE pending[c]
       IN  handler' = [handler EXCEPT ![c] =
                          [at |-> "store", data |-> @.data, list |-> Append(list, @.data)]]
    /\ UNCHANGED <<open, sent, waiting, pending, clientToID, idToClient, flusher, got, overlapped,
                   links>>

(* ... and stored: the first list of a connection, or the extended one. *)
StorePending(c) ==
    /\ handler[c].at = "store"
    /\ pending' = [pending EXCEPT ![c] = handler[c].list]
    /\ handler' = [handler EXCEPT ![c] = After(@.data)]
    /\ UNCHANGED <<open, sent, waiting, clientToID, idToClient, flusher, got, overlapped, links>>

-----------------------------------------------------------------------------
(* Mutant of Confirmed: the first connection that waits is taken, whatever the *)
(* temporary id.                                                               *)
ConfirmedAnyone(frame) ==
    /\ frame.op = "connect" /\ waiting # {}
    /\ \E c \in waiting :
         /\ waiting' = waiting \ {c}
         /\ clientToID' = [clientToID EXCEPT ![c] = frame.id]
         /\ idToClient' = [idToClient EXCEPT ![frame.id] = c]
         /\ flusher' = [at |-> "send", conn |-> c, id |-> frame.id]
         /\ overlapped' = IF handler[c].at \in {"append", "store"}
                          THEN overlapped \cup {c} ELSE overlapped
    /\ UNCHANGED <<open, got>>

(* Mutant of Confirmed: the id is not put into clientToID. *)
ConfirmedOneWay(frame) ==
    /\ frame.op = "connect" /\ frame.data \in waiting
    /\ waiting' = waiting \ {frame.data}
    /\ idToClient' = [idToClient EXCEPT ![frame.id] = frame.data]
    /\ flusher' = [at |-> "send", conn |-> frame.data, id |-> frame.id]
    /\ overlapped' = IF handler[frame.data].at \in {"append", "store"}
                     THEN overlapped \cup {frame.data} ELSE overlapped
    /\ UNCHANGED <<open, clientToID, got>>

(* handleWebTransportReadFunc: the server confirms a connection that waits. *)
Confirmed(frame) ==
    /\ frame.op = "connect" /\ frame.data \in waiting
    /\ waiting' = waiting \ {frame.data}
    /\ clientToID' = [clientToID EXCEPT ![frame.data] = frame.id]
    /\ idToClient' = [idToClient EXCEPT ![frame.id] = frame.data]
    /\ flusher' = [at |-> "send", conn |-> frame.data, id |-> frame.id]
    /\ overlapped' = IF handler[frame.data].at \in {"append", "store"}
                     THEN overlapped \cup {frame.data} ELSE overlapped
    /\ UNCHANGED <<open, got>>

(* The server closes a connection. *)
Closed(frame) ==
    /\ frame.op = "close" /\ idToClient[frame.id] \in open
    /\ open' = open \ {idToClient[frame.id]}
    /\ UNCHANGED <<waiting, clientToID, idToClient, flusher, got, overlapped>>

(* A reply is written to its connection. *)
Replied(frame) ==
    /\ frame.op = "data" /\ frame.data # Nothing /\ idToClient[frame.id] \in open
    /\ got' = [got EXCEPT ![idToClient[frame.id]] = Append(@, frame.data)]
    /\ UNCHANGED <<open, waiting, clientToID, idToClient, flusher, overlapped>>

(* An answer nobody waits for is logged; Close and Send do nothing to no connection *)
(* or a closed one, and an empty reply is nothing to write.                         *)
Ignored(frame) ==
    /\ IF frame.op = "connect" THEN frame.data \notin waiting
       ELSE idToClient[frame.id] \in open => frame.op = "data" /\ frame.data = Nothing
    /\ UNCHANGED <<open, waiting, clientToID, idToClient, flusher, got, overlapped>>

FromServer ==
    /\ flusher = Idle /\ down # <<>>
    /\ down' = Tail(down)
    /\ LET frame == Head(down)
       IN  Confirmed(frame) \/ Closed(frame) \/ Replied(frame) \/ Ignored(frame)
    /\ UNCHANGED <<sent, handler, pending, up>>

(* The loop over the pending data: the first piece is sent ... *)
FlushSend ==
    /\ flusher.at = "send"
    /\ pending[flusher.conn] \notin {NotPending, <<>>}
    /\ up' = Append(up, DataFrame(flusher.id, Head(pending[flusher.conn])))
    /\ flusher' = [flusher EXCEPT !.at = "cut"]
    /\ UNCHANGED <<open, sent, handler, waiting, pending, clientToID, idToClient, got, overlapped,
                   down>>

(* ... the rest of the list is fetched ... *)
FlushCut ==
    /\ flusher.at = "cut"
    /\ flusher' = [at |-> "set", conn |-> flusher.conn, id |-> flusher.id,
                   rest |-> Tail(pending[flusher.conn])]
    /\ UNCHANGED <<open, sent, handler, waiting, pending, clientToID, idToClient, got, overlapped,
                   links>>

(* ... and stored. *)
FlushSet ==
    /\ flusher.at = "set"
    /\ pending' = [pending EXCEPT ![flusher.conn] = flusher.rest]
    /\ flusher' = [at |-> "send", conn |-> flusher.conn, id |-> flusher.id]
    /\ UNCHANGED <<open, sent, handler, waiting, clientToID, idToClient, got, overlapped, links>>

(* Mutant of FlushEnd: the loop ends with one piece left. *)
FlushEndEarly ==
    /\ flusher.at = "send"
    /\ pending[flusher.conn] # NotPending => Len(pending[flusher.conn]) \leq 1
    /\ flusher' = [flusher EXCEPT !.at = "delete"]
    /\ UNCHANGED <<open, sent, handler, waiting, pending, clientToID, idToClient, got, overlapped,
                   links>>

(* Nothing is pending any more: the loop ends ... *)
FlushEnd ==
    /\ flusher.at = "send"
    /\ pending[flusher.conn] \in {NotPending, <<>>}
    /\ flusher' = [flusher EXCEPT !.at = "delete"]
    /\ UNCHANGED <<open, sent, handler, waiting, pending, clientToID, idToClient, got, overlapped,
                   links>>

(* Mutant of FlushDelete: the connection stays pending, with an empty list. *)
FlushKeep ==
    /\ flusher.at = "delete"
    /\ flusher' = Idle
    /\ UNCHANGED <<open, sent, handler, waiting, pending, clientToID, idToClient, got, overlapped,
                   links>>

(* ... and the connection is no longer pending. *)
FlushDelete ==
    /\ flusher.at = "delete"
    /\ pending' = [pending EXCEPT ![flusher.conn] = NotPending]
    /\ flusher' = Idle
    /\ UNCHANGED <<open, sent, handler, waiting, clientToID, idToClient, got, overlapped, links>>

ClientReader == FromServer \/ FlushSend \/ FlushCut \/ FlushSet \/ FlushEnd \/ FlushDelete

ClientNext == \/ \E c \in Conns : BrowserData(c) \/ BrowserEnd(c) \/ FetchPending(c) \/ StorePending(c)
              \/ ClientReader
====
