---- MODULE Tunnel ----
(***************************************************************************)
(* Both ends of a proxy tunnel over one WebSocket, with the browsers at    *)
(* one end and the targets at the other.  The process of the server may    *)
(* end by using a nil connection: the model ends with it.                  *)
(***************************************************************************)
EXTENDS TunnelClient, TunnelServer

vars == <<links, clientVars, serverVars>>

Init == LinkInit /\ ClientInit /\ ServerInit

Next == /\ ~panicked
        /\ \/ ClientNext /\ UNCHANGED serverVars
           \/ ServerNext /\ UNCHANGED clientVars

Spec == Init /\ [][Next]_vars

(* Goroutines go on, and one that reads a closed connection is told so.  Nothing *)
(* is assumed of browsers and targets.                                           *)
AtClient(Action) == ~panicked /\ Action /\ UNCHANGED serverVars
AtServer(Action) == ~panicked /\ Action /\ UNCHANGED clientVars

Fairness ==
    /\ \A c \in Conns : /\ WF_vars(AtClient(FetchPending(c)))
                        /\ WF_vars(AtClient(StorePending(c)))
                        /\ WF_vars(AtClient(c \notin open /\ BrowserEnd(c)))
    /\ WF_vars(AtClient(ClientReader))
    /\ WF_vars(AtServer(ServerReader))
    /\ \A i \in IDs : /\ WF_vars(AtServer(TargetReader(i)))
                      /\ WF_vars(AtServer(target[i] = "closed" /\ TargetEnd(i)))

FairSpec == Spec /\ Fairness

-----------------------------------------------------------------------------
Pieces(c)  == {<<c, n>> : n \in 1 .. DataCount(c)} \cup {Nothing}
AllPieces  == UNION {Pieces(c) : c \in Conns}
Answers(i) == {<<i, n>> : n \in Nat \ {0}} \cup {Nothing}

(* The type invariant.  A list that is fetched or stored is never empty but by the *)
(* flush loop.                                                                     *)
TypeOK ==
    /\ open \subseteq Conns /\ waiting \subseteq Conns /\ overlapped \subseteq Conns
    /\ \A c \in Conns :
         /\ sent[c] \in 0 .. DataCount(c)
         /\ clientToID[c] \in {NoID} \cup IDs
         /\ pending[c] # NotPending => pending[c] \in Seq(Pieces(c))
         /\ handler[c].at \in {"idle", "ended", "append", "store"}
         /\ handler[c].at = "store" => Last(handler[c].list) = handler[c].data
    /\ \A i \in IDs :
         /\ idToClient[i] \in Conns \cup {NoConn} /\ owner[i] \in Conns \cup {NoConn}
         /\ target[i] \in {"none", "open", "closed"}
         /\ received[i] \in Seq(AllPieces \ {Nothing})
         /\ answered[i] \in -1 .. replies[i]
    /\ \A f \in Range(up) \cup Range(down) : f.op \in {"connect", "close", "data"}

(* One browser connection never has two connections to the target: the answer    *)
(* that clears pendingConnections leaves an id behind, and until then the pending *)
(* list keeps handleTCPReadFunc from asking again.                                *)
OneTarget == \A i, j \in IDs : owner[i] = owner[j] /\ owner[i] # NoConn => i = j

(* Data never crosses from one browser's connection to another's target or back,   *)
(* through two maps at each end and a handshake with two kinds of ids.             *)
NothingCrosses ==
    /\ \A i \in IDs : \A n \in DOMAIN received[i] : received[i][n][1] = owner[i]
    /\ \A c \in Conns : \A n \in DOMAIN got[c] : owner[got[c][n][1]] = c

(* Replies reach the browser in order and without a gap, from the first the target *)
(* sent after the answer on: once the server has answered, none is lost.  (What the *)
(* target says before is lost.)                                                     *)
RepliesKept ==
    \A c \in Conns : got[c] # <<>> =>
        LET i     == Head(got[c])[1]
            first == Head(got[c])[2]
        IN  /\ first \leq answered[i] + 1
            /\ got[c] = [n \in 1 .. Len(got[c]) |-> <<i, first + n - 1>>]

(* What a target gets is what the browser sent, in order and without a gap or a    *)
(* repetition - unless handleTCPReadFunc was storing held-back data while the       *)
(* answer was handled, when Get and Set of the two goroutines mix.                  *)
IntactUnlessOverlapped ==
    \A i \in IDs : owner[i] \in Conns \ overlapped =>
        LET c == owner[i] IN IsPrefix(received[i], [n \in 1 .. sent[c] |-> <<c, n>>])

(* The server looks a connection up, finds it, and looks it up again to use it.  Only *)
(* a close comes in between: while no target has been closed, what was found is there  *)
(* and the process does not end.  (A close may come in between, and then it does.)     *)
NilOnlyAfterClose == panicked => \E i \in IDs : target[i] = "closed"

(* Every piece of data the browser sent gets to its target, however sending and the  *)
(* handshake interleave, unless the target is not open (any more), or the two        *)
(* goroutines of the client overlapped.                                              *)
DataArrives ==
    \A c \in Conns : \A n \in 1 .. DataCount(c) :
        sent[c] \geq n ~> \/ panicked \/ c \in overlapped
                          \/ \E i \in IDs : /\ owner[i] = c
                                            /\ target[i] # "open" \/ Len(received[i]) \geq n

(* A target's close that the server passes on closes the browser's connection, and   *)
(* a browser's close that the client passes on closes the target's.                  *)
CloseArrives ==
    \A i \in IDs :
        /\ reader[i].at = "unmap" ~> panicked \/ owner[i] \notin open
        /\ CloseFrame(i) \in Range(up) ~> panicked \/ target[i] # "open"
====
