---------------------------- MODULE StableServer ----------------------------
(* The connections of a stable UDP server: udp/UDPServer.go finds one by the   *)
(* address of a datagram, udp/UDPConnectionStabilizer.go keeps its counters by *)
(* connection, and udp/UDPServerStable.go keeps what the user gets by          *)
(* stabilizer connection. Three maps, changed one at a time by the read loop,  *)
(* the pings sent on connect, the keep-alive ticker, timers and Stop.          *)
(*                                                                             *)
(* Every goroutine has a list of what it still has to do. A step does the head *)
(* of the list, one access to a shared map, and puts in its place what the     *)
(* calls it stands for go on with.                                             *)
EXTENDS Integers, Sequences, FiniteSets, SequencesExt

CONSTANTS
    Addrs,          \* client addresses
    MaxConns,       \* bound on the connections ever made
    MaxDatagrams,   \* bound on the datagrams received
    Tries           \* KeepAliveTriesBeforeError, where it is not disabled (-1)

ASSUME TriesAssumption == Tries \in Nat

Conns == 1 .. MaxConns

VARIABLES
    udpConns,       \* Server.conns: address -> connection, or 0
    stab,           \* connectionStabilizer.conns: its connections
    known,          \* ServerStable.conns: connections the user has been given
    address,        \* address of each connection made so far
    received,       \* number of datagrams
    keepAlive,      \* KeepAliveInterval is not 0
    ticked,         \* the ticker has ticked
    stopping,       \* Stop was called
    missing,        \* missingPingPackets
    silent,         \* connections last seen before the cleanup timeout
    lock,           \* who ranges over the stabilizer's map, or Nobody
    waiting,        \* goroutines that wait for the write lock of that map
    work,           \* goroutine -> what it still has to do
    answered,       \* connections that have answered a ping
    robbed,         \* connections whose address entry another one's Close took
    closes,         \* connections on which Close was called
    endsTold,       \* how often the user was told, by its name, that one has ended
    panicked        \* a nil connection was used: the process has ended

maps == <<udpConns, stab, known>>
environment == <<address, received, keepAlive, ticked, stopping>>
traffic == <<missing, silent>>
locks == <<lock, waiting>>
history == <<answered, robbed, closes, endsTold>>
serverVars == <<maps, environment, traffic, locks, history, work, panicked>>

Reader    == <<"reader", 0>>
Ticker    == <<"ticker", 0>>
Stopper   == <<"stopper", 0>>
Pinger(k) == <<"pinger", k>>
Timer(op, k) == <<op, k>>
Goroutines == {Reader, Ticker, Stopper}
                  \union {<<name, k>> : name \in {"pinger", "ack"}, k \in Conns}
Nobody == <<"nobody", 0>>

Task(op, k) == <<op, k>>
Tasks(ops, k) == [i \in DOMAIN ops |-> Task(ops[i], k)]

ServerInit ==
    /\ udpConns = [a \in Addrs |-> 0] /\ stab = {} /\ known = {}
    /\ address = <<>> /\ received = 0
    /\ keepAlive \in BOOLEAN /\ ticked = FALSE /\ stopping = FALSE
    /\ missing = [k \in Conns |-> 0] /\ silent = {}
    /\ lock = Nobody /\ waiting = {}
    /\ work = [g \in Goroutines |-> <<>>]
    /\ answered = {} /\ robbed = {} /\ closes = {} /\ endsTold = [k \in Conns |-> 0]
    /\ panicked = FALSE

-----------------------------------------------------------------------------
(* Steps and locks *)

Does(g, op, k) == ~panicked /\ work[g] # <<>> /\ Head(work[g]) = Task(op, k)
GoOn(g, ops, k) == work' = [work EXCEPT ![g] = Tasks(ops, k) \o Tail(@)]
GoOnLater(g, op, k) ==
    work' = [work EXCEPT ![g] = Tail(@), ![Timer(op, k)] = Append(@, Task(op, k))]

(* The RWMutex of the stabilizer's map: Range holds its read lock and          *)
(* RangeWithEmpty its write lock while they call back. A writer that waits     *)
(* keeps readers out, the one that has the read lock already included.         *)
CanRead == lock # Stopper /\ (lock = Ticker => waiting = {})
CanWrite(g) == lock = Nobody /\ waiting' = waiting \ {g}

WaitForWrite(g) ==
    /\ ~panicked /\ work[g] # <<>> /\ Head(work[g])[1] \in {"connect", "delete", "stop"}
    /\ lock # Nobody /\ g \notin waiting
    /\ waiting' = waiting \union {g}
    /\ UNCHANGED <<maps, environment, traffic, lock, history, work, panicked>>

-----------------------------------------------------------------------------
(* Connections and what is read from them *)

(* A datagram of an unknown address makes a new connection.                    *)
Receive(a, kind) ==
    LET k == udpConns[a]
        new == Len(address) + 1
    IN /\ ~panicked /\ ~stopping /\ work[Reader] = <<>> /\ received < MaxDatagrams
       /\ received' = received + 1
       /\ IF k = 0
          THEN /\ new \in Conns
               /\ address' = Append(address, a)
               /\ udpConns' = [udpConns EXCEPT ![a] = new]
               /\ work' = [work EXCEPT ![Reader] =
                              Tasks(<<"connect", kind, "expire">>, new)]
               /\ UNCHANGED silent
          ELSE /\ silent' = silent \ {k}
               /\ work' = [work EXCEPT ![Reader] = Tasks(<<kind, "expire">>, k)]
               /\ UNCHANGED <<address, udpConns>>
       /\ UNCHANGED <<stab, known, keepAlive, ticked, stopping, missing, locks, history,
                      panicked>>

\* mutant: one ping less
ConnectPingingTwice(g, k) ==
    /\ Does(g, "connect", k) /\ CanWrite(g)
    /\ stab' = stab \union {k} /\ known' = known \union {k}
    /\ work' = [work EXCEPT ![g] = Tail(@), ![Pinger(k)] = Tasks(<<"ping", "ping">>, k)]
    /\ UNCHANGED <<udpConns, environment, traffic, lock, history, panicked>>

(* HandleConnect: the stabilizer's connection, and a goroutine with three      *)
(* pings. What the user is given is in its map at once, as between the pings   *)
(* there are the round trip times.                                             *)
Connect(g, k) ==
    /\ Does(g, "connect", k) /\ CanWrite(g)
    /\ stab' = stab \union {k} /\ known' = known \union {k}
    /\ work' = [work EXCEPT ![g] = Tail(@), ![Pinger(k)] = Tasks(<<"ping", "ping", "ping">>, k)]
    /\ UNCHANGED <<udpConns, environment, traffic, lock, history, panicked>>

(* A report goes out at once, or after a timer if one has just been sent.      *)
ReadData(g, k) == Does(g, "data", k) /\ CanRead /\ GoOn(g, <<>>, k) /\ UNCHANGED traffic
ReadResend(g, k) ==
    /\ Does(g, "resend", k) /\ CanRead /\ k \in stab
    /\ GoOn(g, <<"ack">>, k) \/ GoOnLater(g, "ack", k)
    /\ UNCHANGED traffic
ReadPing(g, k) ==
    /\ Does(g, "ping-frame", k) /\ CanRead /\ k \in stab
    /\ GoOn(g, <<"write">>, k)
    /\ UNCHANGED traffic

\* mutant: a disconnect clears the stabilizer's side alone
ReadDisconnectHalf(g, k) ==
    /\ Does(g, "disconnect", k) /\ CanRead /\ k \in stab
    /\ GoOn(g, <<"cleanup">>, k)
    /\ UNCHANGED traffic

ReadDisconnect(g, k) ==
    /\ Does(g, "disconnect", k) /\ CanRead /\ k \in stab
    /\ GoOn(g, <<"cleanup", "close">>, k)
    /\ UNCHANGED traffic

HandleRead(g, k) ==
    /\ ReadData(g, k) \/ ReadResend(g, k) \/ ReadPing(g, k) \/ ReadDisconnect(g, k)
    /\ UNCHANGED <<maps, environment, locks, history, panicked>>

ReadPong(g, k) ==
    /\ Does(g, "pong", k) /\ CanRead /\ k \in stab
    /\ answered' = answered \union {k}
    /\ missing' = [missing EXCEPT ![k] = 0]
    /\ GoOn(g, <<>>, k)
    /\ UNCHANGED <<maps, environment, silent, locks, robbed, closes, endsTold, panicked>>

-----------------------------------------------------------------------------
(* What is written to them *)

(* HandleWrite looks a connection up, and, for a frame that carries a report,  *)
(* once more to make the report. A ping is counted, or one too many closes the *)
(* connection.                                                                 *)
Write(g, k) ==
    /\ \E op \in {"ping", "write"} :
        /\ Does(g, op, k) /\ CanRead
        /\ GoOn(g, IF k \notin stab THEN <<>>
                   ELSE <<IF op = "ping" THEN "send-ping" ELSE "send">>, k)
    /\ UNCHANGED <<maps, environment, traffic, locks, history, panicked>>

SendReport(g, k) ==
    /\ Does(g, "send", k) \/ Does(g, "ack", k)
    /\ CanRead /\ k \in stab
    /\ GoOn(g, <<>>, k)
    /\ UNCHANGED <<maps, environment, traffic, locks, history, panicked>>

SendPing(g, k) ==
    /\ Does(g, "send-ping", k) /\ CanRead /\ k \in stab
    /\ IF missing[k] < Tries
       THEN missing' = [missing EXCEPT ![k] = @ + 1] /\ GoOn(g, <<>>, k)
       ELSE UNCHANGED missing /\ GoOn(g, <<"close">>, k)
    /\ UNCHANGED <<maps, environment, silent, locks, history, panicked>>

(* The lookups whose result is used without a look at it.                      *)
UsesNil(g, k) ==
    /\ \E op \in {"resend", "ping-frame", "pong", "disconnect", "send", "ack", "send-ping"} :
            Does(g, op, k)
    /\ CanRead /\ k \notin stab
    /\ panicked' = TRUE
    /\ UNCHANGED <<maps, environment, traffic, locks, history, work>>

-----------------------------------------------------------------------------
(* The end of a connection *)

(* ServerConn.Close deletes by address, whichever connection has it now, and   *)
(* calls readFuncLocal.                                                        *)
Close(g, k) ==
    /\ Does(g, "close", k)
    /\ udpConns' = [udpConns EXCEPT ![address[k]] = 0]
    /\ robbed' = robbed \union ({udpConns[address[k]]} \ {0, k})
    /\ closes' = closes \union {k}
    /\ silent' = silent \ {udpConns[address[k]]}
    /\ GoOn(g, <<"lookup">>, k)
    /\ UNCHANGED <<stab, known, environment, missing, locks, answered, endsTold, panicked>>

\* mutant: forgotten before it was found
GetConnForgetting(g, k) ==
    /\ Does(g, "lookup", k) /\ CanRead
    /\ known' = known \ ({k} \intersect stab)
    /\ GoOn(g, IF k \in stab THEN <<"find">> ELSE <<"cleanup", "report-nil">>, k)
    /\ UNCHANGED <<udpConns, stab, environment, traffic, locks, history, panicked>>

(* What UDPServerStable makes of that: it looks up the stabilizer's connection *)
(* and, by that, the one the user was given. Both are nil if another goroutine *)
(* was here before, and a nil connection is what the user is told of then.     *)
GetConn(g, k) ==
    /\ Does(g, "lookup", k) /\ CanRead
    /\ GoOn(g, IF k \in stab THEN <<"find">> ELSE <<"cleanup", "report-nil">>, k)
    /\ UNCHANGED <<maps, environment, traffic, locks, history, panicked>>

FindConn(g, k) ==
    /\ Does(g, "find", k)
    /\ GoOn(g, <<"forget", "cleanup", IF k \in known THEN "report" ELSE "report-nil">>, k)
    /\ UNCHANGED <<maps, environment, traffic, locks, history, panicked>>

ForgetConn(g, k) ==
    /\ Does(g, "forget", k)
    /\ known' = known \ {k}
    /\ GoOn(g, <<>>, k)
    /\ UNCHANGED <<udpConns, stab, environment, traffic, locks, history, panicked>>

Report(g, k) ==
    /\ \/ Does(g, "report", k) /\ endsTold' = [endsTold EXCEPT ![k] = @ + 1]
       \/ Does(g, "report-nil", k) /\ UNCHANGED endsTold
    /\ GoOn(g, <<>>, k)
    /\ UNCHANGED <<maps, environment, traffic, locks, answered, robbed, closes, panicked>>

CleanupConnection(g, k) ==
    /\ Does(g, "cleanup", k) /\ CanRead
    /\ GoOn(g, IF k \in stab THEN <<"delete">> ELSE <<>>, k)
    /\ UNCHANGED <<maps, environment, traffic, locks, history, panicked>>

DeleteConn(g, k) ==
    /\ Does(g, "delete", k) /\ CanWrite(g)
    /\ stab' = stab \ {k} /\ missing' = [missing EXCEPT ![k] = 0]
    /\ GoOn(g, <<>>, k)
    /\ UNCHANGED <<udpConns, known, environment, silent, lock, history, panicked>>

-----------------------------------------------------------------------------
(* Time *)

\* bounds: the ticker runs in behaviours without silence and without Stop, and
\* neither it nor Stop comes after the last datagram
WithoutTicker == ~keepAlive
NotTheLast == received < MaxDatagrams

(* No datagram for the cleanup timeout.                                        *)
Age(k) ==
    /\ WithoutTicker /\ ~panicked /\ k \in Range(udpConns) \ silent
    /\ silent' = silent \union {k}
    /\ UNCHANGED <<maps, environment, missing, locks, history, work, panicked>>

(* CleanupConnections, at the end of every read: HandleDisconnect through the  *)
(* event, then Close once more, of one connection after another.               *)
ExpireEach(expired) ==
    [i \in 1 .. 4 * Len(expired) |->
        Task(<<"write", "cleanup", "close", "close">>[1 + ((i - 1) % 4)],
             expired[1 + ((i - 1) \div 4)])]

Expire(k) ==
    /\ Does(Reader, "expire", k)
    /\ \E expired \in SetToSeqs(Range(udpConns) \intersect silent) :
            work' = [work EXCEPT ![Reader] = ExpireEach(expired) \o Tail(@)]
    /\ UNCHANGED <<maps, environment, traffic, locks, history, panicked>>

(* keepAliveSender ticks once and returns.                                     *)
Tick ==
    /\ NotTheLast /\ ~panicked /\ keepAlive /\ ~ticked /\ lock = Nobody
    /\ ticked' = TRUE
    /\ lock' = Ticker
    /\ \E order \in SetToSeqs(stab) :
            work' = [work EXCEPT ![Ticker] = [i \in DOMAIN order |-> Task("ping", order[i])]]
    /\ UNCHANGED <<maps, address, received, keepAlive, stopping, traffic, waiting, history, panicked>>

TickEnd ==
    /\ ~panicked /\ lock = Ticker /\ work[Ticker] = <<>>
    /\ lock' = Nobody
    /\ UNCHANGED <<maps, environment, traffic, waiting, history, work, panicked>>

(* Stop closes the listener. A read loop that waits for a datagram expires     *)
(* connections once more, one that deals with a datagram ends with it; then    *)
(* the stabilizer's map is emptied.                                            *)
Stop ==
    /\ NotTheLast /\ WithoutTicker /\ ~panicked /\ ~stopping /\ address # <<>>
    /\ stopping' = TRUE
    /\ work' = [work EXCEPT ![Reader] = IF @ = <<>> THEN <<Task("expire", 0)>> ELSE @,
                            ![Stopper] = <<Task("stop", 0)>>]
    /\ UNCHANGED <<maps, address, received, keepAlive, ticked, traffic, locks, history, panicked>>

StopStabilizer ==
    /\ Does(Stopper, "stop", 0) /\ CanWrite(Stopper)
    /\ lock' = Stopper
    /\ work' = [work EXCEPT ![Stopper] = <<>>]
    /\ UNCHANGED <<maps, environment, traffic, history, panicked>>

\* mutant: a connection is taken out by CleanupConnection, which locks the map
DropByCleanup(k) ==
    /\ ~panicked /\ lock = Stopper /\ k \in stab /\ work[Stopper] = <<>>
    /\ work' = [work EXCEPT ![Stopper] = <<Task("cleanup", k)>>]
    /\ UNCHANGED <<maps, environment, traffic, locks, history, panicked>>

(* RangeWithEmpty deletes one connection after another.                        *)
Drop(k) ==
    /\ ~panicked /\ lock = Stopper /\ k \in stab
    /\ stab' = stab \ {k} /\ missing' = [missing EXCEPT ![k] = 0]
    /\ UNCHANGED <<udpConns, known, environment, silent, locks, history, work, panicked>>

Stopped ==
    /\ ~panicked /\ lock = Stopper /\ stab = {}
    /\ lock' = Nobody
    /\ UNCHANGED <<maps, environment, traffic, waiting, history, work, panicked>>

-----------------------------------------------------------------------------

Step(g, k) ==
    \/ Connect(g, k) \/ HandleRead(g, k) \/ ReadPong(g, k)
    \/ Write(g, k) \/ SendReport(g, k) \/ SendPing(g, k) \/ UsesNil(g, k)
    \/ Close(g, k) \/ GetConn(g, k) \/ FindConn(g, k) \/ ForgetConn(g, k) \/ Report(g, k)
    \/ CleanupConnection(g, k) \/ DeleteConn(g, k)

Kinds == {"data", "resend", "ping-frame", "pong", "disconnect"}

(* What the goroutines go on with of their own.                                *)
Progress ==
    \/ \E g \in Goroutines, k \in Conns : Step(g, k)
    \/ \E g \in Goroutines : WaitForWrite(g)
    \/ \E k \in Conns : Drop(k)
    \/ \E k \in Conns \union {0} : Expire(k)
    \/ TickEnd \/ StopStabilizer \/ Stopped

ServerNext ==
    \/ Progress
    \/ \E a \in Addrs, kind \in Kinds : Receive(a, kind)
    \/ \E k \in Conns : Age(k)
    \/ Tick \/ Stop

-----------------------------------------------------------------------------
(* Properties *)

PendingFor(k) ==
    \E g \in Goroutines : \E i \in DOMAIN work[g] :
        work[g][i] \in {Task(op, k) : op \in {"connect", "close", "lookup", "find", "cleanup", "delete"}}

(* The map by address and the stabilizer's map name the same connections,      *)
(* unless a goroutine is about to enter or remove one, or the Close of an      *)
(* older connection of the same address has taken the entry of a newer one.    *)
(* An entry without its stabilizer half would end the process with the next    *)
(* datagram; a stabilizer connection without an entry never ends.              *)
MapsAgree ==
    (~stopping /\ ~panicked) =>
        \A k \in DOMAIN address :
            (udpConns[address[k]] = k) = (k \in stab) \/ PendingFor(k) \/ k \in robbed

AllDone == \A g \in Goroutines : work[g] = <<>>

(* A connection that was closed, by whichever goroutine and after whichever    *)
(* other close, is gone from the stabilizer's map when all is done. It is gone *)
(* from the user's as well if and only if the user was told of its end by its  *)
(* name, so that none is dropped in silence; one that others had taken out of  *)
(* the stabilizer's map first stays there for ever (UDPServerStable.go:114).   *)
ClosedIsToldOrKept ==
    AllDone /\ ~panicked =>
        /\ closes \intersect stab = {}
        /\ \A k \in DOMAIN address : k \in known <=> endsTold[k] = 0

(* "how many ping packets can be send without getting responce"                *)
(* (UDPConnectionStabilizer.go:82): a connection that is kept although it has  *)
(* answered none has had its three pings, all of them counted, and that many   *)
(* are allowed. With fewer tries, one that never answers is closed.            *)
SilentIsCounted ==
    AllDone => \A k \in stab \ answered : 3 <= missing[k] /\ missing[k] <= Tries

AtRest == address # <<>> /\ ~panicked /\ ~ENABLED Progress

(* A server whose goroutines can go on no more has nothing left to do, with    *)
(* one exception: the ticker waits for the lock of the map it ranges over, as  *)
(* another goroutine, or itself, waits to write to it.                         *)
NothingStuck == AtRest => AllDone \/ (lock = Ticker /\ waiting # {})
=============================================================================
