---- MODULE TunnelLink ----
(***************************************************************************)
(* The WebSocket between the two ends of a proxy tunnel, and the frames on *)
(* it.  A WebSocket message holds one frame and messages keep their order; *)
(* every frame is written in one piece, so frames of several goroutines    *)
(* interleave but do not mix.                                              *)
(*                                                                         *)
(* The temporary id the client draws for a connection is the connection    *)
(* itself, and the ids the server draws are 1, 2, ...: both are random     *)
(* strings in the code, taken to be distinct.                              *)
(***************************************************************************)
EXTENDS Integers, Sequences, SequencesExt

CONSTANTS Conns,         \* connections of browsers to the proxy client
          DataCount(_),  \* how many pieces of data the browser sends on one
          ReplyCount(_), \* how many the target sends back on it
          MaxIDs,        \* how many ids the server draws
          NoConn,        \* no connection (nil)
          NotPending,    \* no list of pending data (nil)
          Nothing        \* empty data: what a read function gets with a disconnect

VARIABLES up,     \* frames on their way from the client to the server
          down    \* frames on their way back

links == <<up, down>>

(* The n-th piece of data a browser sends on conn is <<conn, n>>. *)
Data(conn) == {Nothing} \cup ({conn} \X Nat)

ASSUME TunnelAssumption == /\ MaxIDs \in Nat
                           /\ NoConn \notin Conns
                           /\ \A conn \in Conns : DataCount(conn) \in Nat
                           /\ Nothing \notin (1 .. MaxIDs) \X Nat
                           /\ Nothing \notin Conns \X Nat
                           /\ \A conn \in Conns : NotPending \notin Seq(Data(conn))

IDs  == 1 .. MaxIDs
NoID == 0

Idle  == [at |-> "idle"]
Ended == [at |-> "ended"]   \* the goroutine has returned

(* PackWebtoolsFrame *)
ConnectFrame(conn, id) == [op |-> "connect", id |-> id, data |-> conn]
CloseFrame(id)         == [op |-> "close", id |-> id, data |-> Nothing]
DataFrame(id, data)    == [op |-> "data", id |-> id, data |-> data]

LinkInit == up = <<>> /\ down = <<>>
====
