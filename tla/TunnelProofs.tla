---- MODULE TunnelProofs ----
(***************************************************************************)
(* The two ends of a proxy tunnel never mix connections up, and the two    *)
(* streams of a tunnelled connection, what the browser gets of the         *)
(* target's replies and the target of the browser's data, are in order and *)
(* without a gap: proofs for every set of browser connections, every       *)
(* number of ids and any amount of data, whatever the order of the         *)
(* goroutines' steps.                                                      *)
(***************************************************************************)
EXTENDS Tunnel, FiniteSetTheorems, SequenceTheorems, TLAPS

(* What may be on the link, and what a goroutine may be in the middle of. *)
Reply(i) == {Nothing} \cup ({i} \X Nat)
AllData  == {Nothing} \cup (Conns \X Nat)
AllReply == {Nothing} \cup (IDs \X Nat)

IdentifiedFrames == [op : {"close", "data"}, id : IDs, data : AllData]

UpFrames == [op : {"connect"}, id : {NoID}, data : Conns] \cup IdentifiedFrames

DownFrames == [op : {"connect"}, id : IDs, data : Conns]
              \cup [op : {"close", "data"}, id : IDs, data : AllReply]

Flushers == [at : {"send", "cut", "delete"}, conn : Conns, id : IDs]
            \cup [at : {"set"}, conn : Conns, id : IDs, rest : Seq(AllData)]

Dispatchers == [at : {"register", "known", "answer", "unmap", "forget"}, id : IDs]
               \cup [at : {"dispatch"}, id : IDs, frame : IdentifiedFrames]

(* The types of the client's two kinds of goroutines, and of the server's readers. *)
HandlerType ==
    /\ DOMAIN handler = Conns
    /\ \A c \in Conns :
         \/ handler[c] \in {Idle, Ended}
         \/ handler[c].at = "append" /\ handler[c].data \in Data(c)
         \/ /\ handler[c].at = "store" /\ handler[c].data \in Data(c)
            /\ handler[c].list \in Seq(Data(c)) /\ handler[c].list # <<>>

FlusherType ==
    /\ flusher = Idle \/ flusher \in Flushers
    /\ flusher.at = "set" => flusher.rest \in Seq(Data(flusher.conn))
    /\ flusher.at = "cut" => pending[flusher.conn] \notin {NotPending, <<>>}

ReaderType ==
    /\ DOMAIN reader = IDs
    /\ \A i \in IDs :
         \/ reader[i] \in {Idle, Ended} \/ reader[i].at \in {"unmap", "tell"}
         \/ reader[i].at = "found" /\ reader[i].data \in Reply(i)

(* The types of the client, of the server and of the tunnel. *)
ClientTypes ==
    /\ open \subseteq Conns /\ waiting \subseteq Conns
    /\ sent \in [Conns -> Nat]
    /\ DOMAIN pending = Conns
    /\ \A c \in Conns : pending[c] \in {NotPending} \cup Seq(Data(c))
    /\ clientToID \in [Conns -> {NoID} \cup IDs]
    /\ idToClient \in [IDs -> Conns \cup {NoConn}]
    /\ got \in [Conns -> Seq(IDs \X Nat)]
    /\ HandlerType /\ FlusherType

ServerTypes ==
    /\ owner \in [IDs -> Conns \cup {NoConn}]
    /\ registered \subseteq IDs /\ known \subseteq IDs
    /\ replies \in [IDs -> Nat]
    /\ dispatcher = Idle \/ dispatcher \in Dispatchers
    /\ received \in [IDs -> Seq(Conns \X Nat)]
    /\ ReaderType

Types == /\ up \in Seq(UpFrames) /\ down \in Seq(DownFrames)
         /\ ClientTypes /\ ServerTypes

-----------------------------------------------------------------------------
(* The ids the server draws are 1, 2, ...: the next one is free. *)
InTurn == \E m \in 0 .. MaxIDs : Drawn = 1 .. m

(* The id Dial draws is one, and is free. *)
LEMMA NextID ==
    ASSUME Types, InTurn, Drawn # IDs
    PROVE  /\ Cardinality(Drawn) + 1 \in IDs
           /\ owner[Cardinality(Drawn) + 1] = NoConn
           /\ Drawn \cup {Cardinality(Drawn) + 1} = 1 .. Cardinality(Drawn) + 1
  <1>1. PICK m \in 0 .. MaxIDs : Drawn = 1 .. m
    BY DEF InTurn
  <1>2. Cardinality(1 .. m) = m
    BY FS_Interval, TunnelAssumption
  <1>3. m # MaxIDs
    BY <1>1 DEF IDs
  <1>4. m + 1 \in IDs /\ m + 1 \notin Drawn /\ Drawn \cup {m + 1} = 1 .. m + 1
    BY <1>1, <1>3, TunnelAssumption DEF IDs
  <1> QED BY <1>1, <1>2, <1>4 DEF Drawn

(* Types of what Append and Tail leave. *)
LEMMA Queue ==
    ASSUME NEW S, NEW q \in Seq(S)
    PROVE  /\ \A e \in S : /\ Append(q, e) \in Seq(S)
                           /\ DOMAIN Append(q, e) = DOMAIN q \cup {Len(q) + 1}
                           /\ Len(q) + 1 \notin DOMAIN q
                           /\ \A i \in DOMAIN q : Append(q, e)[i] = q[i]
                           /\ Append(q, e)[Len(q) + 1] = e
           /\ q # <<>> => /\ Tail(q) \in Seq(S)
                          /\ 1 \in DOMAIN q /\ Head(q) = q[1] /\ Head(q) \in S
                          /\ \A i \in DOMAIN Tail(q) : i + 1 \in DOMAIN q /\ i + 1 # 1
                                                       /\ Tail(q)[i] = q[i + 1]
           /\ DOMAIN q \subseteq Nat
  OBVIOUS

-----------------------------------------------------------------------------
(* Types *)

(* What is under way in a goroutine tells it from one that is idle or has ended. *)
LEMMA AtRest == Idle.at = "idle" /\ Ended.at = "ended"
  BY DEF Idle, Ended

(* The types hold at first. *)
LEMMA InitTypes == Init => Types
  <1> SUFFICES ASSUME Init PROVE Types
    OBVIOUS
  <1> USE DEF Init, LinkInit, ClientInit, ServerInit
  <1>1. \A S : <<>> \in Seq(S)
    OBVIOUS
  <1>2. ClientTypes
    <2>1. HandlerType /\ FlusherType
      BY DEF HandlerType, FlusherType, Idle
    <2> QED BY <1>1, <2>1 DEF ClientTypes
  <1>3. ServerTypes
    <2>1. ReaderType
      BY DEF ReaderType
    <2> QED BY <1>1, <2>1 DEF ServerTypes
  <1> QED BY <1>1, <1>2, <1>3 DEF Types

(* A read function that is called with data of its connection. *)
LEMMA HandleTypes ==
    ASSUME Types, NEW c \in Conns, handler[c] = Idle, NEW data \in Data(c), Handle(c, data)
    PROVE  /\ up' \in Seq(UpFrames) /\ waiting' \subseteq Conns /\ HandlerType'
  <1> USE DEF Types, ClientTypes
  <1>1. CASE /\ pending[c] # NotPending
             /\ handler' = [handler EXCEPT ![c] = [at |-> "append", data |-> data]]
             /\ UNCHANGED <<waiting, up>>
    BY <1>1 DEF HandlerType
  <1>2. CASE /\ waiting' = waiting \cup {c}
             /\ up' = Append(up, ConnectFrame(c, NoID))
             /\ handler' = [handler EXCEPT ![c] = [at |-> "store", data |-> data, list |-> <<data>>]]
    <2>1. ConnectFrame(c, NoID) \in UpFrames
      BY DEF ConnectFrame, UpFrames
    <2>2. <<data>> \in Seq(Data(c)) /\ <<data>> # <<>>
      OBVIOUS
    <2>3. HandlerType'
      BY <1>2, <2>2 DEF HandlerType
    <2> QED BY <1>2, <2>1, <2>3, Queue
  <1>3. CASE /\ clientToID[c] # NoID
             /\ up' = Append(up, IF data = Nothing THEN CloseFrame(clientToID[c])
                                 ELSE DataFrame(clientToID[c], data))
             /\ handler' = [handler EXCEPT ![c] = After(data)]
             /\ UNCHANGED waiting
    <2>1. data \in AllData /\ Nothing \in AllData
      BY DEF AllData, Data
    <2>2. CloseFrame(clientToID[c]) \in UpFrames /\ DataFrame(clientToID[c], data) \in UpFrames
      BY <1>3, <2>1 DEF CloseFrame, DataFrame, UpFrames, IdentifiedFrames
    <2>3. HandlerType'
      BY <1>3 DEF HandlerType, After
    <2> QED BY <1>3, <2>2, <2>3, Queue
  <1> QED BY <1>1, <1>2, <1>3 DEF Handle

(* Each step of the client keeps the types. *)
LEMMA ClientKeepsTypes ==
    ASSUME Types, ClientNext, UNCHANGED serverVars
    PROVE  Types'
  <1> USE DEF Types
  <1>s. ServerTypes'
    BY DEF ServerTypes, ReaderType, serverVars
  <1>1. ASSUME NEW c \in Conns, BrowserData(c)
        PROVE  Types'
    <2> USE <1>1 DEF BrowserData, ClientTypes
    <2>1. <<c, sent[c] + 1>> \in Data(c) /\ sent' \in [Conns -> Nat]
      BY DEF Data
    <2>2. up' \in Seq(UpFrames) /\ waiting' \subseteq Conns /\ HandlerType'
      BY <2>1, HandleTypes
    <2> QED BY <1>s, <2>1, <2>2 DEF FlusherType
  <1>2. ASSUME NEW c \in Conns, BrowserEnd(c)
        PROVE  Types'
    <2> USE <1>2 DEF BrowserEnd, ClientTypes
    <2>1. Nothing \in Data(c)
      BY DEF Data
    <2>2. up' \in Seq(UpFrames) /\ waiting' \subseteq Conns /\ HandlerType'
      BY <2>1, HandleTypes
    <2> QED BY <1>s, <2>2 DEF FlusherType
  <1>3. ASSUME NEW c \in Conns, FetchPending(c)
        PROVE  Types'
    <2> USE <1>3 DEF FetchPending, ClientTypes
    <2> DEFINE list == IF pending[c] = NotPending THEN <<>> ELSE pending[c]
               new  == [at |-> "store", data |-> handler[c].data, list |-> Append(list, handler[c].data)]
    <2>a. list \in Seq(Data(c))
      BY EmptySeq
    <2>b. handler[c].data \in Data(c)
      BY AtRest DEF HandlerType
    <2> HIDE DEF list
    <2>1. list \in Seq(Data(c)) /\ handler[c].data \in Data(c)
      BY <2>a, <2>b
    <2>2. Append(list, handler[c].data) \in Seq(Data(c)) /\ Append(list, handler[c].data) # <<>>
      BY ONLY <2>1, AppendProperties
    <2>3. handler' = [handler EXCEPT ![c] = new]
      BY DEF list
    <2>4. HandlerType'
      BY <2>1, <2>2, <2>3 DEF HandlerType
    <2> QED BY <1>s, <2>4 DEF FlusherType, links
  <1>4. ASSUME NEW c \in Conns, StorePending(c)
        PROVE  Types'
    <2> USE <1>4 DEF StorePending, ClientTypes
    <2>1. handler[c].list \in Seq(Data(c)) \ {<<>>}
      BY AtRest DEF HandlerType
    <2>2. HandlerType'
      BY DEF HandlerType, After
    <2>3. FlusherType'
      BY <2>1, TunnelAssumption DEF FlusherType, Flushers, Idle
    <2> QED BY <1>s, <2>1, <2>2, <2>3 DEF links
  <1>5. ASSUME FromServer
        PROVE  Types'
    <2> USE <1>5 DEF FromServer, ClientTypes
    <2> DEFINE frame == Head(down)
    <2>1. frame \in DownFrames /\ down' \in Seq(DownFrames)
      BY Queue
    <2>2. HandlerType'
      BY DEF HandlerType
    <2>3. CASE Confirmed(frame)
      <3>1. frame.data \in Conns /\ frame.id \in IDs
        BY <2>1, <2>3 DEF Confirmed, DownFrames
      <3>2. FlusherType'
        BY <2>3, <3>1 DEF Confirmed, FlusherType, Flushers
      <3> QED BY <1>s, <2>1, <2>2, <2>3, <3>1, <3>2 DEF Confirmed
    <2>4. CASE Closed(frame)
      BY <1>s, <2>1, <2>2, <2>4 DEF Closed, FlusherType
    <2>5. CASE Replied(frame)
      <3>1. frame.id \in IDs /\ frame.data \in IDs \X Nat /\ idToClient[frame.id] \in Conns
        BY <2>1, <2>5 DEF Replied, DownFrames, AllReply
      <3>2. got' \in [Conns -> Seq(IDs \X Nat)]
        BY <2>5, <3>1, AppendProperties DEF Replied
      <3> QED BY <1>s, <2>1, <2>2, <2>5, <3>2 DEF Replied, FlusherType
    <2>6. CASE Ignored(frame)
      BY <1>s, <2>1, <2>2, <2>6 DEF Ignored, FlusherType
    <2> QED BY <2>3, <2>4, <2>5, <2>6
  <1>6. ASSUME FlushSend
        PROVE  Types'
    <2> USE <1>6 DEF FlushSend, ClientTypes
    <2>1. flusher \in Flushers /\ flusher.conn \in Conns /\ flusher.id \in IDs
      BY DEF FlusherType, Flushers, Idle
    <2>2. Head(pending[flusher.conn]) \in Data(flusher.conn)
      BY <2>1, HeadTailProperties
    <2>3. DataFrame(flusher.id, Head(pending[flusher.conn])) \in UpFrames
      BY <2>1, <2>2 DEF DataFrame, UpFrames, IdentifiedFrames, Data, AllData
    <2>4. HandlerType' /\ FlusherType'
      BY <2>1 DEF HandlerType, FlusherType, Flushers
    <2> QED BY <1>s, <2>3, <2>4, Queue
  <1>7. ASSUME FlushCut
        PROVE  Types'
    <2> USE <1>7 DEF FlushCut, ClientTypes
    <2>1. flusher.conn \in Conns /\ flusher.id \in IDs
      BY DEF FlusherType, Flushers, Idle
    <2>2. Tail(pending[flusher.conn]) \in Seq(Data(flusher.conn))
      BY <2>1, HeadTailProperties DEF FlusherType
    <2>3. Tail(pending[flusher.conn]) \in Seq(AllData)
      BY <2>1, <2>2, SeqMonotonic DEF Data, AllData
    <2>4. HandlerType' /\ FlusherType'
      BY <2>1, <2>2, <2>3 DEF HandlerType, FlusherType, Flushers
    <2> QED BY <1>s, <2>4 DEF links
  <1>8. ASSUME FlushSet
        PROVE  Types'
    <2> USE <1>8 DEF FlushSet, ClientTypes
    <2>1. flusher.conn \in Conns /\ flusher.id \in IDs /\ flusher.rest \in Seq(Data(flusher.conn))
      BY DEF FlusherType, Flushers, Idle
    <2>2. HandlerType' /\ FlusherType'
      BY <2>1 DEF HandlerType, FlusherType, Flushers
    <2> QED BY <1>s, <2>1, <2>2 DEF links
  <1>9. ASSUME FlushEnd
        PROVE  Types'
    <2> USE <1>9 DEF FlushEnd, ClientTypes
    <2>1. flusher \in [at : {"send", "cut", "delete"}, conn : Conns, id : IDs]
      BY AtRest DEF FlusherType, Flushers
    <2>2. flusher' \in Flushers /\ flusher'.at = "delete"
      BY <2>1 DEF Flushers
    <2>3. HandlerType' /\ FlusherType'
      BY <2>2 DEF HandlerType, FlusherType
    <2> QED BY <1>s, <2>3 DEF links
  <1>10. ASSUME FlushDelete
         PROVE  Types'
    <2> USE <1>10 DEF FlushDelete, ClientTypes
    <2>1. HandlerType' /\ FlusherType'
      BY DEF HandlerType, FlusherType, Idle
    <2> QED BY <1>s, <2>1 DEF links
  <1> QED BY <1>1, <1>2, <1>3, <1>4, <1>5, <1>6, <1>7, <1>8, <1>9, <1>10 DEF ClientNext, ClientReader

(* What the server is in the middle of, with the id it is about. *)
LEMMA DispatcherAt ==
    ASSUME Types
    PROVE  /\ dispatcher.at \in {"register", "known", "answer", "unmap", "forget"} =>
                  dispatcher \in [at : {"register", "known", "answer", "unmap", "forget"}, id : IDs]
           /\ dispatcher.at = "dispatch" =>
                  dispatcher.id \in IDs /\ dispatcher.frame \in IdentifiedFrames
  <1>1. dispatcher = Idle \/ dispatcher \in Dispatchers
    BY DEF Types, ServerTypes
  <1> QED BY <1>1, AtRest DEF Dispatchers

(* A step of the dispatcher that goes on with the same id. *)
LEMMA DispatcherMoves ==
    ASSUME Types, NEW at \in {"known", "answer", "forget"},
           dispatcher.at \in {"register", "known", "answer", "unmap", "forget"}
    PROVE  /\ [dispatcher EXCEPT !.at = at] \in Dispatchers
           /\ [dispatcher EXCEPT !.at = at].at = at
           /\ [dispatcher EXCEPT !.at = at].id = dispatcher.id
           /\ dispatcher.id \in IDs
  BY DispatcherAt DEF Dispatchers

(* A frame that is taken off a link, or put on it. *)
LEMMA ServerFrames ==
    ASSUME Types
    PROVE  /\ \A c \in Conns, i \in IDs : ConnectFrame(c, i) \in DownFrames
           /\ \A i \in IDs : CloseFrame(i) \in DownFrames
           /\ \A i \in IDs : \A data \in Reply(i) : DataFrame(i, data) \in DownFrames
  BY DEF ConnectFrame, CloseFrame, DataFrame, DownFrames, AllReply, Reply

(* What a target's reader is left with by the first look at the maps. *)
LEMMA CheckTypes ==
    ASSUME Types, NEW id \in IDs, NEW data \in Reply(id), Check(id, data)
    PROVE  ReaderType'
  BY DEF Types, ServerTypes, Check, ReaderType

(* Each step of the server keeps the types. *)
LEMMA ServerKeepsTypes ==
    ASSUME Types, InTurn, \A i \in Drawn : owner[i] \in Conns,
           dispatcher.at = "answer" => dispatcher.id \in Drawn,
           ServerNext, UNCHANGED clientVars
    PROVE  Types'
  <1> USE DEF Types
  <1>c. ClientTypes'
    BY DEF ClientTypes, HandlerType, FlusherType, clientVars
  <1>1. ASSUME FromClient
        PROVE  Types'
    <2> USE <1>1 DEF FromClient
    <2> DEFINE frame == Head(up)
    <2>1. frame \in UpFrames /\ up' \in Seq(UpFrames)
      BY Queue
    <2>2. CASE frame.op = "connect" /\ Dial(frame.data)
      <3> DEFINE id == Cardinality(Drawn) + 1
      <3>a. Drawn # IDs
        BY ONLY <2>2 DEF Dial
      <3>b. frame.data \in Conns
        BY ONLY <2>1, <2>2 DEF UpFrames, IdentifiedFrames
      <3>1. id \in IDs /\ frame.data \in Conns
        BY <3>a, <3>b, NextID
      <3>2. dispatcher' = [at |-> "register", id |-> id] /\ owner' = [owner EXCEPT ![id] = frame.data]
        BY <2>2 DEF Dial
      <3>3. dispatcher' \in Dispatchers
        BY <3>1, <3>2 DEF Dispatchers
      <3>4. reader' = reader \/ reader' = [reader EXCEPT ![id] = Idle]
        BY <2>2 DEF Dial
      <3>5. ReaderType'
        BY <3>1, <3>4 DEF ServerTypes, ReaderType
      <3> QED BY <1>c, <2>1, <3>1, <3>2, <3>3, <3>5 DEF ServerTypes
    <2>3. CASE /\ frame.id \in registered
               /\ dispatcher' = [at |-> "dispatch", id |-> frame.id, frame |-> frame]
               /\ UNCHANGED <<owner, target, alive, reader>>
      <3>r. registered \subseteq IDs
        BY DEF ServerTypes
      <3>n. NoID \notin IDs
        BY ONLY TunnelAssumption DEF IDs, NoID
      <3>a. frame.id \in IDs /\ NoID \notin IDs
        BY ONLY <2>3, <3>r, <3>n
      <3>b. frame \notin [op : {"connect"}, id : {NoID}, data : Conns]
        BY ONLY <3>a
      <3>1. frame \in IdentifiedFrames /\ frame.id \in IDs
        BY ONLY <2>1, <3>a, <3>b DEF UpFrames
      <3>2. dispatcher' \in Dispatchers
        BY <2>3, <3>1 DEF Dispatchers
      <3> QED BY <1>c, <2>1, <2>3, <3>2 DEF ServerTypes, ReaderType
    <2>4. CASE UNCHANGED <<owner, target, alive, reader, dispatcher>>
      BY <1>c, <2>1, <2>4 DEF ServerTypes, ReaderType
    <2> QED BY <2>2, <2>3, <2>4
  <1>2. ASSUME RegisterID
        PROVE  Types'
    <2>1. dispatcher' \in Dispatchers /\ dispatcher.id \in IDs
      BY <1>2, DispatcherMoves DEF RegisterID
    <2> QED BY <1>c, <1>2, <2>1 DEF RegisterID, ServerTypes, ReaderType, links
  <1>3. ASSUME RegisterClient
        PROVE  Types'
    <2>1. dispatcher' \in Dispatchers /\ dispatcher.id \in IDs
      BY <1>3, DispatcherMoves DEF RegisterClient
    <2> QED BY <1>c, <1>3, <2>1 DEF RegisterClient, ServerTypes, ReaderType, links
  <1>4. ASSUME Answer
        PROVE  Types'
    <2>1. dispatcher.id \in IDs /\ owner[dispatcher.id] \in Conns
      BY <1>4, DispatcherAt DEF Answer
    <2>2. down' \in Seq(DownFrames)
      <3>1. down' = down \/ down' = Append(down, ConnectFrame(owner[dispatcher.id], dispatcher.id))
        BY <1>4 DEF Answer
      <3>2. ConnectFrame(owner[dispatcher.id], dispatcher.id) \in DownFrames
        BY <2>1, ServerFrames
      <3>3. down \in Seq(DownFrames)
        BY DEF Types
      <3> QED BY <3>1, <3>2, <3>3, Queue
    <2> QED BY <1>c, <1>4, <2>2 DEF Answer, ServerTypes, ReaderType
  <1>5. ASSUME Dispatch
        PROVE  Types'
    <2> USE <1>5 DEF Dispatch
    <2>1. dispatcher.id \in IDs /\ dispatcher.frame \in IdentifiedFrames
      BY DispatcherAt
    <2>2. dispatcher' = Idle \/ dispatcher' \in Dispatchers
      BY <2>1 DEF Dispatchers
    <2>3. received' \in [IDs -> Seq(Conns \X Nat)]
      <3>1. dispatcher.frame.data # Nothing => dispatcher.frame.data \in Conns \X Nat
        BY <2>1 DEF IdentifiedFrames, AllData
      <3>2. CASE received' = received
        BY <3>2 DEF ServerTypes
      <3>3. CASE /\ dispatcher.frame.data # Nothing
                 /\ received' = [received EXCEPT ![dispatcher.id] = Append(@, dispatcher.frame.data)]
        BY <2>1, <3>1, <3>3, AppendProperties DEF ServerTypes
      <3> QED BY <3>2, <3>3
    <2> QED BY <1>c, <2>2, <2>3 DEF ServerTypes, ReaderType, links
  <1>6. ASSUME Unmap
        PROVE  Types'
    <2>1. dispatcher' \in Dispatchers /\ dispatcher.id \in IDs
      BY <1>6, DispatcherMoves DEF Unmap
    <2> QED BY <1>c, <1>6, <2>1 DEF Unmap, ServerTypes, ReaderType, links
  <1>7. ASSUME Forget
        PROVE  Types'
    BY <1>c, <1>7 DEF Forget, ServerTypes, ReaderType, links
  <1>8. ASSUME NEW id \in IDs, TargetData(id)
        PROVE  Types'
    <2>1. <<id, replies[id] + 1>> \in Reply(id) /\ replies' \in [IDs -> Nat]
      BY <1>8 DEF TargetData, ServerTypes, Reply
    <2>2. ReaderType'
      BY <1>8, <2>1, CheckTypes DEF TargetData
    <2> QED BY <1>c, <1>8, <2>1, <2>2 DEF TargetData, ServerTypes, links
  <1>9. ASSUME NEW id \in IDs, TargetEnd(id)
        PROVE  Types'
    <2>1. Nothing \in Reply(id)
      BY DEF Reply
    <2>2. ReaderType'
      BY <1>9, <2>1, CheckTypes DEF TargetEnd
    <2> QED BY <1>c, <1>9, <2>2 DEF TargetEnd, ServerTypes, links
  <1>10. ASSUME NEW id \in IDs, Forward(id)
         PROVE  Types'
    <2>1. reader[id].data \in Reply(id)
      BY <1>10, AtRest DEF Forward, ServerTypes, ReaderType
    <2>2. down' \in Seq(DownFrames)
      BY <1>10, <2>1, ServerFrames, Queue DEF Forward
    <2>3. ReaderType'
      BY <1>10 DEF Forward, ServerTypes, ReaderType
    <2> QED BY <1>c, <1>10, <2>2, <2>3 DEF Forward, ServerTypes
  <1>11. ASSUME NEW id \in IDs, EndUnmap(id)
         PROVE  Types'
    <2>1. ReaderType'
      BY <1>11 DEF EndUnmap, ServerTypes, ReaderType
    <2> QED BY <1>c, <1>11, <2>1 DEF EndUnmap, ServerTypes, links
  <1>12. ASSUME NEW id \in IDs, EndTell(id)
         PROVE  Types'
    <2>1. ReaderType'
      BY <1>12 DEF EndTell, ServerTypes, ReaderType
    <2>2. <<CloseFrame(id), DataFrame(id, Nothing)>> \in Seq(DownFrames)
      BY ServerFrames DEF Reply
    <2>3. down' \in Seq(DownFrames)
      BY <1>12, <2>2, ConcatProperties DEF EndTell
    <2> QED BY <1>c, <1>12, <2>1, <2>3 DEF EndTell, ServerTypes
  <1> QED BY <1>1, <1>2, <1>3, <1>4, <1>5, <1>6, <1>7, <1>8, <1>9, <1>10, <1>11, <1>12
          DEF ServerNext, ServerReader, TargetReader

-----------------------------------------------------------------------------
(* A connection is asked for once *)

(* A frame that asks for c. *)
Asks(f, c) == f.op = "connect" /\ f.data = c

(* The server has been asked for c, or is about to be. *)
Asked(c) == pending[c] # NotPending \/ clientToID[c] # NoID \/ handler[c].at = "store"

(* One frame asks for a connection, or one id was drawn for it, never both. *)
AskedOnce ==
    \A c \in Conns :
        /\ \A k \in DOMAIN up :
               Asks(up[k], c) => /\ Asked(c)
                                 /\ \A i \in IDs : owner[i] # c
                                 /\ \A l \in DOMAIN up : Asks(up[l], c) => l = k
        /\ \A i \in IDs : owner[i] = c => /\ Asked(c)
                                          /\ \A j \in IDs : owner[j] = c => i = j

(* There is one frame that asks for a connection. *)
LEMMA OneRequest ==
    ASSUME AskedOnce, NEW c \in Conns, NEW k \in DOMAIN up, NEW l \in DOMAIN up,
           Asks(up[k], c), Asks(up[l], c)
    PROVE  k = l
  BY DEF AskedOnce

(* What the flush loop is about. *)
FlushedIsKnown == flusher # Idle => clientToID[flusher.conn] = flusher.id

(* No step but the first disjunct of a read function asks again. *)
LEMMA AskedKept ==
    ASSUME Types, AskedOnce, owner' = owner,
           \A c \in Conns : Asked(c) => Asked(c)',
           \/ up' = up
           \/ \E f \in UpFrames : f.op # "connect" /\ up' = Append(up, f)
    PROVE  AskedOnce'
  <1>1. up \in Seq(UpFrames)
    BY DEF Types
  <1>2. CASE up' = up
    BY <1>2 DEF AskedOnce, Asks
  <1>3. ASSUME NEW f \in UpFrames, f.op # "connect", up' = Append(up, f)
        PROVE  AskedOnce'
    <2>1. \A c \in Conns : \A k \in DOMAIN up' : Asks(up'[k], c) => k \in DOMAIN up /\ Asks(up[k], c)
      BY <1>1, <1>3, Queue DEF Asks
    <2> QED BY <2>1 DEF AskedOnce
  <1> QED BY <1>2, <1>3

(* A read function asks if it may. *)
LEMMA HandleAsks ==
    ASSUME Types, AskedOnce, NEW c \in Conns, handler[c] = Idle, NEW data \in Data(c),
           Handle(c, data), UNCHANGED <<owner, pending, clientToID>>
    PROVE  AskedOnce'
  <1>0. up \in Seq(UpFrames) /\ DOMAIN handler = Conns /\ clientToID \in [Conns -> {NoID} \cup IDs]
    BY DEF Types, ClientTypes, HandlerType
  <1>1. CASE /\ pending[c] # NotPending
             /\ handler' = [handler EXCEPT ![c] = [at |-> "append", data |-> data]]
             /\ up' = up
    <2>1. \A d \in Conns : Asked(d) => Asked(d)'
      BY <1>0, <1>1 DEF Asked
    <2> QED BY <1>1, <2>1, AskedKept
  <1>2. CASE /\ pending[c] = NotPending /\ clientToID[c] = NoID
             /\ up' = Append(up, ConnectFrame(c, NoID))
             /\ handler' = [handler EXCEPT ![c] = [at |-> "store", data |-> data, list |-> <<data>>]]
    <2>1. ConnectFrame(c, NoID) \in UpFrames /\ ConnectFrame(c, NoID).op = "connect"
          /\ ConnectFrame(c, NoID).data = c
      BY DEF ConnectFrame, UpFrames
    <2>2. ~Asked(c)
      BY <1>2, AtRest DEF Asked
    <2>3. \A d \in Conns : Asked(d) => Asked(d)'
      BY <1>0, <1>2 DEF Asked
    <2>4. Asked(c)'
      BY <1>0, <1>2 DEF Asked
    <2>5. \A d \in Conns : \A k \in DOMAIN up' :
              Asks(up'[k], d) =>
                  (k \in DOMAIN up /\ Asks(up[k], d)) \/ (k = Len(up) + 1 /\ d = c)
      <3>1. /\ DOMAIN up' = DOMAIN up \cup {Len(up) + 1}
            /\ \A k \in DOMAIN up : up'[k] = up[k]
            /\ up'[Len(up) + 1] = ConnectFrame(c, NoID)
        BY <1>0, <1>2, <2>1, Queue
      <3> QED BY ONLY <2>1, <3>1 DEF Asks
    <2> QED BY <2>2, <2>3, <2>4, <2>5 DEF AskedOnce
  <1>3. CASE /\ clientToID[c] # NoID
             /\ up' = Append(up, IF data = Nothing THEN CloseFrame(clientToID[c])
                                 ELSE DataFrame(clientToID[c], data))
             /\ handler' = [handler EXCEPT ![c] = After(data)]
    <2>1. data \in AllData /\ Nothing \in AllData
      BY DEF AllData, Data
    <2>2. CloseFrame(clientToID[c]) \in UpFrames /\ DataFrame(clientToID[c], data) \in UpFrames
      BY <1>0, <1>3, <2>1 DEF CloseFrame, DataFrame, UpFrames, IdentifiedFrames
    <2>3. CloseFrame(clientToID[c]).op # "connect" /\ DataFrame(clientToID[c], data).op # "connect"
      BY DEF CloseFrame, DataFrame
    <2>4. \A d \in Conns : Asked(d) => Asked(d)'
      BY <1>0, <1>3 DEF Asked
    <2> QED BY <1>3, <2>2, <2>3, <2>4, AskedKept
  <1> QED BY <1>1, <1>2, <1>3 DEF Handle

(* Each step of the client. *)
LEMMA ClientAsksOnce ==
    ASSUME Types, AskedOnce, FlushedIsKnown, ClientNext, UNCHANGED serverVars
    PROVE  AskedOnce' /\ FlushedIsKnown'
  <1>0. /\ clientToID \in [Conns -> {NoID} \cup IDs] /\ NoID \notin IDs
        /\ DOMAIN handler = Conns /\ DOMAIN pending = Conns /\ owner' = owner
        /\ flusher = Idle \/ (flusher.conn \in Conns /\ flusher.id \in IDs)
    <2>1. NoID \notin IDs
      BY ONLY TunnelAssumption DEF IDs, NoID
    <2>2. flusher = Idle \/ (flusher.conn \in Conns /\ flusher.id \in IDs)
      <3>1. flusher = Idle \/ flusher \in Flushers
        BY DEF Types, ClientTypes, FlusherType
      <3> QED BY ONLY <3>1 DEF Flushers
    <2> QED BY <2>1, <2>2 DEF Types, ClientTypes, HandlerType, serverVars
  <1>1. ASSUME NEW c \in Conns, BrowserData(c) \/ BrowserEnd(c)
        PROVE  AskedOnce' /\ FlushedIsKnown'
    <2>1. <<c, sent[c] + 1>> \in Data(c) /\ Nothing \in Data(c)
      BY DEF Types, ClientTypes, Data
    <2>2. AskedOnce'
      BY <1>0, <1>1, <2>1, HandleAsks DEF BrowserData, BrowserEnd
    <2> QED BY <1>1, <2>2 DEF BrowserData, BrowserEnd, FlushedIsKnown
  <1>2. ASSUME NEW c \in Conns, FetchPending(c)
        PROVE  AskedOnce' /\ FlushedIsKnown'
    <2>1. \A d \in Conns : Asked(d) => Asked(d)'
      BY <1>0, <1>2 DEF FetchPending, Asked
    <2> QED BY <1>0, <1>2, <2>1, AskedKept DEF FetchPending, FlushedIsKnown, links
  <1>3. ASSUME NEW c \in Conns, StorePending(c)
        PROVE  AskedOnce' /\ FlushedIsKnown'
    <2>1. handler[c].list \in Seq(Data(c))
      BY <1>3, AtRest DEF StorePending, Types, ClientTypes, HandlerType
    <2>2. pending'[c] # NotPending
      BY <1>0, <1>3, <2>1, TunnelAssumption DEF StorePending
    <2>3. \A d \in Conns : Asked(d) => Asked(d)'
      BY <1>0, <1>3, <2>2 DEF StorePending, Asked
    <2> QED BY <1>0, <1>3, <2>3, AskedKept DEF StorePending, FlushedIsKnown, links
  <1>4. ASSUME FromServer
        PROVE  AskedOnce' /\ FlushedIsKnown'
    <2> DEFINE frame == Head(down)
    <2>1. frame \in DownFrames
      BY <1>4, Queue DEF FromServer, Types
    <2>2. CASE Confirmed(frame)
      <3>1. frame.data \in Conns /\ frame.id \in IDs
        BY <2>1, <2>2 DEF Confirmed, DownFrames, Types, ClientTypes
      <3>2. \A d \in Conns : Asked(d) => Asked(d)'
        BY <1>0, <1>4, <2>2, <3>1 DEF FromServer, Confirmed, Asked
      <3>3. FlushedIsKnown'
        BY <1>0, <2>2, <3>1 DEF Confirmed, FlushedIsKnown
      <3> QED BY <1>0, <1>4, <3>2, <3>3, AskedKept DEF FromServer
    <2>3. CASE Closed(frame) \/ Replied(frame) \/ Ignored(frame)
      <3>1. UNCHANGED <<clientToID, flusher>>
        BY <2>3 DEF Closed, Replied, Ignored
      <3>2. \A d \in Conns : Asked(d) => Asked(d)'
        BY <1>4, <3>1 DEF FromServer, Asked
      <3> QED BY <1>0, <1>4, <3>1, <3>2, AskedKept DEF FromServer, FlushedIsKnown
    <2> QED BY <1>4, <2>2, <2>3 DEF FromServer
  <1>5. ASSUME FlushSend
        PROVE  AskedOnce' /\ FlushedIsKnown'
    <2>1. flusher \in Flushers /\ flusher.conn \in Conns /\ flusher.id \in IDs /\ flusher # Idle
      BY <1>5, AtRest DEF FlushSend, Types, ClientTypes, FlusherType, Flushers
    <2> DEFINE f == DataFrame(flusher.id, Head(pending[flusher.conn]))
    <2>2. Head(pending[flusher.conn]) \in Data(flusher.conn)
      BY <1>5, <2>1, HeadTailProperties DEF FlushSend, Types, ClientTypes
    <2>3. f \in UpFrames /\ f.op # "connect"
      BY <2>1, <2>2 DEF DataFrame, UpFrames, IdentifiedFrames, Data, AllData
    <2>4. \A d \in Conns : Asked(d) => Asked(d)'
      BY <1>5 DEF FlushSend, Asked
    <2>5. AskedOnce'
      BY <1>0, <1>5, <2>3, <2>4, AskedKept DEF FlushSend
    <2>6. flusher'.conn = flusher.conn /\ flusher'.id = flusher.id
      BY <1>5, <2>1 DEF FlushSend, Flushers
    <2> QED BY <1>5, <2>1, <2>5, <2>6 DEF FlushSend, FlushedIsKnown
  <1>6. ASSUME FlushCut \/ FlushSet \/ FlushEnd \/ FlushDelete
        PROVE  AskedOnce' /\ FlushedIsKnown'
    <2>1. flusher # Idle /\ flusher.conn \in Conns /\ clientToID[flusher.conn] # NoID
      BY <1>0, <1>6, AtRest DEF FlushCut, FlushSet, FlushEnd, FlushDelete, FlushedIsKnown
    <2>2. UNCHANGED <<clientToID, handler, up>>
      BY <1>6 DEF FlushCut, FlushSet, FlushEnd, FlushDelete, links
    <2>3. \A d \in Conns : d # flusher.conn => pending'[d] = pending[d]
      BY <1>0, <1>6 DEF FlushCut, FlushSet, FlushEnd, FlushDelete
    <2>4. \A d \in Conns : Asked(d) => Asked(d)'
      BY <2>1, <2>2, <2>3 DEF Asked
    <2>5. AskedOnce'
      BY <1>0, <2>2, <2>4, AskedKept
    <2>6. \/ flusher' = Idle
          \/ flusher'.conn = flusher.conn /\ flusher'.id = flusher.id
      <3>1. CASE FlushEnd
        <4>1. flusher \in [at : {"send", "cut", "delete"}, conn : Conns, id : IDs]
          BY <2>1, <3>1 DEF FlushEnd, Types, ClientTypes, FlusherType, Flushers
        <4> QED BY <3>1, <4>1 DEF FlushEnd
      <3> QED BY <1>6, <3>1 DEF FlushCut, FlushSet, FlushDelete
    <2> QED BY <2>1, <2>2, <2>5, <2>6 DEF FlushedIsKnown
  <1> QED BY <1>1, <1>2, <1>3, <1>4, <1>5, <1>6 DEF ClientNext, ClientReader

(* Each step of the server: a request that is taken off the link is answered for once. *)
LEMMA ServerAsksOnce ==
    ASSUME Types, InTurn, AskedOnce, FlushedIsKnown, ServerNext, UNCHANGED clientVars
    PROVE  AskedOnce' /\ FlushedIsKnown' /\ InTurn'
  <1>0. FlushedIsKnown' /\ \A c \in Conns : Asked(c) => Asked(c)'
    BY DEF FlushedIsKnown, Asked, clientVars
  <1>1. ASSUME FromClient
        PROVE  AskedOnce' /\ InTurn'
    <2> DEFINE frame == Head(up)
    <2>1. frame \in UpFrames /\ up' = Tail(up) /\ up \in Seq(UpFrames)
          /\ 1 \in DOMAIN up /\ frame = up[1]
      BY <1>1, Queue DEF FromClient, Types
    <2>2. \A c \in Conns : \A k \in DOMAIN up' :
              Asks(up'[k], c) => k + 1 \in DOMAIN up /\ Asks(up[k + 1], c) /\ k + 1 # 1 /\ k \in Nat
      BY <1>1, <2>1, Queue DEF FromClient, Asks
    <2>3. CASE frame.op = "connect" /\ Dial(frame.data)
      <3> DEFINE id == Cardinality(Drawn) + 1
                 conn == frame.data
      <3>a. Drawn # IDs /\ owner' = [owner EXCEPT ![id] = conn]
        BY ONLY <2>3 DEF Dial
      <3>b. conn \in Conns
        BY ONLY <2>1, <2>3 DEF UpFrames, IdentifiedFrames
      <3>c. /\ id \in IDs /\ owner[id] = NoConn /\ Drawn \cup {id} = 1 .. id
            /\ owner \in [IDs -> Conns \cup {NoConn}] /\ NoConn \notin Conns
        BY <3>a, NextID, TunnelAssumption DEF Types, ServerTypes
      <3>d. Asks(up[1], conn)
        BY ONLY <2>1, <2>3 DEF Asks
      <3> HIDE DEF id, conn, frame
      <3>1. InTurn'
        <4>1. Drawn' = Drawn \cup {id}
          BY <3>a, <3>b, <3>c DEF Drawn
        <4>2. id \in 0 .. MaxIDs
          BY <3>c DEF IDs
        <4> QED BY <3>c, <4>1, <4>2 DEF InTurn
      <3>2. \A i \in IDs : owner[i] # conn
        BY <2>1, <3>b, <3>d DEF AskedOnce
      <3>3. \A c \in Conns : \A i \in IDs : owner'[i] = c => owner[i] = c \/ (i = id /\ c = conn)
        BY <3>a, <3>b, <3>c
      <3>4. Asked(conn)
        BY <2>1, <3>b, <3>d DEF AskedOnce
      <3>5. \A k \in DOMAIN up' : ~Asks(up'[k], conn)
        BY <2>1, <2>2, <3>b, <3>d, OneRequest
      <3>6. ASSUME NEW c \in Conns, NEW k \in DOMAIN up', Asks(up'[k], c)
            PROVE  /\ Asked(c)'
                   /\ \A i \in IDs : owner'[i] # c
                   /\ \A l \in DOMAIN up' : Asks(up'[l], c) => l = k
        <4>1. c # conn
          BY <3>5, <3>6
        <4>2. \A l \in DOMAIN up' : Asks(up'[l], c) => l + 1 = k + 1 /\ l \in Nat /\ k \in Nat
          BY <2>2, <3>6, OneRequest
        <4>3. Asked(c) /\ \A i \in IDs : owner[i] # c
          BY <2>2, <3>6 DEF AskedOnce
        <4> QED BY <1>0, <3>3, <4>1, <4>2, <4>3
      <3>7. ASSUME NEW c \in Conns, NEW i \in IDs, owner'[i] = c
            PROVE  Asked(c)' /\ \A j \in IDs : owner'[j] = c => i = j
        BY <1>0, <3>2, <3>3, <3>4, <3>7 DEF AskedOnce
      <3> QED BY <3>1, <3>6, <3>7 DEF AskedOnce
    <2>4. CASE owner' = owner
      <3>1. \A c \in Conns : \A k, l \in DOMAIN up' : Asks(up'[k], c) /\ Asks(up'[l], c) => k = l
        <4>1. \A c \in Conns : \A k, l \in DOMAIN up' :
                  Asks(up'[k], c) /\ Asks(up'[l], c) => k + 1 = l + 1 /\ k \in Nat /\ l \in Nat
          BY <2>2, OneRequest
        <4> QED BY <4>1
      <3>2. \A c \in Conns : \A k \in DOMAIN up' :
                Asks(up'[k], c) => Asked(c) /\ \A i \in IDs : owner[i] # c
        BY <2>2 DEF AskedOnce
      <3>3. AskedOnce'
        BY <1>0, <2>4, <3>1, <3>2 DEF AskedOnce
      <3>4. Drawn' = Drawn
        BY <2>4 DEF Drawn
      <3> QED BY <3>3, <3>4 DEF InTurn
    <2> QED BY <1>1, <2>3, <2>4 DEF FromClient
  <1>2. CASE UNCHANGED <<up, owner>>
    <2>1. AskedOnce'
      BY <1>0, <1>2, AskedKept
    <2>2. Drawn' = Drawn
      BY <1>2 DEF Drawn
    <2> QED BY <1>0, <2>1, <2>2 DEF InTurn
  <1>3. FromClient \/ UNCHANGED <<up, owner>>
    BY DEF ServerNext, ServerReader, TargetReader, RegisterID, RegisterClient, Answer, Dispatch, Unmap,
           Forget, TargetData, TargetEnd, Forward, EndUnmap, EndTell, links
  <1> QED BY <1>0, <1>1, <1>2, <1>3

-----------------------------------------------------------------------------
(* What is on its way, and what the maps hold, belongs to one connection *)

(* A browser's data for the id i is of the connection i was drawn for. *)
Owned(i, data) == data = Nothing \/ owner[i] = data[1]

(* The frames, the maps of the client and what the dispatcher holds. *)
UpOwned ==
    \A k \in DOMAIN up : up[k].op # "connect" => Owned(up[k].id, up[k].data)

DownOwned ==
    \A k \in DOMAIN down :
        IF down[k].op = "connect" THEN owner[down[k].id] = down[k].data
        ELSE down[k].data \in Reply(down[k].id)

MapsOwned ==
    /\ \A c \in Conns : clientToID[c] # NoID => owner[clientToID[c]] = c
    /\ \A i \in IDs : idToClient[i] # NoConn => owner[i] = idToClient[i]

DispatcherOwned ==
    /\ dispatcher.at = "dispatch" => Owned(dispatcher.id, dispatcher.frame.data)
    /\ dispatcher.at \in {"register", "known", "answer"} => owner[dispatcher.id] \in Conns

(* Everything belongs to one connection. *)
Ownership == UpOwned /\ DownOwned /\ MapsOwned /\ DispatcherOwned /\ NothingCrosses

(* A frame is put on the link with its owner's data. *)
LEMMA UpAppended ==
    ASSUME up \in Seq(UpFrames), UpOwned, NEW f \in UpFrames, up' = Append(up, f), owner' = owner,
           f.op # "connect" => Owned(f.id, f.data)
    PROVE  UpOwned'
  BY Queue DEF UpOwned, Owned

(* ... and with what the server may send on it. *)
LEMMA DownAppended ==
    ASSUME down \in Seq(DownFrames), DownOwned, NEW f \in DownFrames, down' = Append(down, f),
           owner' = owner,
           IF f.op = "connect" THEN owner[f.id] = f.data ELSE f.data \in Reply(f.id)
    PROVE  DownOwned'
  BY Queue DEF DownOwned, Reply

(* A read function sends data of its connection. *)
LEMMA HandleOwned ==
    ASSUME Types, UpOwned, MapsOwned, NEW c \in Conns, NEW data \in Data(c), Handle(c, data),
           owner' = owner
    PROVE  UpOwned'
  <1>0. up \in Seq(UpFrames) /\ clientToID \in [Conns -> {NoID} \cup IDs]
    BY DEF Types, ClientTypes
  <1>1. CASE up' = up
    BY <1>1 DEF UpOwned, Owned
  <1>2. CASE up' = Append(up, ConnectFrame(c, NoID))
    <2>1. ConnectFrame(c, NoID) \in UpFrames /\ ConnectFrame(c, NoID).op = "connect"
      BY DEF ConnectFrame, UpFrames
    <2> QED BY <1>0, <1>2, <2>1, UpAppended
  <1>3. CASE /\ clientToID[c] # NoID
             /\ up' = Append(up, IF data = Nothing THEN CloseFrame(clientToID[c])
                                 ELSE DataFrame(clientToID[c], data))
    <2> DEFINE f == IF data = Nothing THEN CloseFrame(clientToID[c]) ELSE DataFrame(clientToID[c], data)
    <2>1. f \in UpFrames
      BY <1>0, <1>3 DEF CloseFrame, DataFrame, UpFrames, IdentifiedFrames, AllData, Data
    <2>2. owner[clientToID[c]] = c
      BY <1>3 DEF MapsOwned
    <2>3. Owned(f.id, f.data)
      BY <2>2 DEF Owned, CloseFrame, DataFrame, Data
    <2> HIDE DEF f
    <2>4. up' = Append(up, f)
      BY <1>3 DEF f
    <2> QED BY <1>0, <2>1, <2>3, <2>4, UpAppended
  <1> QED BY <1>1, <1>2, <1>3 DEF Handle

(* Each step of the client. *)
LEMMA ClientKeepsOwnership ==
    ASSUME Types, Types', FlushedIsKnown, Ownership, ClientNext, UNCHANGED serverVars
    PROVE  Ownership'
  <1>0. /\ UNCHANGED <<owner, dispatcher, received>>
        /\ up \in Seq(UpFrames) /\ down \in Seq(DownFrames)
        /\ clientToID \in [Conns -> {NoID} \cup IDs]
        /\ idToClient \in [IDs -> Conns \cup {NoConn}]
        /\ got \in [Conns -> Seq(IDs \X Nat)]
    BY DEF Types, ClientTypes, serverVars
  <1>s. DispatcherOwned'
    BY <1>0 DEF Ownership, DispatcherOwned, Owned
  <1>1. ASSUME NEW c \in Conns, BrowserData(c) \/ BrowserEnd(c)
        PROVE  Ownership'
    <2>1. <<c, sent[c] + 1>> \in Data(c) /\ Nothing \in Data(c)
      BY DEF Types, ClientTypes, Data
    <2>2. UpOwned'
      BY <1>0, <1>1, <2>1, HandleOwned DEF BrowserData, BrowserEnd, Ownership
    <2>3. UNCHANGED <<down, clientToID, idToClient, got>>
      BY <1>1 DEF BrowserData, BrowserEnd
    <2> QED BY <1>0, <1>s, <2>2, <2>3 DEF Ownership, DownOwned, MapsOwned, NothingCrosses
  <1>2. ASSUME FromServer
        PROVE  Ownership'
    <2> DEFINE frame == Head(down)
    <2>1. /\ frame \in DownFrames /\ up' = up
          /\ IF frame.op = "connect" THEN owner[frame.id] = frame.data ELSE frame.data \in Reply(frame.id)
      BY <1>0, <1>2, Queue DEF FromServer, Ownership, DownOwned
    <2>2. DownOwned'
      BY <1>0, <1>2, Queue DEF FromServer, Ownership, DownOwned, Reply
    <2>3. UpOwned'
      BY <1>0, <2>1 DEF Ownership, UpOwned, Owned
    <2> HIDE DEF frame
    <2>4. MapsOwned'
      <3>1. CASE Confirmed(frame)
        <4>1. frame.data \in Conns /\ frame.id \in IDs /\ owner[frame.id] = frame.data
          BY <2>1, <3>1 DEF Confirmed, DownFrames, Types, ClientTypes
        <4> QED BY <1>0, <3>1, <4>1 DEF Confirmed, Ownership, MapsOwned
      <3>2. CASE Closed(frame) \/ Replied(frame) \/ Ignored(frame)
        BY <1>0, <3>2 DEF Closed, Replied, Ignored, Ownership, MapsOwned
      <3> QED BY <1>2, <3>1, <3>2 DEF FromServer, frame
    <2>5. NothingCrosses'
      <3>1. CASE Replied(frame)
        <4>1. frame.id \in IDs /\ frame.data \in IDs \X Nat /\ frame.data[1] = frame.id
          BY <2>1, <3>1 DEF Replied, DownFrames, AllReply, Reply
        <4> DEFINE c == idToClient[frame.id]
        <4>2. c \in Conns /\ owner[frame.id] = c
          BY <1>0, <3>1, <4>1, TunnelAssumption DEF Replied, Ownership, MapsOwned, Types, ClientTypes
        <4>3. got' = [got EXCEPT ![c] = Append(got[c], frame.data)]
          BY <3>1 DEF Replied
        <4> HIDE DEF c
        <4>4. \A n \in DOMAIN got'[c] : owner[got'[c][n][1]] = c
          <5>1. got'[c] = Append(got[c], frame.data) /\ got[c] \in Seq(IDs \X Nat)
            BY <1>0, <4>2, <4>3
          <5>2. \A n \in DOMAIN got[c] : owner[got[c][n][1]] = c
            BY <4>2 DEF Ownership, NothingCrosses
          <5> QED BY <4>1, <4>2, <5>1, <5>2, Queue
        <4>5. \A d \in Conns : d # c => got'[d] = got[d]
          BY <1>0, <4>3
        <4> QED BY <1>0, <4>4, <4>5 DEF Ownership, NothingCrosses
      <3>2. CASE got' = got
        BY <1>0, <3>2 DEF Ownership, NothingCrosses
      <3> QED BY <1>2, <3>1, <3>2 DEF FromServer, Confirmed, Closed, Ignored, frame
    <2> QED BY <1>s, <2>2, <2>3, <2>4, <2>5 DEF Ownership
  <1>3. ASSUME FlushSend
        PROVE  Ownership'
    <2>1. flusher \in Flushers /\ flusher.conn \in Conns /\ flusher.id \in IDs /\ flusher # Idle
      BY <1>3, AtRest DEF FlushSend, Types, ClientTypes, FlusherType, Flushers
    <2> DEFINE data == Head(pending[flusher.conn])
               f    == DataFrame(flusher.id, data)
    <2>2. data \in Data(flusher.conn)
      BY <1>3, <2>1, HeadTailProperties DEF FlushSend, Types, ClientTypes
    <2>3. owner[flusher.id] = flusher.conn
      <3>1. NoID \notin IDs
        BY ONLY TunnelAssumption DEF IDs, NoID
      <3> QED BY <2>1, <3>1 DEF FlushedIsKnown, Ownership, MapsOwned
    <2> HIDE DEF data
    <2>4. f \in UpFrames
      BY <2>1, <2>2 DEF DataFrame, UpFrames, IdentifiedFrames, Data, AllData
    <2>5. Owned(f.id, f.data)
      BY <2>2, <2>3 DEF Owned, DataFrame, Data
    <2>6. up' = Append(up, f)
      BY <1>3 DEF FlushSend, data
    <2> HIDE DEF f
    <2>7. UpOwned'
      BY <1>0, <2>4, <2>5, <2>6, UpAppended DEF Ownership
    <2>8. UNCHANGED <<down, clientToID, idToClient, got>>
      BY <1>3 DEF FlushSend
    <2> QED BY <1>0, <1>s, <2>7, <2>8 DEF Ownership, DownOwned, MapsOwned, NothingCrosses
  <1>4. CASE UNCHANGED <<up, down, clientToID, idToClient, got>>
    BY <1>0, <1>4, <1>s DEF Ownership, UpOwned, DownOwned, MapsOwned, NothingCrosses, Owned
  <1>5. \/ \E c \in Conns : BrowserData(c) \/ BrowserEnd(c)
        \/ FromServer \/ FlushSend
        \/ UNCHANGED <<up, down, clientToID, idToClient, got>>
    BY DEF ClientNext, ClientReader, FetchPending, StorePending, FlushCut, FlushSet, FlushEnd, FlushDelete,
           links
  <1> QED BY <1>1, <1>2, <1>3, <1>4, <1>5

(* The server only adds owners. *)
Grown == \A i \in IDs : owner[i] # NoConn => owner'[i] = owner[i]

(* What is owned stays owned. *)
LEMMA OwnedForGood ==
    ASSUME Types, Grown, NEW i \in IDs, NEW data \in AllData, Owned(i, data)
    PROVE  data = Nothing \/ owner'[i] = data[1]
  BY TunnelAssumption DEF Grown, Owned, AllData

(* What a server's step leaves alone stays with its owner. *)
LEMMA GrownKeeps ==
    ASSUME Types, Ownership, Grown, UNCHANGED clientVars
    PROVE  /\ up' = up \/ (up # <<>> /\ up' = Tail(up)) => UpOwned'
           /\ down' = down => DownOwned'
           /\ MapsOwned'
           /\ received' = received => NothingCrosses'
  <1>0. /\ up \in Seq(UpFrames) /\ down \in Seq(DownFrames) /\ NoConn \notin Conns /\ NoID \notin IDs
        /\ clientToID \in [Conns -> {NoID} \cup IDs] /\ idToClient \in [IDs -> Conns \cup {NoConn}]
        /\ got \in [Conns -> Seq(IDs \X Nat)] /\ received \in [IDs -> Seq(Conns \X Nat)]
        /\ UNCHANGED <<clientToID, idToClient, got>>
    <2>1. NoID \notin IDs
      BY ONLY TunnelAssumption DEF IDs, NoID
    <2> QED BY <2>1, TunnelAssumption DEF Types, ClientTypes, ServerTypes, clientVars
  <1>1. \A k \in DOMAIN up :
            up[k].op # "connect" => up[k].data = Nothing \/ owner'[up[k].id] = up[k].data[1]
    <2>1. \A k \in DOMAIN up : up[k].op # "connect" => up[k].id \in IDs /\ up[k].data \in AllData
      <3>1. \A k \in DOMAIN up : up[k] \in UpFrames
        BY <1>0
      <3> QED BY ONLY <3>1 DEF UpFrames, IdentifiedFrames
    <2> QED BY <2>1, OwnedForGood DEF Ownership, UpOwned
  <1>2. ASSUME up' = up \/ (up # <<>> /\ up' = Tail(up))
        PROVE  UpOwned'
    <2>1. \A k \in DOMAIN up' : \E l \in DOMAIN up : up'[k] = up[l]
      <3>1. CASE up' = up
        BY <3>1
      <3>2. CASE up # <<>> /\ up' = Tail(up)
        BY <1>0, <3>2, Queue
      <3> QED BY <1>2, <3>1, <3>2
    <2> QED BY <1>1, <2>1 DEF UpOwned, Owned
  <1>3. ASSUME down' = down
        PROVE  DownOwned'
    <2>1. \A k \in DOMAIN down : down[k].op = "connect" => down[k].id \in IDs /\ down[k].data \in Conns
      <3>1. \A k \in DOMAIN down : down[k] \in DownFrames
        BY <1>0
      <3> QED BY ONLY <3>1 DEF DownFrames
    <2>2. ASSUME NEW k \in DOMAIN down, down[k].op = "connect"
          PROVE  owner'[down[k].id] = down[k].data
      <3>1. owner[down[k].id] = down[k].data
        BY <2>2 DEF Ownership, DownOwned
      <3> QED BY <1>0, <2>1, <2>2, <3>1 DEF Grown
    <2> QED BY <1>3, <2>2 DEF Ownership, DownOwned
  <1>4. MapsOwned'
    BY <1>0 DEF Ownership, MapsOwned, Grown
  <1>5. ASSUME received' = received
        PROVE  NothingCrosses'
    <2>1. ASSUME NEW i \in IDs, NEW n \in DOMAIN received[i]
          PROVE  received[i][n][1] = owner'[i]
      <3>1. received[i][n] \in Conns \X Nat
        BY <1>0
      <3>2. received[i][n][1] = owner[i]
        BY DEF Ownership, NothingCrosses
      <3> QED BY <1>0, <3>1, <3>2 DEF Grown
    <2>2. ASSUME NEW c \in Conns, NEW n \in DOMAIN got[c]
          PROVE  owner'[got[c][n][1]] = c
      <3>1. got[c][n] \in IDs \X Nat
        BY <1>0
      <3>2. owner[got[c][n][1]] = c
        BY DEF Ownership, NothingCrosses
      <3> QED BY <1>0, <3>1, <3>2 DEF Grown
    <2> QED BY <1>0, <1>5, <2>1, <2>2 DEF NothingCrosses
  <1> QED BY <1>2, <1>3, <1>4, <1>5

(* Each step of the server. *)
LEMMA ServerKeepsOwnership ==
    ASSUME Types, InTurn, Ownership, ServerNext, UNCHANGED clientVars
    PROVE  Ownership'
  <1>0. /\ up \in Seq(UpFrames) /\ down \in Seq(DownFrames)
        /\ owner \in [IDs -> Conns \cup {NoConn}] /\ NoConn \notin Conns
        /\ received \in [IDs -> Seq(Conns \X Nat)]
    BY TunnelAssumption DEF Types, ServerTypes
  <1>1. ASSUME FromClient
        PROVE  Ownership'
    <2> DEFINE frame == Head(up)
    <2>1. /\ frame \in UpFrames /\ up # <<>> /\ up' = Tail(up) /\ UNCHANGED <<down, received>>
          /\ frame.op # "connect" => Owned(frame.id, frame.data)
      BY <1>0, <1>1, Queue DEF FromClient, Ownership, UpOwned
    <2>2. CASE frame.op = "connect" /\ Dial(frame.data)
      <3> DEFINE id   == Cardinality(Drawn) + 1
                 conn == frame.data
      <3>a. Drawn # IDs
        BY ONLY <2>2 DEF Dial
      <3>b. conn \in Conns
        BY ONLY <2>1, <2>2 DEF UpFrames, IdentifiedFrames
      <3>c. id \in IDs /\ owner[id] = NoConn
        BY <3>a, NextID
      <3>d. owner' = [owner EXCEPT ![id] = conn] /\ dispatcher' = [at |-> "register", id |-> id]
        BY ONLY <2>2 DEF Dial
      <3> HIDE DEF id, conn, frame
      <3>1. Grown
        BY <1>0, <3>c, <3>d DEF Grown
      <3>2. DispatcherOwned'
        BY <1>0, <3>b, <3>c, <3>d DEF DispatcherOwned
      <3> QED BY <2>1, <3>1, <3>2, GrownKeeps DEF Ownership
    <2>3. CASE /\ frame.id \in registered
               /\ dispatcher' = [at |-> "dispatch", id |-> frame.id, frame |-> frame]
               /\ UNCHANGED <<owner, target, alive, reader>>
      <3>r. registered \subseteq IDs
        BY DEF Types, ServerTypes
      <3>n. NoID \notin IDs
        BY ONLY TunnelAssumption DEF IDs, NoID
      <3>1. frame.op # "connect"
        BY ONLY <2>1, <2>3, <3>r, <3>n DEF UpFrames, IdentifiedFrames
      <3>2. Owned(frame.id, frame.data)
        BY <2>1, <3>1
      <3> HIDE DEF frame
      <3>3. DispatcherOwned'
        BY <2>3, <3>2 DEF DispatcherOwned, Owned
      <3>4. Grown
        BY <2>3 DEF Grown
      <3> QED BY <2>1, <3>3, <3>4, GrownKeeps DEF Ownership
    <2>4. CASE UNCHANGED <<owner, target, alive, reader, dispatcher>>
      <3>1. Grown /\ DispatcherOwned'
        BY <2>4 DEF Grown, Ownership, DispatcherOwned, Owned
      <3> QED BY <2>1, <3>1, GrownKeeps DEF Ownership
    <2> QED BY <1>1, <2>2, <2>3, <2>4 DEF FromClient
  <1>2. ASSUME RegisterID \/ RegisterClient \/ Unmap \/ Forget
        PROVE  Ownership'
    <2>1. UNCHANGED <<owner, up, down, received>>
      BY <1>2 DEF RegisterID, RegisterClient, Unmap, Forget, links
    <2>2. /\ dispatcher'.at \in {"known", "answer", "forget", "idle"}
          /\ dispatcher'.at \in {"known", "answer"} => /\ dispatcher'.id = dispatcher.id
                                                       /\ dispatcher.at \in {"register", "known"}
      <3>1. CASE RegisterID
        BY <3>1, DispatcherMoves DEF RegisterID
      <3>2. CASE RegisterClient
        BY <3>2, DispatcherMoves DEF RegisterClient
      <3>3. CASE Unmap
        BY <3>3, DispatcherMoves DEF Unmap
      <3>4. CASE Forget
        BY <3>4, AtRest DEF Forget
      <3> QED BY <1>2, <3>1, <3>2, <3>3, <3>4
    <2>3. Grown /\ DispatcherOwned'
      BY <2>1, <2>2 DEF Grown, Ownership, DispatcherOwned
    <2> QED BY <2>1, <2>3, GrownKeeps DEF Ownership
  <1>3. ASSUME Answer
        PROVE  Ownership'
    <2> DEFINE id == dispatcher.id
               f  == ConnectFrame(owner[id], id)
    <2>1. id \in IDs /\ owner[id] \in Conns
      BY <1>3, DispatcherAt DEF Answer, Ownership, DispatcherOwned
    <2>2. f \in DownFrames /\ f.op = "connect" /\ f.id = id /\ f.data = owner[id]
      BY <2>1, ServerFrames DEF ConnectFrame
    <2>3. UNCHANGED <<owner, up, received>> /\ (down' = down \/ down' = Append(down, f))
      BY <1>3 DEF Answer
    <2> HIDE DEF f
    <2>4. Grown /\ DispatcherOwned'
      BY <1>3, AtRest DEF Answer, Grown, DispatcherOwned
    <2>5. DownOwned'
      <3>1. CASE down' = down
        BY <2>4, <3>1, GrownKeeps
      <3>2. CASE down' = Append(down, f)
        BY <1>0, <2>2, <2>3, <3>2, DownAppended DEF Ownership
      <3> QED BY <2>3, <3>1, <3>2
    <2> QED BY <2>3, <2>4, <2>5, GrownKeeps DEF Ownership
  <1>4. ASSUME Dispatch
        PROVE  Ownership'
    <2> DEFINE id   == dispatcher.id
               data == dispatcher.frame.data
    <2>1. id \in IDs /\ data \in AllData /\ Owned(id, data)
      BY <1>4, DispatcherAt DEF Dispatch, IdentifiedFrames, Ownership, DispatcherOwned
    <2>2. /\ UNCHANGED <<owner, up, down>> /\ dispatcher'.at \in {"unmap", "idle"}
          /\ \/ received' = received
             \/ data # Nothing /\ received' = [received EXCEPT ![id] = Append(@, data)]
      BY <1>4, AtRest DEF Dispatch, links
    <2> HIDE DEF id, data
    <2>3. Grown /\ DispatcherOwned'
      BY <2>2 DEF Grown, DispatcherOwned
    <2>4. NothingCrosses'
      <3>1. CASE received' = received
        BY <2>3, <3>1, GrownKeeps
      <3>2. CASE data # Nothing /\ received' = [received EXCEPT ![id] = Append(@, data)]
        <4>1. data \in Conns \X Nat /\ data[1] = owner[id]
          BY <2>1, <3>2 DEF AllData, Owned
        <4>2. received'[id] = Append(received[id], data) /\ received[id] \in Seq(Conns \X Nat)
          BY <1>0, <2>1, <3>2
        <4>3. \A n \in DOMAIN received[id] : received[id][n][1] = owner[id]
          BY <2>1 DEF Ownership, NothingCrosses
        <4>4. \A n \in DOMAIN received'[id] : received'[id][n][1] = owner[id]
          BY <4>1, <4>2, <4>3, Queue
        <4>5. \A i \in IDs : i # id => received'[i] = received[i]
          BY <1>0, <3>2
        <4>6. UNCHANGED <<owner, got>>
          BY <2>2 DEF clientVars
        <4> QED BY <4>4, <4>5, <4>6 DEF Ownership, NothingCrosses
      <3> QED BY <2>2, <3>1, <3>2
    <2> QED BY <2>2, <2>3, <2>4, GrownKeeps DEF Ownership
  <1>5. ASSUME NEW id \in IDs, Forward(id)
        PROVE  Ownership'
    <2> DEFINE data == reader[id].data
               f    == DataFrame(id, data)
    <2>1. data \in Reply(id)
      BY <1>5, AtRest DEF Forward, Types, ServerTypes, ReaderType
    <2>2. UNCHANGED <<owner, dispatcher, up, received>> /\ (down' = down \/ down' = Append(down, f))
      BY <1>5 DEF Forward
    <2>3. f \in DownFrames /\ f.op # "connect" /\ f.data \in Reply(f.id)
      BY <2>1, ServerFrames DEF DataFrame
    <2> HIDE DEF f
    <2>4. Grown /\ DispatcherOwned'
      BY <2>2 DEF Grown, Ownership, DispatcherOwned, Owned
    <2>5. DownOwned'
      <3>1. CASE down' = down
        BY <2>4, <3>1, GrownKeeps
      <3>2. CASE down' = Append(down, f)
        BY <1>0, <2>2, <2>3, <3>2, DownAppended DEF Ownership
      <3> QED BY <2>2, <3>1, <3>2
    <2> QED BY <2>2, <2>4, <2>5, GrownKeeps DEF Ownership
  <1>6. ASSUME NEW id \in IDs, EndTell(id)
        PROVE  Ownership'
    <2> DEFINE two == <<CloseFrame(id), DataFrame(id, Nothing)>>
    <2>1. UNCHANGED <<owner, dispatcher, up, received>> /\ down' = down \o two
      BY <1>6 DEF EndTell
    <2>2. /\ two \in Seq(DownFrames)
          /\ \A k \in DOMAIN two : two[k].op # "connect" /\ two[k].data \in Reply(two[k].id)
      BY ServerFrames DEF CloseFrame, DataFrame, Reply
    <2> HIDE DEF two
    <2>3. \A k \in DOMAIN down' : (k \in DOMAIN down /\ down'[k] = down[k])
                                 \/ \E l \in DOMAIN two : down'[k] = two[l]
      BY <1>0, <2>1, <2>2, ConcatProperties
    <2>4. DownOwned'
      BY <2>1, <2>2, <2>3 DEF Ownership, DownOwned, Reply
    <2>5. Grown /\ DispatcherOwned'
      BY <2>1 DEF Grown, Ownership, DispatcherOwned, Owned
    <2> QED BY <2>1, <2>4, <2>5, GrownKeeps DEF Ownership
  <1>7. CASE UNCHANGED <<owner, dispatcher, up, down, received>>
    <2>1. Grown /\ DispatcherOwned'
      BY <1>7 DEF Grown, Ownership, DispatcherOwned, Owned
    <2> QED BY <1>7, <2>1, GrownKeeps DEF Ownership
  <1>8. \/ FromClient \/ RegisterID \/ RegisterClient \/ Unmap \/ Forget \/ Answer \/ Dispatch
        \/ \E id \in IDs : Forward(id) \/ EndTell(id)
        \/ UNCHANGED <<owner, dispatcher, up, down, received>>
    BY DEF ServerNext, ServerReader, TargetReader, TargetData, TargetEnd, EndUnmap, links
  <1> QED BY <1>1, <1>2, <1>3, <1>4, <1>5, <1>6, <1>7, <1>8

-----------------------------------------------------------------------------
(* The server looks up what is there, until a target is closed *)

(* Nothing goes on for an id that is not drawn. *)
Undrawn ==
    /\ target \in [IDs -> {"none", "open", "closed"}]
    /\ \A i \in IDs : owner[i] = NoConn => i \notin registered /\ reader[i] = Ended /\ target[i] # "closed"

(* A target has been closed. *)
AnyClosed == \E i \in IDs : target[i] = "closed"

(* What a goroutine of the server has found is still there. *)
AllThere ==
    /\ ~panicked
    /\ dispatcher.at \in {"known", "answer", "dispatch"} => dispatcher.id \in registered
    /\ dispatcher.at \notin {"unmap", "forget"}
    /\ \A i \in IDs : /\ reader[i].at \notin {"unmap", "tell"}
                      /\ reader[i].at = "found" => /\ reader[i].data # Nothing
                                                   /\ i \in known \cap registered

(* What holds until one is. *)
Unclosed == AnyClosed \/ AllThere

(* Each step of the server keeps both. *)
LEMMA ServerStaysThere ==
    ASSUME Types, InTurn, Ownership, Undrawn, Unclosed, ServerNext
    PROVE  Undrawn' /\ Unclosed'
  <1>0. /\ owner \in [IDs -> Conns \cup {NoConn}] /\ NoConn \notin Conns /\ DOMAIN reader = IDs
        /\ target \in [IDs -> {"none", "open", "closed"}]
        /\ registered \subseteq IDs
    BY TunnelAssumption DEF Types, ServerTypes, ReaderType, Undrawn
  <1>1. ASSUME FromClient
        PROVE  Undrawn' /\ Unclosed'
    <2> DEFINE frame == Head(up)
    <2>0. UNCHANGED <<registered, known, panicked>>
      BY <1>1 DEF FromClient
    <2>2. CASE frame.op = "connect" /\ Dial(frame.data)
      <3> DEFINE id   == Cardinality(Drawn) + 1
                 conn == frame.data
      <3>a. Drawn # IDs
        BY ONLY <2>2 DEF Dial
      <3>c. id \in IDs /\ owner[id] = NoConn
        BY <3>a, NextID
      <3>d. /\ owner' = [owner EXCEPT ![id] = conn] /\ dispatcher' = [at |-> "register", id |-> id]
            /\ \/ target' = [target EXCEPT ![id] = "open"] /\ reader' = [reader EXCEPT ![id] = Idle]
               \/ UNCHANGED <<target, reader>>
        BY ONLY <2>2 DEF Dial
      <3>e. conn \in Conns
        <4>1. frame \in UpFrames
          BY <1>1, Queue DEF FromClient, Types
        <4> QED BY ONLY <2>2, <4>1 DEF UpFrames, IdentifiedFrames
      <3> HIDE DEF id, conn, frame
      <3>1. \A i \in IDs : i # id => owner'[i] = owner[i] /\ reader'[i] = reader[i] /\ target'[i] = target[i]
        BY <1>0, <3>d
      <3>2. owner'[id] = conn /\ target[id] # "closed"
            /\ (reader'[id] = Idle \/ reader'[id] = reader[id])
        BY <1>0, <3>c, <3>d DEF Undrawn
      <3>3. Undrawn'
        <4>1. target' \in [IDs -> {"none", "open", "closed"}]
          BY <1>0, <3>d
        <4> QED BY <1>0, <2>0, <3>1, <3>2, <3>e, <4>1 DEF Undrawn
      <3>4. AnyClosed => AnyClosed'
        BY <3>1, <3>2 DEF AnyClosed
      <3>5. AllThere => AllThere'
        BY <2>0, <3>1, <3>2, <3>d, AtRest DEF AllThere
      <3> QED BY <3>3, <3>4, <3>5 DEF Unclosed
    <2>3. CASE /\ frame.id \in registered
               /\ dispatcher' = [at |-> "dispatch", id |-> frame.id, frame |-> frame]
               /\ UNCHANGED <<owner, target, alive, reader>>
      BY <2>0, <2>3 DEF Undrawn, Unclosed, AnyClosed, AllThere
    <2>4. CASE UNCHANGED <<owner, target, alive, reader, dispatcher>>
      BY <2>0, <2>4 DEF Undrawn, Unclosed, AnyClosed, AllThere
    <2> QED BY <1>1, <2>2, <2>3, <2>4 DEF FromClient
  <1>2. ASSUME RegisterID
        PROVE  Undrawn' /\ Unclosed'
    <2>1. /\ registered' = registered \cup {dispatcher.id} /\ owner[dispatcher.id] # NoConn
          /\ UNCHANGED <<owner, target, reader, known, panicked>>
          /\ dispatcher'.at = "known" /\ dispatcher'.id = dispatcher.id
      BY <1>0, <1>2, DispatcherMoves DEF RegisterID, Ownership, DispatcherOwned
    <2> QED BY <2>1 DEF Undrawn, Unclosed, AnyClosed, AllThere
  <1>3. ASSUME RegisterClient
        PROVE  Undrawn' /\ Unclosed'
    <2>1. /\ known \subseteq known' /\ dispatcher.at = "known"
          /\ UNCHANGED <<owner, target, reader, registered, panicked>>
          /\ dispatcher'.at = "answer" /\ dispatcher'.id = dispatcher.id
      BY <1>3, DispatcherMoves DEF RegisterClient
    <2> QED BY <2>1 DEF Undrawn, Unclosed, AnyClosed, AllThere
  <1>4. ASSUME Answer
        PROVE  Undrawn' /\ Unclosed'
    <2>1. /\ dispatcher.at = "answer" /\ dispatcher'.at = "idle"
          /\ dispatcher.id \in registered => panicked' = panicked
          /\ UNCHANGED <<owner, target, reader, registered, known>>
      BY <1>4, AtRest DEF Answer
    <2> QED BY <2>1 DEF Undrawn, Unclosed, AnyClosed, AllThere
  <1>5. ASSUME Dispatch
        PROVE  Undrawn' /\ Unclosed'
    <2> DEFINE id == dispatcher.id
    <2>1. /\ id \in IDs /\ dispatcher.at = "dispatch" /\ panicked' = (id \notin registered)
          /\ \/ target' = target /\ dispatcher' = Idle
             \/ id \in registered /\ target' = [target EXCEPT ![id] = "closed"]
          /\ UNCHANGED <<owner, reader, registered, known>>
      BY <1>5, DispatcherAt DEF Dispatch
    <2> HIDE DEF id
    <2>2. CASE target' = target /\ dispatcher' = Idle
      <3>1. AllThere => id \in registered
        BY <2>1 DEF AllThere, id
      <3> QED BY <2>1, <2>2, <3>1, AtRest DEF Undrawn, Unclosed, AnyClosed, AllThere
    <2>3. CASE id \in registered /\ target' = [target EXCEPT ![id] = "closed"]
      BY <1>0, <2>1, <2>3 DEF Undrawn, Unclosed, AnyClosed
    <2> QED BY <2>1, <2>2, <2>3
  <1>6. ASSUME Unmap \/ Forget
        PROVE  Undrawn' /\ Unclosed'
    <2>1. /\ dispatcher.at \in {"unmap", "forget"} /\ registered' \subseteq registered
          /\ UNCHANGED <<owner, target, reader>>
      BY <1>6 DEF Unmap, Forget
    <2> QED BY <2>1 DEF Undrawn, Unclosed, AnyClosed, AllThere
  <1>7. ASSUME NEW id \in IDs, TargetData(id)
        PROVE  Undrawn' /\ Unclosed'
    <2> DEFINE piece == <<id, replies[id] + 1>>
    <2>1. piece # Nothing
      <3>1. replies[id] + 1 \in Nat
        BY DEF Types, ServerTypes
      <3> QED BY <3>1, TunnelAssumption DEF IDs
    <2>2. /\ UNCHANGED <<owner, target, registered, known, dispatcher, panicked>>
          /\ reader[id] = Idle
          /\ reader' = [reader EXCEPT ![id] =
                           IF id \in known \cap registered THEN [at |-> "found", data |-> piece] ELSE Idle]
      BY <1>7, <2>1 DEF TargetData, Check
    <2> HIDE DEF piece
    <2>3. owner[id] # NoConn
      BY <2>2, AtRest DEF Undrawn
    <2> QED BY <1>0, <2>1, <2>2, <2>3, AtRest DEF Undrawn, Unclosed, AnyClosed, AllThere
  <1>8. ASSUME NEW id \in IDs, TargetEnd(id)
        PROVE  Undrawn' /\ Unclosed'
    <2>1. /\ UNCHANGED <<owner, registered>> /\ target' = [target EXCEPT ![id] = "closed"]
          /\ reader[id] = Idle /\ \A i \in IDs : i # id => reader'[i] = reader[i]
      BY <1>0, <1>8 DEF TargetEnd, Check
    <2>2. owner[id] # NoConn
      BY <2>1, AtRest DEF Undrawn
    <2> QED BY <1>0, <2>1, <2>2 DEF Undrawn, Unclosed, AnyClosed
  <1>9. ASSUME NEW id \in IDs, Forward(id)
        PROVE  Undrawn' /\ Unclosed'
    <2>1. /\ UNCHANGED <<owner, target, registered, known, dispatcher>>
          /\ panicked' = ~(id \in known \cap registered) /\ reader[id].at = "found"
          /\ reader' = [reader EXCEPT ![id] =
                           IF reader[id].data = Nothing THEN [at |-> "unmap"] ELSE Idle]
      BY <1>9 DEF Forward
    <2>2. owner[id] # NoConn
      BY <2>1, AtRest DEF Undrawn
    <2>3. Undrawn'
      BY <1>0, <2>1, <2>2 DEF Undrawn
    <2>4. AllThere => AllThere'
      BY <1>0, <2>1, AtRest DEF AllThere
    <2> QED BY <2>1, <2>3, <2>4 DEF Unclosed, AnyClosed
  <1>10. ASSUME NEW id \in IDs, EndUnmap(id) \/ EndTell(id)
         PROVE  Undrawn' /\ Unclosed'
    <2>1. /\ UNCHANGED <<owner, target>> /\ reader[id].at \in {"unmap", "tell"}
          /\ registered' \subseteq registered /\ \A i \in IDs : i # id => reader'[i] = reader[i]
      BY <1>0, <1>10 DEF EndUnmap, EndTell
    <2>2. owner[id] # NoConn
      BY <2>1, AtRest DEF Undrawn
    <2>3. AnyClosed
      BY <2>1 DEF Unclosed, AllThere
    <2> QED BY <1>0, <2>1, <2>2, <2>3 DEF Undrawn, Unclosed, AnyClosed
  <1> QED BY <1>1, <1>2, <1>3, <1>4, <1>5, <1>6, <1>7, <1>8, <1>9, <1>10
          DEF ServerNext, ServerReader, TargetReader

-----------------------------------------------------------------------------
(* The inductive invariant *)
Inv == /\ Types /\ InTurn /\ AskedOnce /\ FlushedIsKnown /\ Ownership
       /\ Undrawn /\ Unclosed

(* The invariant holds at first, *)
LEMMA InitInv == Init => Inv
  <1> SUFFICES ASSUME Init PROVE Inv
    OBVIOUS
  <1>0. Types /\ NoID \notin IDs
    <2>1. NoID \notin IDs
      BY ONLY TunnelAssumption DEF IDs, NoID
    <2> QED BY <2>1, InitTypes
  <1> USE DEF Init, LinkInit, ClientInit, ServerInit
  <1>1. InTurn
    <2>1. Drawn = 1 .. 0 /\ 0 \in 0 .. MaxIDs
      BY TunnelAssumption DEF Drawn
    <2> QED BY ONLY <2>1 DEF InTurn
  <1>2. AskedOnce /\ FlushedIsKnown
    BY TunnelAssumption DEF AskedOnce, FlushedIsKnown
  <1>3. Ownership
    BY AtRest DEF Ownership, UpOwned, DownOwned, MapsOwned, DispatcherOwned, NothingCrosses
  <1>4. Undrawn
    BY DEF Undrawn
  <1>5. AllThere
    BY AtRest DEF AllThere
  <1> QED BY <1>0, <1>1, <1>2, <1>3, <1>4, <1>5 DEF Inv, Unclosed

(* every step keeps it, *)
LEMMA NextInv == Inv /\ [Next]_vars => Inv'
  <1> SUFFICES ASSUME Inv, [Next]_vars PROVE Inv'
    OBVIOUS
  <1> USE DEF Inv
  <1>1. CASE ClientNext /\ UNCHANGED serverVars
    <2>1. Types' /\ AskedOnce' /\ FlushedIsKnown'
      BY <1>1, ClientKeepsTypes, ClientAsksOnce
    <2>2. Ownership'
      BY <1>1, <2>1, ClientKeepsOwnership
    <2>3. InTurn'
      <3>1. Drawn' = Drawn
        BY <1>1 DEF serverVars, Drawn
      <3> QED BY <3>1 DEF InTurn
    <2>4. Undrawn' /\ Unclosed'
      BY <1>1 DEF serverVars, Undrawn, Unclosed, AnyClosed, AllThere
    <2> QED BY <2>1, <2>2, <2>3, <2>4
  <1>2. CASE ServerNext /\ UNCHANGED clientVars
    <2>1. dispatcher.at = "answer" => dispatcher.id \in Drawn
      BY DispatcherAt, TunnelAssumption DEF Ownership, DispatcherOwned, Drawn
    <2>2. \A i \in Drawn : owner[i] \in Conns
      BY DEF Types, ServerTypes, Drawn
    <2>3. Types'
      BY <1>2, <2>1, <2>2, ServerKeepsTypes
    <2>4. AskedOnce' /\ FlushedIsKnown' /\ InTurn'
      BY <1>2, ServerAsksOnce
    <2>5. Ownership'
      BY <1>2, ServerKeepsOwnership
    <2>6. Undrawn' /\ Unclosed'
      BY <1>2, ServerStaysThere
    <2> QED BY <2>3, <2>4, <2>5, <2>6
  <1>3. CASE UNCHANGED vars
    <2> USE <1>3 DEF vars, links, clientVars, serverVars
    <2>1. Types'
      BY DEF Types, ClientTypes, ServerTypes, HandlerType, FlusherType, ReaderType
    <2>2. InTurn'
      <3>1. Drawn' = Drawn
        BY DEF Drawn
      <3> QED BY <3>1 DEF InTurn
    <2>3. AskedOnce' /\ FlushedIsKnown'
      BY DEF AskedOnce, Asked, FlushedIsKnown
    <2>4. Ownership'
      BY DEF Ownership, UpOwned, DownOwned, MapsOwned, DispatcherOwned, NothingCrosses, Owned
    <2>5. Undrawn' /\ Unclosed'
      BY DEF Undrawn, Unclosed, AnyClosed, AllThere
    <2> QED BY <2>1, <2>2, <2>3, <2>4, <2>5
  <1> QED BY <1>1, <1>2, <1>3 DEF Next

(* and so it holds always. *)
LEMMA Invariance == Spec => []Inv
  BY InitInv, NextInv, PTL DEF Spec

(* One browser connection never has two connections to the target: the answer     *)
(* that clears pendingConnections leaves an id in clientToID behind, and until    *)
(* then the pending list keeps handleTCPReadFunc from asking again.               *)
THEOREM AtMostOneTarget == Spec => []OneTarget
  <1>1. Inv => OneTarget
    BY DEF Inv, Types, ServerTypes, AskedOnce, OneTarget
  <1> QED BY <1>1, Invariance, PTL

(* Data never crosses from one browser's connection to another's target or back,  *)
(* through two maps at each end and a handshake with two kinds of ids.            *)
THEOREM NoCrossing == Spec => []NothingCrosses
  <1>1. Inv => NothingCrosses
    BY DEF Inv, Ownership
  <1> QED BY <1>1, Invariance, PTL

(* What the server looks up twice is still there, until a target has been closed:  *)
(* before that, its process does not end by a nil connection.                      *)
THEOREM NoNilBeforeClose == Spec => []NilOnlyAfterClose
  <1>1. Inv => NilOnlyAfterClose
    BY DEF Inv, Unclosed, AnyClosed, AllThere, NilOnlyAfterClose
  <1> QED BY <1>1, Invariance, PTL

-----------------------------------------------------------------------------
(* The two streams of a connection *)

-----------------------------------------------------------------------------
(* Numbered data on a link *)

(* A frame with a piece of data for, or a reply of, the id i. *)
Carries(f, i) == f.op = "data" /\ f.id = i /\ f.data # Nothing

Number(f) == f.data[2]

(* Behind position k the link q holds, for i, the numbers first .. last and no *)
(* others, in order.                                                           *)
Stream(q, i, k, first, last) ==
    /\ \A l \in DOMAIN q : l > k /\ Carries(q[l], i) =>
          /\ Number(q[l]) \in first .. last
          /\ \A m \in DOMAIN q : m > l /\ Carries(q[m], i) => Number(q[m]) > Number(q[l])
    /\ \A n \in first .. last : \E l \in DOMAIN q : l > k /\ Carries(q[l], i) /\ Number(q[l]) = n

(* Putting a frame on the link that carries nothing of i. *)
LEMMA StreamOther ==
    ASSUME NEW S, NEW q \in Seq(S), NEW e \in S, NEW i, NEW k \in 0 .. Len(q), NEW first \in Int,
           NEW last \in Int, Stream(q, i, k, first, last), ~Carries(e, i)
    PROVE  Stream(Append(q, e), i, k, first, last)
  <1> DEFINE r == Append(q, e)
  <1>1. /\ DOMAIN r = DOMAIN q \cup {Len(q) + 1} /\ r[Len(q) + 1] = e
        /\ \A l \in DOMAIN q : r[l] = q[l]
    BY Queue
  <1> HIDE DEF r
  <1>2. \A l \in DOMAIN r : Carries(r[l], i) => l \in DOMAIN q /\ Carries(q[l], i) /\ r[l] = q[l]
    BY ONLY <1>1, ~Carries(e, i)
  <1>3. \A l \in DOMAIN q : l \in DOMAIN r /\ r[l] = q[l]
    BY ONLY <1>1
  <1>4. Stream(r, i, k, first, last)
    BY ONLY <1>2, <1>3, Stream(q, i, k, first, last) DEF Stream
  <1> QED BY <1>4 DEF r

(* Putting the next number of i on the link. *)
LEMMA StreamNext ==
    ASSUME NEW S, NEW q \in Seq(S), NEW e \in S, NEW i, NEW k \in 0 .. Len(q), NEW first \in Int,
           NEW last \in Int, Stream(q, i, k, first, last), first <= last + 1,
           Carries(e, i), Number(e) = last + 1
    PROVE  Stream(Append(q, e), i, k, first, last + 1)
  <1> DEFINE r == Append(q, e)
             z == Len(q) + 1
  <1>1. /\ DOMAIN r = DOMAIN q \cup {z} /\ r[z] = e
        /\ \A l \in DOMAIN q : r[l] = q[l] /\ l < z /\ l \in Nat
        /\ z > k /\ z \in Nat
    BY Queue
  <1> HIDE DEF r, z
  <1>2. \A l \in DOMAIN r : l = z \/ (l \in DOMAIN q /\ r[l] = q[l])
    BY ONLY <1>1
  <1>3. \A l \in DOMAIN q : l > k /\ Carries(q[l], i) =>
            /\ Number(q[l]) \in first .. last
            /\ \A m \in DOMAIN q : m > l /\ Carries(q[m], i) => Number(q[m]) > Number(q[l])
    BY DEF Stream
  <1>4. ASSUME NEW l \in DOMAIN r, l > k, Carries(r[l], i)
        PROVE  /\ Number(r[l]) \in first .. last + 1
               /\ \A m \in DOMAIN r : m > l /\ Carries(r[m], i) => Number(r[m]) > Number(r[l])
    <2>1. CASE l = z
      <3>1. \A m \in DOMAIN r : ~(m > l)
        BY ONLY <1>1, <2>1
      <3> QED BY <1>1, <2>1, <3>1
    <2>2. CASE l \in DOMAIN q /\ r[l] = q[l]
      <3>1. Number(r[l]) \in first .. last
        BY <1>3, <1>4, <2>2
      <3>2. ASSUME NEW m \in DOMAIN r, m > l, Carries(r[m], i) PROVE Number(r[m]) > Number(r[l])
        <4>1. CASE m = z
          BY <1>1, <3>1, <4>1
        <4>2. CASE m \in DOMAIN q /\ r[m] = q[m]
          BY <1>3, <1>4, <2>2, <3>2, <4>2
        <4> QED BY <1>2, <4>1, <4>2
      <3> QED BY <3>1, <3>2
    <2> QED BY <1>2, <2>1, <2>2
  <1>5. ASSUME NEW n \in first .. last + 1
        PROVE  \E l \in DOMAIN r : l > k /\ Carries(r[l], i) /\ Number(r[l]) = n
    <2>1. CASE n = last + 1
      BY <1>1, <2>1
    <2>2. CASE n \in first .. last
      <3>1. PICK l \in DOMAIN q : l > k /\ Carries(q[l], i) /\ Number(q[l]) = n
        BY <2>2 DEF Stream
      <3> QED BY <1>1, <3>1
    <2> QED BY <2>1, <2>2
  <1>6. Stream(r, i, k, first, last + 1)
    BY <1>4, <1>5 DEF Stream
  <1> QED BY <1>6 DEF r

(* Nothing is behind the last frame. *)
LEMMA StreamEnd ==
    ASSUME NEW S, NEW q \in Seq(S), NEW i, NEW first \in Int, NEW last \in Int, first > last
    PROVE  Stream(q, i, Len(q), first, last)
  <1>1. \A l \in DOMAIN q : ~(l > Len(q))
    OBVIOUS
  <1>2. first .. last = {}
    OBVIOUS
  <1> QED BY ONLY <1>1, <1>2 DEF Stream

(* Taking a frame off the link: positions move by one. *)
LEMMA StreamMoves ==
    ASSUME NEW S, NEW q \in Seq(S), q # <<>>, NEW i, NEW k \in Nat, NEW first \in Int,
           NEW last \in Int, Stream(q, i, k + 1, first, last)
    PROVE  Stream(Tail(q), i, k, first, last)
  <1> DEFINE r == Tail(q)
  <1>1. /\ \A l \in DOMAIN r : l \in Nat /\ l + 1 \in DOMAIN q /\ r[l] = q[l + 1]
        /\ \A l \in DOMAIN q : l \in Nat /\ (l > 1 => l - 1 \in DOMAIN r)
    OBVIOUS
  <1> HIDE DEF r
  <1>2. ASSUME NEW l \in DOMAIN r, l > k, Carries(r[l], i)
        PROVE  /\ Number(r[l]) \in first .. last
               /\ \A m \in DOMAIN r : m > l /\ Carries(r[m], i) => Number(r[m]) > Number(r[l])
    <2>1. l + 1 \in DOMAIN q /\ l + 1 > k + 1 /\ r[l] = q[l + 1]
      BY <1>1, <1>2
    <2>2. \A m \in DOMAIN r : m > l => m + 1 \in DOMAIN q /\ m + 1 > l + 1 /\ r[m] = q[m + 1]
      BY <1>1
    <2> QED BY <1>2, <2>1, <2>2 DEF Stream
  <1>3. ASSUME NEW n \in first .. last
        PROVE  \E l \in DOMAIN r : l > k /\ Carries(r[l], i) /\ Number(r[l]) = n
    <2>1. PICK l \in DOMAIN q : l > k + 1 /\ Carries(q[l], i) /\ Number(q[l]) = n
      BY DEF Stream
    <2>2. l - 1 \in DOMAIN r /\ l - 1 > k /\ r[l - 1] = q[l]
      BY <1>1, <2>1
    <2> QED BY <2>1, <2>2
  <1>4. Stream(r, i, k, first, last)
    BY <1>2, <1>3 DEF Stream
  <1> QED BY <1>4 DEF r

(* The frame taken off the link carries nothing of i ... *)
LEMMA StreamSkips ==
    ASSUME NEW S, NEW q \in Seq(S), q # <<>>, NEW i, NEW first \in Int, NEW last \in Int,
           Stream(q, i, 0, first, last), ~Carries(Head(q), i)
    PROVE  Stream(Tail(q), i, 0, first, last)
  <1>1. Head(q) = q[1] /\ \A l \in DOMAIN q : l \in Nat /\ (l > 0 /\ l # 1 => l > 1)
    OBVIOUS
  <1>2. \A l \in DOMAIN q : l > 0 /\ Carries(q[l], i) => l > 1
    BY ONLY <1>1, ~Carries(Head(q), i)
  <1>3. \A l \in DOMAIN q : l > 1 => l > 0
    BY ONLY <1>1
  <1>4. Stream(q, i, 1, first, last)
    BY ONLY <1>2, <1>3, Stream(q, i, 0, first, last) DEF Stream
  <1> QED BY <1>4, StreamMoves, 0 + 1 = 1, 0 \in Nat

(* ... or the first number of its stream. *)
LEMMA StreamTakes ==
    ASSUME NEW S, NEW q \in Seq(S), q # <<>>, NEW i, NEW first \in Int, NEW last \in Int,
           Stream(q, i, 0, first, last), Carries(Head(q), i)
    PROVE  /\ Number(Head(q)) = first /\ first <= last
           /\ Stream(Tail(q), i, 0, first + 1, last)
  <1>1. Head(q) = q[1] /\ 1 \in DOMAIN q /\ \A l \in DOMAIN q : l \in Nat /\ (l = 1 \/ l > 1) /\ l > 0
    OBVIOUS
  <1>2. \A l \in DOMAIN q : Carries(q[l], i) =>
            /\ Number(q[l]) \in first .. last
            /\ \A m \in DOMAIN q : m > l /\ Carries(q[m], i) => Number(q[m]) > Number(q[l])
    BY <1>1 DEF Stream
  <1>3. Number(q[1]) \in first .. last /\ first \in first .. last
    BY <1>1, <1>2
  <1>4. PICK l \in DOMAIN q : Carries(q[l], i) /\ Number(q[l]) = first
    BY <1>3 DEF Stream
  <1>5. l = 1
    <2>1. SUFFICES ASSUME l > 1 PROVE FALSE
      BY <1>1
    <2>2. Number(q[l]) > Number(q[1])
      BY <1>1, <1>2, <1>4, <2>1
    <2> QED BY <1>3, <1>4, <2>2
  <1>6. ASSUME NEW m \in DOMAIN q, m > 1, Carries(q[m], i)
        PROVE  Number(q[m]) \in first + 1 .. last
    <2>1. Number(q[m]) > Number(q[1]) /\ Number(q[m]) \in first .. last
      BY <1>1, <1>2, <1>6
    <2> QED BY <1>4, <1>5, <2>1
  <1>7. ASSUME NEW n \in first + 1 .. last
        PROVE  \E m \in DOMAIN q : m > 1 /\ Carries(q[m], i) /\ Number(q[m]) = n
    <2>1. n \in first .. last /\ n # first
      OBVIOUS
    <2>2. PICK m \in DOMAIN q : Carries(q[m], i) /\ Number(q[m]) = n
      BY <2>1 DEF Stream
    <2> QED BY <1>1, <1>4, <1>5, <2>1, <2>2
  <1>8. Stream(q, i, 1, first + 1, last)
    BY <1>2, <1>6, <1>7 DEF Stream
  <1>9. Stream(Tail(q), i, 0, first + 1, last)
    BY <1>8, StreamMoves, 0 + 1 = 1, 0 \in Nat, first + 1 \in Int
  <1> QED BY <1>1, <1>3, <1>4, <1>5, <1>9

-----------------------------------------------------------------------------
(* The invariant *)

(* The ids whose target, while it is open, both maps of the server hold. *)
Linked == {i \in IDs : owner[i] # NoConn /\ (target[i] = "open" => i \in registered \cap known)}

(* Whoever has heard of an id deals with a linked one ... *)
HeardOf ==
    /\ \A k \in DOMAIN down : down[k].id \in Linked
    /\ \A k \in DOMAIN up : up[k].op # "connect" => up[k].id \in Linked
    /\ \A c \in Conns : clientToID[c] # NoID => clientToID[c] \in Linked
    /\ \A i \in IDs : idToClient[i] # NoConn => i \in Linked
    /\ dispatcher.at \in {"answer", "dispatch"} => dispatcher.id \in Linked
    /\ \A i \in IDs : reader[i].at = "found" => i \in Linked

(* ... because an entry leaves a map only when the target is closed. *)
ClosedFirst ==
    /\ dispatcher.at = "known" /\ target[dispatcher.id] = "open" => dispatcher.id \in registered
    /\ dispatcher.at \in {"unmap", "forget"} => target[dispatcher.id] = "closed"
    /\ \A i \in IDs :
          /\ reader[i].at \in {"unmap", "tell"} => target[i] = "closed"
          /\ reader[i].at = "found" /\ reader[i].data = Nothing => target[i] = "closed"
          /\ target[i] = "open" => i \in alive

(* The two maps of the client agree, and an answer is waited for before it comes. *)
Confirming ==
    /\ \A c \in waiting : clientToID[c] = NoID
    /\ \A i \in IDs : idToClient[i] # NoConn => clientToID[idToClient[i]] = i
    /\ \A c \in Conns : got[c] # <<>> => clientToID[c] # NoID

(* Replies that left handleTCPReadFunc of the target, or were dropped there. *)
Holding(i)   == reader[i].at = "found" /\ reader[i].data # Nothing
Forwarded(i) == IF Holding(i) THEN replies[i] - 1 ELSE replies[i]

(* The replies of i on the link, `first` being the one the browser gets next. *)
ReplyStream(i, first) ==
    /\ Stream(down, i, 0, first, Forwarded(i))
    /\ idToClient[i] \in open =>
          LET c == idToClient[i] IN
          IF got[c] = <<>> THEN first \leq answered[i] + 1 ELSE first = got[c][Len(got[c])][2] + 1

(* Behind an answer on the link are all replies that came after it. *)
AnsweredStream(k) ==
    LET i == down[k].id IN
    down[k].op = "connect" =>
        \E first \in 0 .. Forwarded(i) + 1 :
            first \leq answered[i] + 1 /\ Stream(down, i, k, first, Forwarded(i))

Streams == /\ \A i \in IDs : \E first \in 0 .. Forwarded(i) + 1 : ReplyStream(i, first)
           /\ \A k \in DOMAIN down : AnsweredStream(k)

Replying == /\ \A i \in IDs : Holding(i) => reader[i].data = <<i, replies[i]>>
            /\ ~panicked => Streams

(* handleTCPReadFunc has read, or is at, the end of the browser's data. *)
Over(c) == handler[c] = Ended \/ (handler[c].at \in {"append", "store"} /\ handler[c].data = Nothing)

(* A list of what the browser sent after its first p pieces, and the end if it came. *)
Rest(c, p, list) ==
    /\ \/ Len(list) = sent[c] - p
       \/ Len(list) = sent[c] - p + 1 /\ Over(c) /\ list[Len(list)] = Nothing
    /\ \A k \in 1 .. sent[c] - p : list[k] = <<c, p + k>>

(* The first p pieces of c have left for the server, the others are held back. *)
HeldBack(c, p) ==
    /\ clientToID[c] = NoID => p = 0
    /\ handler[c].at = "store"  => ~Flushing(c) /\ Rest(c, p, handler[c].list)
    /\ handler[c].at = "append" => /\ ~Flushing(c) /\ pending[c] # NotPending
                                   /\ Rest(c, p, Append(pending[c], handler[c].data))
    /\ handler[c] \in {Idle, Ended} =>
          /\ ~Flushing(c) => IF pending[c] = NotPending THEN p = sent[c] ELSE Rest(c, p, pending[c])
          /\ Flushing(c) => /\ pending[c] # NotPending
                            /\ flusher.at = "send"   => Rest(c, p, pending[c])
                            /\ flusher.at = "cut"    => Rest(c, p, Tail(pending[c]))
                            /\ flusher.at = "set"    => Rest(c, p, flusher.rest)
                            /\ flusher.at = "delete" => p = sent[c]

(* A piece of data that handleWebSocketReadFunc has taken off the link for i. *)
Dispatching(i) == dispatcher.at = "dispatch" /\ Carries(dispatcher.frame, i)

(* Of the first p pieces the target of i has got some; the others are on the way, as *)
(* long as it is open.                                                               *)
Arriving(i, c, p) ==
    LET have  == Len(received[i])
        taken == IF Dispatching(i) THEN have + 1 ELSE have
    IN  /\ have \leq p
        /\ \A n \in 1 .. have : received[i][n] = <<c, n>>
        /\ target[i] = "open" => /\ taken \leq p
                                 /\ Dispatching(i) => dispatcher.frame.data = <<c, taken>>
                                 /\ Stream(up, i, 0, taken + 1, p)

Sending ==
    \A c \in Conns \ overlapped : \E p \in 0 .. sent[c] :
        HeldBack(c, p) /\ \A i \in IDs : owner[i] = c => Arriving(i, c, p)

(* A close frame holds no data, and the dispatcher deals with the frame it looked up. *)
Framed ==
    /\ \A k \in DOMAIN up : up[k].op = "close" => up[k].data = Nothing
    /\ dispatcher.at = "dispatch" => /\ dispatcher.frame.id = dispatcher.id
                                     /\ dispatcher.frame.op = "close" => dispatcher.frame.data = Nothing

Answering == answered \in [IDs -> Int] /\ \A i \in IDs : answered[i] \leq replies[i]

(* Everything about replies; what is about the browser's data comes on top of it. *)
ReplyInv == HeardOf /\ ClosedFirst /\ Confirming /\ Answering /\ Replying /\ RepliesKept

-----------------------------------------------------------------------------
(* Linked ids *)

(* What that invariant says of the variables one by one. *)
LEMMA Facts ==
    ASSUME Inv
    PROVE  /\ up \in Seq(UpFrames) /\ down \in Seq(DownFrames)
           /\ open \subseteq Conns /\ waiting \subseteq Conns /\ sent \in [Conns -> Nat]
           /\ DOMAIN handler = Conns /\ DOMAIN pending = Conns
           /\ clientToID \in [Conns -> {NoID} \cup IDs]
           /\ idToClient \in [IDs -> Conns \cup {NoConn}] /\ got \in [Conns -> Seq(IDs \X Nat)]
           /\ owner \in [IDs -> Conns \cup {NoConn}] /\ target \in [IDs -> {"none", "open", "closed"}]
           /\ registered \subseteq IDs /\ known \subseteq IDs /\ replies \in [IDs -> Nat]
           /\ received \in [IDs -> Seq(Conns \X Nat)] /\ DOMAIN reader = IDs
           /\ NoConn \notin Conns /\ NoID \notin IDs /\ IDs \subseteq Nat
  <1>1. NoID \notin IDs /\ IDs \subseteq Nat /\ NoConn \notin Conns
    BY ONLY TunnelAssumption DEF IDs, NoID
  <1> QED BY <1>1 DEF Inv, Types, ClientTypes, ServerTypes, HandlerType, ReaderType, Undrawn

(* Frames one by one. *)
LEMMA FrameFacts ==
    ASSUME Inv
    PROVE  /\ \A k \in DOMAIN up : /\ up[k].op \in {"connect", "close", "data"}
                                   /\ up[k].op = "connect" => up[k].id = NoID /\ up[k].data \in Conns
                                   /\ up[k].op # "connect" => up[k].id \in IDs /\ up[k].data \in AllData
           /\ \A k \in DOMAIN down : /\ down[k].op \in {"connect", "close", "data"} /\ down[k].id \in IDs
                                     /\ down[k].op = "connect" => down[k].data \in Conns
  <1>1. (\A k \in DOMAIN up : up[k] \in UpFrames) /\ (\A k \in DOMAIN down : down[k] \in DownFrames)
    BY Facts
  <1>2. \A f \in UpFrames : /\ f.op \in {"connect", "close", "data"}
                            /\ f.op = "connect" => f.id = NoID /\ f.data \in Conns
                            /\ f.op # "connect" => f.id \in IDs /\ f.data \in AllData
    BY ONLY TRUE DEF UpFrames, IdentifiedFrames
  <1>3. \A f \in DownFrames : /\ f.op \in {"connect", "close", "data"} /\ f.id \in IDs
                              /\ f.op = "connect" => f.data \in Conns
    BY ONLY TRUE DEF DownFrames
  <1> QED BY ONLY <1>1, <1>2, <1>3

(* What Dial draws. *)
LEMMA DialDraws ==
    ASSUME Inv, NEW conn, Dial(conn), UNCHANGED <<registered, known>>
    PROVE  \E id \in IDs :
              /\ id = Cardinality(Drawn) + 1
              /\ owner[id] = NoConn /\ owner' = [owner EXCEPT ![id] = conn]
              /\ dispatcher' = [at |-> "register", id |-> id]
              /\ \/ /\ target' = [target EXCEPT ![id] = "open"]
                    /\ alive' = alive \cup {id}
                    /\ reader' = [reader EXCEPT ![id] = Idle]
                 \/ UNCHANGED <<target, alive, reader>>
  <1>1. Drawn # IDs
    BY DEF Dial
  <1>2. Cardinality(Drawn) + 1 \in IDs /\ owner[Cardinality(Drawn) + 1] = NoConn
    BY <1>1, NextID DEF Inv
  <1> QED BY <1>2 DEF Dial

(* A linked id stays one, and a closed target stays closed. *)
LEMMA LinkedGrows ==
    ASSUME Inv, ClosedFirst, ServerNext
    PROVE  /\ Linked \subseteq Linked'
           /\ \A i \in IDs : target[i] = "closed" => target'[i] = "closed"
  <1> USE Facts
  <1>1. CASE FromClient
    <2> DEFINE frame == Head(up)
    <2>0. UNCHANGED <<registered, known>>
      BY <1>1 DEF FromClient
    <2>1. CASE frame.op = "connect" /\ Dial(frame.data)
      <3> HIDE DEF frame
      <3>1. PICK id \in IDs :
              /\ owner[id] = NoConn /\ owner' = [owner EXCEPT ![id] = frame.data]
              /\ \/ target' = [target EXCEPT ![id] = "open"]
                 \/ UNCHANGED target
        BY <2>0, <2>1, DialDraws
      <3>2. target[id] # "closed"
        BY <3>1 DEF Inv, Undrawn
      <3> QED BY <2>0, <3>1, <3>2 DEF Linked
    <2>2. CASE UNCHANGED <<owner, target>>
      BY <2>0, <2>2 DEF Linked
    <2> QED BY <1>1, <2>1, <2>2 DEF FromClient
  <1>2. CASE RegisterID \/ RegisterClient \/ Answer
    BY <1>2 DEF RegisterID, RegisterClient, Answer, Linked
  <1>3. CASE Dispatch
    <2>1. UNCHANGED <<owner, registered, known>>
          /\ (target' = target \/ target' = [target EXCEPT ![dispatcher.id] = "closed"])
      BY <1>3 DEF Dispatch
    <2> QED BY <2>1 DEF Linked
  <1>4. CASE Unmap \/ Forget
    <2>1. /\ target[dispatcher.id] = "closed" /\ UNCHANGED <<owner, target>>
          /\ \A i \in IDs : i # dispatcher.id => /\ i \in registered => i \in registered'
                                                 /\ i \in known => i \in known'
      BY <1>4 DEF Unmap, Forget, ClosedFirst
    <2> QED BY <2>1 DEF Linked
  <1>5. ASSUME NEW id \in IDs, TargetData(id) \/ Forward(id)
        PROVE  Linked \subseteq Linked' /\ UNCHANGED target
    BY <1>5 DEF TargetData, Forward, Linked
  <1>6. ASSUME NEW id \in IDs, TargetEnd(id)
        PROVE  /\ Linked \subseteq Linked'
               /\ \A i \in IDs : target[i] = "closed" => target'[i] = "closed"
    BY <1>6 DEF TargetEnd, Linked
  <1>7. ASSUME NEW id \in IDs, EndUnmap(id) \/ EndTell(id)
        PROVE  Linked \subseteq Linked' /\ UNCHANGED target
    <2>1. /\ target[id] = "closed" /\ UNCHANGED <<owner, target>>
          /\ \A i \in IDs : i # id => /\ i \in registered => i \in registered'
                                      /\ i \in known => i \in known'
      BY <1>7 DEF EndUnmap, EndTell, ClosedFirst
    <2> QED BY <2>1 DEF Linked
  <1> QED BY <1>1, <1>2, <1>3, <1>4, <1>5, <1>6, <1>7 DEF ServerNext, ServerReader, TargetReader

(* A frame for a linked id may go up, a frame that was taken is gone. *)
LEMMA UpLinked ==
    ASSUME Inv, HeardOf, Linked \subseteq Linked',
           \/ up' = up
           \/ up # <<>> /\ up' = Tail(up)
           \/ \E f \in UpFrames : up' = Append(up, f) /\ (f.op # "connect" => f.id \in Linked)
    PROVE  \A k \in DOMAIN up' : up'[k].op # "connect" => up'[k].id \in Linked'
  <1>0. up \in Seq(UpFrames) /\ \A k \in DOMAIN up : up[k].op # "connect" => up[k].id \in Linked'
    BY Facts DEF HeardOf
  <1>1. CASE up' = up
    BY <1>0, <1>1
  <1>2. CASE up # <<>> /\ up' = Tail(up)
    BY <1>0, <1>2, Queue
  <1>3. ASSUME NEW f \in UpFrames, up' = Append(up, f), f.op # "connect" => f.id \in Linked
        PROVE  \A k \in DOMAIN up' : up'[k].op # "connect" => up'[k].id \in Linked'
    BY <1>0, <1>3, Queue
  <1> QED BY <1>1, <1>2, <1>3

(* The same for the way down. *)
LEMMA DownLinked ==
    ASSUME Inv, HeardOf, Linked \subseteq Linked',
           \/ down' = down
           \/ down # <<>> /\ down' = Tail(down)
           \/ \E f \in DownFrames : down' = Append(down, f) /\ f.id \in Linked
    PROVE  \A k \in DOMAIN down' : down'[k].id \in Linked'
  <1>0. down \in Seq(DownFrames) /\ \A k \in DOMAIN down : down[k].id \in Linked'
    BY Facts DEF HeardOf
  <1>1. CASE down' = down
    BY <1>0, <1>1
  <1>2. CASE down # <<>> /\ down' = Tail(down)
    BY <1>0, <1>2, Queue
  <1>3. ASSUME NEW f \in DownFrames, down' = Append(down, f), f.id \in Linked
        PROVE  \A k \in DOMAIN down' : down'[k].id \in Linked'
    BY <1>0, <1>3, Queue
  <1> QED BY <1>1, <1>2, <1>3

(* A frame a read function puts on the link is for a linked id. *)
LEMMA HandleLinked ==
    ASSUME Inv, HeardOf, NEW c \in Conns, NEW data \in Data(c), Handle(c, data)
    PROVE  \/ up' = up
           \/ \E f \in UpFrames : up' = Append(up, f) /\ (f.op # "connect" => f.id \in Linked)
  <1> USE Facts
  <1>1. CASE up' = Append(up, ConnectFrame(c, NoID))
    <2>1. ConnectFrame(c, NoID) \in UpFrames /\ ConnectFrame(c, NoID).op = "connect"
      BY DEF ConnectFrame, UpFrames
    <2> QED BY <1>1, <2>1
  <1>2. CASE /\ clientToID[c] # NoID
             /\ up' = Append(up, IF data = Nothing THEN CloseFrame(clientToID[c])
                                 ELSE DataFrame(clientToID[c], data))
    <2> DEFINE f == IF data = Nothing THEN CloseFrame(clientToID[c]) ELSE DataFrame(clientToID[c], data)
    <2>1. data \in AllData /\ Nothing \in AllData
      BY DEF AllData, Data
    <2>2. f \in UpFrames /\ f.id = clientToID[c]
      BY <1>2, <2>1 DEF CloseFrame, DataFrame, UpFrames, IdentifiedFrames
    <2>3. clientToID[c] \in Linked
      BY <1>2 DEF HeardOf
    <2> QED BY <1>2, <2>2, <2>3
  <1> QED BY <1>1, <1>2 DEF Handle

(* The frame of a held-back piece. *)
LEMMA FlushFrame ==
    ASSUME Inv, FlushSend
    PROVE  /\ flusher.conn \in Conns /\ flusher.id \in IDs /\ flusher # Idle
           /\ flusher.at = "send" /\ clientToID[flusher.conn] = flusher.id
           /\ pending[flusher.conn] \in Seq(Data(flusher.conn)) /\ pending[flusher.conn] # <<>>
           /\ DataFrame(flusher.id, Head(pending[flusher.conn])) \in UpFrames
           /\ up' = Append(up, DataFrame(flusher.id, Head(pending[flusher.conn])))
  <1>1. /\ flusher \in Flushers /\ flusher.conn \in Conns /\ flusher.id \in IDs /\ flusher # Idle
        /\ pending[flusher.conn] \in Seq(Data(flusher.conn)) \ {<<>>}
    BY AtRest DEF FlushSend, Inv, Types, ClientTypes, FlusherType, Flushers
  <1>2. Head(pending[flusher.conn]) \in Data(flusher.conn)
    BY <1>1, HeadTailProperties
  <1>3. DataFrame(flusher.id, Head(pending[flusher.conn])) \in UpFrames
    BY <1>1, <1>2 DEF DataFrame, UpFrames, IdentifiedFrames, Data, AllData
  <1> QED BY <1>1, <1>3 DEF FlushSend, Inv, FlushedIsKnown

(* Each step of the client keeps ids linked. *)
LEMMA ClientKeepsLinked ==
    ASSUME Inv, HeardOf, ClosedFirst, ClientNext, UNCHANGED serverVars
    PROVE  HeardOf' /\ ClosedFirst'
  <1> USE Facts
  <1>0. ClosedFirst' /\ Linked' = Linked
        /\ UNCHANGED <<dispatcher, reader>>
    BY DEF ClosedFirst, Linked, serverVars
  <1>1. ASSUME NEW c \in Conns, BrowserData(c) \/ BrowserEnd(c)
        PROVE  HeardOf'
    <2>1. <<c, sent[c] + 1>> \in Data(c) /\ Nothing \in Data(c)
      BY DEF Data
    <2>2. UNCHANGED <<down, clientToID, idToClient>>
      BY <1>1 DEF BrowserData, BrowserEnd
    <2>3. \/ up' = up
          \/ \E f \in UpFrames : up' = Append(up, f) /\ (f.op # "connect" => f.id \in Linked)
      BY <1>1, <2>1, HandleLinked DEF BrowserData, BrowserEnd
    <2>4. \A k \in DOMAIN up' : up'[k].op # "connect" => up'[k].id \in Linked'
      BY <1>0, <2>3, UpLinked
    <2> QED BY <1>0, <2>2, <2>4 DEF HeardOf
  <1>2. CASE FlushSend
    <2>1. clientToID[flusher.conn] \in Linked
      BY <1>2, FlushFrame DEF HeardOf
    <2> DEFINE f == DataFrame(flusher.id, Head(pending[flusher.conn]))
    <2>2. f \in UpFrames /\ f.id \in Linked /\ up' = Append(up, f)
      BY <1>2, <2>1, FlushFrame DEF DataFrame
    <2> HIDE DEF f
    <2>3. \A k \in DOMAIN up' : up'[k].op # "connect" => up'[k].id \in Linked'
      BY <1>0, <2>2, UpLinked
    <2> QED BY <1>0, <1>2, <2>3 DEF FlushSend, HeardOf
  <1>3. CASE FromServer
    <2> DEFINE frame == Head(down)
    <2>1. 1 \in DOMAIN down /\ frame = down[1] /\ frame.id \in Linked /\ frame.id \in IDs
          /\ down # <<>> /\ down' = Tail(down) /\ up' = up
      BY <1>3, Queue, FrameFacts DEF FromServer, HeardOf
    <2>2. \A k \in DOMAIN down' : down'[k].id \in Linked'
      BY <1>0, <2>1, DownLinked
    <2>3. CASE Confirmed(frame)
      <3> HIDE DEF frame
      <3>1. /\ clientToID' = [clientToID EXCEPT ![frame.data] = frame.id]
            /\ idToClient' = [idToClient EXCEPT ![frame.id] = frame.data]
        BY <2>3 DEF Confirmed
      <3> QED BY <1>0, <2>1, <2>2, <3>1 DEF HeardOf
    <2>4. CASE UNCHANGED <<clientToID, idToClient>>
      BY <1>0, <2>1, <2>2, <2>4 DEF HeardOf
    <2> QED BY <1>3, <2>3, <2>4 DEF FromServer, Closed, Replied, Ignored
  <1>4. CASE \/ \E c \in Conns : FetchPending(c) \/ StorePending(c)
             \/ FlushCut \/ FlushSet \/ FlushEnd \/ FlushDelete
    <2>1. UNCHANGED <<up, down, clientToID, idToClient>>
      BY <1>4 DEF FetchPending, StorePending, FlushCut, FlushSet, FlushEnd, FlushDelete, links
    <2> QED BY <1>0, <2>1 DEF HeardOf
  <1> QED BY <1>0, <1>1, <1>2, <1>3, <1>4 DEF ClientNext, ClientReader

(* What the server's step leaves alone in HeardOf. *)
LEMMA ServerHears ==
    ASSUME Inv, HeardOf, Linked \subseteq Linked', UNCHANGED clientVars,
           \A k \in DOMAIN down' : down'[k].id \in Linked',
           \A k \in DOMAIN up' : up'[k].op # "connect" => up'[k].id \in Linked',
           dispatcher'.at \in {"answer", "dispatch"} => dispatcher'.id \in Linked',
           \A i \in IDs : reader'[i].at = "found" => i \in Linked'
    PROVE  HeardOf'
  BY DEF HeardOf, clientVars

(* The first look of a target's read function at the maps. *)
LEMMA CheckLinked ==
    ASSUME Inv, HeardOf, Linked \subseteq Linked', NEW id \in IDs, NEW data, reader[id] = Idle,
           Check(id, data), owner' = owner, registered' = registered, known' = known
    PROVE  \A i \in IDs : reader'[i].at = "found" => i \in Linked'
  <1>1. id \in known \cap registered => id \in Linked'
    <2>1. owner[id] # NoConn
      BY DEF Inv, Undrawn, Idle, Ended
    <2> QED BY <2>1 DEF Linked
  <1>2. \A i \in IDs : reader'[i].at = "found" =>
            (i = id /\ id \in known \cap registered) \/ reader[i].at = "found"
    BY Facts, AtRest DEF Check
  <1> QED BY <1>1, <1>2 DEF HeardOf

(* Each step of the server keeps ids linked. *)
LEMMA ServerKeepsLinked ==
    ASSUME Inv, HeardOf, ClosedFirst, ServerNext, UNCHANGED clientVars
    PROVE  HeardOf' /\ ClosedFirst'
  <1> USE Facts
  <1>0. /\ Linked \subseteq Linked' /\ \A i \in IDs : target[i] = "closed" => target'[i] = "closed"
        /\ \A i \in IDs : reader[i].at = "found" => i \in Linked'
        /\ dispatcher.at \in {"answer", "dispatch"} => dispatcher.id \in Linked'
    BY LinkedGrows DEF HeardOf
  <1>u. ASSUME up' = up PROVE \A k \in DOMAIN up' : up'[k].op # "connect" => up'[k].id \in Linked'
    BY <1>0, <1>u, UpLinked
  <1>d. ASSUME down' = down PROVE \A k \in DOMAIN down' : down'[k].id \in Linked'
    BY <1>0, <1>d, DownLinked
  <1>1. CASE FromClient
    <2> DEFINE frame == Head(up)
    <2>1. /\ UNCHANGED <<registered, known, down>> /\ up # <<>> /\ up' = Tail(up)
          /\ 1 \in DOMAIN up /\ frame = up[1] /\ dispatcher = Idle
      BY <1>1, Queue DEF FromClient
    <2>2. \A k \in DOMAIN up' : up'[k].op # "connect" => up'[k].id \in Linked'
      BY <1>0, <2>1, UpLinked
    <2>3. CASE frame.op = "connect" /\ Dial(frame.data)
      <3> HIDE DEF frame
      <3>1. PICK id \in IDs :
              /\ owner[id] = NoConn /\ owner' = [owner EXCEPT ![id] = frame.data]
              /\ dispatcher' = [at |-> "register", id |-> id]
              /\ \/ /\ target' = [target EXCEPT ![id] = "open"]
                    /\ alive' = alive \cup {id}
                    /\ reader' = [reader EXCEPT ![id] = Idle]
                 \/ UNCHANGED <<target, alive, reader>>
        BY <2>1, <2>3, DialDraws
      <3>2. \A i \in IDs : reader'[i].at = "found" => i \in Linked'
        BY <1>0, <3>1, AtRest
      <3>3. HeardOf'
        BY <1>0, <1>d, <2>1, <2>2, <3>1, <3>2, ServerHears
      <3>4. ClosedFirst'
        BY <2>1, <3>1, AtRest DEF ClosedFirst
      <3> QED BY <3>3, <3>4
    <2>4. CASE /\ frame.id \in registered
               /\ dispatcher' = [at |-> "dispatch", id |-> frame.id, frame |-> frame]
               /\ UNCHANGED <<owner, target, alive, reader>>
      <3>1. frame.id \in Linked
        BY <2>1, <2>4, FrameFacts DEF HeardOf
      <3> HIDE DEF frame
      <3>2. HeardOf'
        BY <1>0, <1>d, <2>1, <2>2, <2>4, <3>1, ServerHears
      <3>3. ClosedFirst'
        BY <2>1, <2>4 DEF ClosedFirst
      <3> QED BY <3>2, <3>3
    <2>5. CASE UNCHANGED <<owner, target, alive, reader, dispatcher>>
      <3>1. HeardOf'
        BY <1>0, <1>d, <2>1, <2>2, <2>5, ServerHears
      <3>2. ClosedFirst'
        BY <2>1, <2>5 DEF ClosedFirst
      <3> QED BY <3>1, <3>2
    <2> QED BY <1>1, <2>3, <2>4, <2>5 DEF FromClient
  <1>2. CASE RegisterID
    <2>1. /\ UNCHANGED <<up, down, target, alive, known, reader, owner>>
          /\ registered' = registered \cup {dispatcher.id}
          /\ dispatcher'.at = "known" /\ dispatcher'.id = dispatcher.id
      BY <1>2, DispatcherMoves DEF RegisterID, links, Inv
    <2>2. HeardOf'
      BY <1>0, <1>u, <1>d, <2>1, ServerHears
    <2>3. ClosedFirst'
      BY <2>1 DEF ClosedFirst
    <2> QED BY <2>2, <2>3
  <1>3. CASE RegisterClient
    <2>1. /\ UNCHANGED <<up, down, target, alive, registered, reader, owner>>
          /\ known' = known \cup {dispatcher.id} /\ dispatcher.at = "known"
          /\ dispatcher'.at = "answer" /\ dispatcher'.id = dispatcher.id /\ dispatcher.id \in IDs
      BY <1>3, DispatcherMoves DEF RegisterClient, links, Inv
    <2>2. dispatcher.id \in Linked'
      <3>1. owner[dispatcher.id] # NoConn
        BY <2>1 DEF Inv, Ownership, DispatcherOwned
      <3> QED BY <2>1, <3>1 DEF ClosedFirst, Linked
    <2>3. HeardOf'
      BY <1>0, <1>u, <1>d, <2>1, <2>2, ServerHears
    <2>4. ClosedFirst'
      BY <2>1 DEF ClosedFirst
    <2> QED BY <2>3, <2>4
  <1>4. CASE Answer
    <2>1. /\ UNCHANGED <<up, target, alive, registered, known, reader, owner>> /\ dispatcher' = Idle
          /\ dispatcher.id \in IDs /\ dispatcher.id \in Linked /\ owner[dispatcher.id] \in Conns
          /\ \/ down' = Append(down, ConnectFrame(owner[dispatcher.id], dispatcher.id))
             \/ down' = down
      BY <1>4, DispatcherAt DEF Answer, HeardOf, Inv, Ownership, DispatcherOwned
    <2>2. \A k \in DOMAIN down' : down'[k].id \in Linked'
      <3> DEFINE f == ConnectFrame(owner[dispatcher.id], dispatcher.id)
      <3>1. f \in DownFrames /\ f.id = dispatcher.id
        BY <2>1 DEF ConnectFrame, DownFrames
      <3> QED BY <1>0, <1>d, <2>1, <3>1, DownLinked
    <2>3. HeardOf'
      BY <1>0, <1>u, <2>1, <2>2, AtRest, ServerHears
    <2>4. ClosedFirst'
      BY <2>1, AtRest DEF ClosedFirst
    <2> QED BY <2>3, <2>4
  <1>5. CASE Dispatch
    <2>1. /\ UNCHANGED <<up, down, alive, registered, known, reader, owner>>
          /\ dispatcher.id \in IDs
          /\ \/ dispatcher' = Idle /\ target' = target
             \/ /\ target' = [target EXCEPT ![dispatcher.id] = "closed"]
                /\ dispatcher' = [at |-> "unmap", id |-> dispatcher.id]
      BY <1>5, DispatcherAt DEF Dispatch, links, Inv
    <2>2. HeardOf'
      BY <1>0, <1>u, <1>d, <2>1, AtRest, ServerHears
    <2>3. ClosedFirst'
      BY <2>1, AtRest DEF ClosedFirst
    <2> QED BY <2>2, <2>3
  <1>6. CASE Unmap
    <2>1. /\ UNCHANGED <<up, down, alive, target, known, reader, owner>>
          /\ dispatcher'.at = "forget" /\ dispatcher'.id = dispatcher.id /\ dispatcher.at = "unmap"
      BY <1>6, DispatcherMoves DEF Unmap, links, Inv
    <2>2. HeardOf'
      BY <1>0, <1>u, <1>d, <2>1, ServerHears
    <2>3. ClosedFirst'
      BY <2>1 DEF ClosedFirst
    <2> QED BY <2>2, <2>3
  <1>7. CASE Forget
    <2>1. /\ UNCHANGED <<up, down, alive, target, registered, reader, owner>> /\ dispatcher' = Idle
      BY <1>7 DEF Forget, links
    <2>2. HeardOf'
      BY <1>0, <1>u, <1>d, <2>1, AtRest, ServerHears
    <2>3. ClosedFirst'
      BY <2>1, AtRest DEF ClosedFirst
    <2> QED BY <2>2, <2>3
  <1>8. ASSUME NEW id \in IDs, TargetData(id)
        PROVE  HeardOf' /\ ClosedFirst'
    <2>1. /\ UNCHANGED <<up, down, alive, target, registered, known, dispatcher, owner>>
          /\ reader[id] = Idle /\ Check(id, <<id, replies[id] + 1>>)
      BY <1>8 DEF TargetData, links
    <2>2. \A i \in IDs : reader'[i].at = "found" => i \in Linked'
      BY <1>0, <2>1, CheckLinked
    <2>3. HeardOf'
      BY <1>0, <1>u, <1>d, <2>1, <2>2, ServerHears
    <2>4. <<id, replies[id] + 1>> # Nothing
      BY TunnelAssumption DEF IDs
    <2>5. ClosedFirst'
      BY <2>1, <2>4, AtRest DEF ClosedFirst, Check
    <2> QED BY <2>3, <2>5
  <1>9. ASSUME NEW id \in IDs, TargetEnd(id)
        PROVE  HeardOf' /\ ClosedFirst'
    <2>1. /\ UNCHANGED <<up, down, registered, known, dispatcher, owner>>
          /\ reader[id] = Idle /\ Check(id, Nothing)
          /\ target' = [target EXCEPT ![id] = "closed"] /\ (\A i \in alive : i # id => i \in alive')
      BY <1>9 DEF TargetEnd, links
    <2>2. \A i \in IDs : reader'[i].at = "found" => i \in Linked'
      BY <1>0, <2>1, CheckLinked
    <2>3. HeardOf'
      BY <1>0, <1>u, <1>d, <2>1, <2>2, ServerHears
    <2>4. ClosedFirst'
      BY <1>0, <2>1, AtRest DEF ClosedFirst, Check
    <2> QED BY <2>3, <2>4
  <1>10. ASSUME NEW id \in IDs, Forward(id)
         PROVE  HeardOf' /\ ClosedFirst'
    <2>1. /\ UNCHANGED <<up, alive, target, registered, known, dispatcher, owner>>
          /\ reader[id].at = "found" /\ id \in Linked
          /\ \/ down' = down
             \/ down' = Append(down, DataFrame(id, reader[id].data))
          /\ reader' = [reader EXCEPT ![id] = IF reader[id].data = Nothing THEN [at |-> "unmap"] ELSE Idle]
      BY <1>10 DEF Forward, HeardOf
    <2>2. \A i \in IDs : reader'[i].at = "found" => reader[i].at = "found"
      BY <2>1, AtRest
    <2>3. \A k \in DOMAIN down' : down'[k].id \in Linked'
      <3>1. reader[id].data \in Reply(id)
        BY <2>1, AtRest DEF Inv, Types, ServerTypes, ReaderType
      <3>2. DataFrame(id, reader[id].data) \in DownFrames /\ DataFrame(id, reader[id].data).id = id
        BY <3>1 DEF DataFrame, DownFrames, Reply, AllReply
      <3> QED BY <1>0, <1>d, <2>1, <3>2, DownLinked
    <2>4. HeardOf'
      BY <1>0, <1>u, <2>1, <2>2, <2>3, ServerHears
    <2>5. ClosedFirst'
      BY <2>1, AtRest DEF ClosedFirst
    <2> QED BY <2>4, <2>5
  <1>11. ASSUME NEW id \in IDs, EndUnmap(id)
         PROVE  HeardOf' /\ ClosedFirst'
    <2>1. /\ UNCHANGED <<up, down, alive, target, known, dispatcher, owner>>
          /\ reader[id].at = "unmap" /\ registered' = registered \ {id}
          /\ reader' = [reader EXCEPT ![id] = [at |-> "tell"]]
      BY <1>11 DEF EndUnmap, links
    <2>2. HeardOf'
      BY <1>0, <1>u, <1>d, <2>1, ServerHears
    <2>3. ClosedFirst'
      BY <2>1 DEF ClosedFirst
    <2> QED BY <2>2, <2>3
  <1>12. ASSUME NEW id \in IDs, EndTell(id)
         PROVE  HeardOf' /\ ClosedFirst'
    <2>1. /\ UNCHANGED <<up, target, registered, dispatcher, owner>>
          /\ reader[id].at = "tell" /\ target[id] = "closed" /\ alive' = alive \ {id}
          /\ reader' = [reader EXCEPT ![id] = Ended]
          /\ down' = down \o <<CloseFrame(id), DataFrame(id, Nothing)>>
      BY <1>12 DEF EndTell, ClosedFirst
    <2>2. id \in Linked
      BY <2>1, AtRest DEF Inv, Undrawn, Linked
    <2>3. \A k \in DOMAIN down' : down'[k].id \in Linked'
      <3> DEFINE two == <<CloseFrame(id), DataFrame(id, Nothing)>>
      <3>1. two \in Seq(DownFrames) /\ \A k \in DOMAIN two : two[k].id = id
        BY DEF CloseFrame, DataFrame, DownFrames, AllReply
      <3> HIDE DEF two
      <3>2. \A k \in DOMAIN down' : \/ k \in DOMAIN down /\ down'[k] = down[k]
                                    \/ \E j \in DOMAIN two : down'[k] = two[j]
        <4>1. down' = down \o two
          BY <2>1 DEF two
        <4> QED BY <3>1, <4>1, ConcatProperties
      <3> QED BY <1>0, <2>2, <3>1, <3>2 DEF HeardOf
    <2>4. HeardOf'
      BY <1>0, <1>u, <2>1, <2>3, AtRest, ServerHears
    <2>5. ClosedFirst'
      BY <2>1, AtRest DEF ClosedFirst
    <2> QED BY <2>4, <2>5
  <1> QED BY <1>1, <1>2, <1>3, <1>4, <1>5, <1>6, <1>7, <1>8, <1>9, <1>10, <1>11, <1>12
          DEF ServerNext, ServerReader, TargetReader

-----------------------------------------------------------------------------
(* Answers and confirmations *)

(* Each step keeps the maps of the client in agreement. *)
LEMMA ConfirmingKept ==
    ASSUME Inv, Confirming, [Next]_vars
    PROVE  Confirming'
  <1> USE Facts
  <1>1. ASSUME UNCHANGED <<clientToID, idToClient, got>>,
               \A c \in waiting' : c \in waiting \/ clientToID[c] = NoID
        PROVE  Confirming'
    BY <1>1 DEF Confirming
  <1>2. ASSUME NEW c \in Conns, BrowserData(c) \/ BrowserEnd(c)
        PROVE  Confirming'
    <2>1. UNCHANGED <<clientToID, idToClient, got>>
      BY <1>2 DEF BrowserData, BrowserEnd
    <2>2. \A d \in waiting' : d \in waiting \/ clientToID[d] = NoID
      BY <1>2 DEF BrowserData, BrowserEnd, Handle
    <2> QED BY <1>1, <2>1, <2>2
  <1>3. CASE FromServer
    <2> DEFINE frame == Head(down)
    <2>1. frame.id \in IDs /\ frame = down[1] /\ 1 \in DOMAIN down
      BY <1>3, Queue, FrameFacts DEF FromServer
    <2>2. CASE Confirmed(frame)
      <3> HIDE DEF frame
      <3>1. /\ frame.data \in waiting /\ waiting' = waiting \ {frame.data} /\ got' = got
            /\ clientToID' = [clientToID EXCEPT ![frame.data] = frame.id]
            /\ idToClient' = [idToClient EXCEPT ![frame.id] = frame.data]
        BY <2>2 DEF Confirmed
      <3>2. clientToID[frame.data] = NoID /\ frame.id # NoID
        BY <2>1, <3>1 DEF Confirming
      <3>3. \A i \in IDs : idToClient'[i] # NoConn => clientToID'[idToClient'[i]] = i
        <4>1. ASSUME NEW i \in IDs, i # frame.id, idToClient[i] # NoConn
              PROVE  clientToID[idToClient[i]] = i /\ idToClient[i] # frame.data /\ idToClient[i] \in Conns
          BY <3>2, <4>1 DEF Confirming
        <4> QED BY <2>1, <3>1, <4>1
      <3> QED BY <2>1, <3>1, <3>2, <3>3 DEF Confirming
    <2>3. CASE Replied(frame)
      <3> HIDE DEF frame
      <3>1. /\ idToClient[frame.id] \in open
            /\ got' = [got EXCEPT ![idToClient[frame.id]] = Append(@, frame.data)]
            /\ UNCHANGED <<waiting, clientToID, idToClient>>
        BY <2>3 DEF Replied
      <3>2. clientToID[idToClient[frame.id]] # NoID
        BY <2>1, <3>1 DEF Confirming
      <3> QED BY <3>1, <3>2 DEF Confirming
    <2>4. CASE UNCHANGED <<waiting, clientToID, idToClient, got>>
      BY <1>1, <2>4
    <2> QED BY <1>3, <2>2, <2>3, <2>4 DEF FromServer, Closed, Ignored
  <1>4. CASE \/ \E c \in Conns : FetchPending(c) \/ StorePending(c)
             \/ FlushSend \/ FlushCut \/ FlushSet \/ FlushEnd \/ FlushDelete
    <2>1. UNCHANGED <<waiting, clientToID, idToClient, got>>
      BY <1>4 DEF FetchPending, StorePending, FlushSend, FlushCut, FlushSet, FlushEnd, FlushDelete
    <2> QED BY <1>1, <2>1
  <1>5. CASE UNCHANGED clientVars
    BY <1>1, <1>5 DEF clientVars
  <1>6. UNCHANGED vars => UNCHANGED clientVars
    BY DEF vars
  <1> QED BY <1>2, <1>3, <1>4, <1>5, <1>6 DEF Next, ClientNext, ClientReader

(* Each step keeps what `answered` may be; it only grows. *)
LEMMA AnsweringKept ==
    ASSUME Inv, Answering, [Next]_vars
    PROVE  Answering' /\ \A i \in IDs : answered[i] <= answered'[i]
  <1> USE Facts
  <1>0. answered \in [IDs -> Int] /\ \A i \in IDs : answered[i] <= replies[i]
    BY DEF Answering
  <1>1. CASE UNCHANGED <<answered, replies>>
    BY <1>0, <1>1 DEF Answering
  <1>2. CASE Answer
    <2>1. replies' = replies /\ dispatcher.id \in IDs
      BY <1>2, DispatcherAt DEF Answer, Inv
    <2>2. CASE answered' = answered
      BY <1>1, <2>1, <2>2
    <2>3. CASE answered' = [answered EXCEPT ![dispatcher.id] = replies[dispatcher.id]]
      BY <1>0, <2>1, <2>3 DEF Answering
    <2> QED BY <1>2, <2>2, <2>3 DEF Answer
  <1>3. ASSUME NEW id \in IDs, TargetData(id)
        PROVE  Answering' /\ \A i \in IDs : answered[i] <= answered'[i]
    <2>1. answered' = answered /\ replies' = [replies EXCEPT ![id] = @ + 1]
      BY <1>3 DEF TargetData
    <2> QED BY <1>0, <2>1 DEF Answering
  <1>4. CASE \/ FromClient \/ RegisterID \/ RegisterClient \/ Dispatch \/ Unmap \/ Forget
             \/ \E id \in IDs : TargetEnd(id) \/ Forward(id) \/ EndUnmap(id) \/ EndTell(id)
    <2>1. UNCHANGED <<answered, replies>>
      BY <1>4 DEF FromClient, RegisterID, RegisterClient, Dispatch, Unmap, Forget, TargetEnd, Forward,
                  EndUnmap, EndTell
    <2> QED BY <1>1, <2>1
  <1>5. UNCHANGED serverVars => UNCHANGED <<answered, replies>>
    BY DEF serverVars
  <1>6. UNCHANGED vars => UNCHANGED serverVars
    BY DEF vars
  <1> QED BY <1>1, <1>2, <1>3, <1>4, <1>5, <1>6 DEF Next, ServerNext, ServerReader, TargetReader

-----------------------------------------------------------------------------
(* Replies *)

(* How many replies were forwarded or dropped. *)
LEMMA ForwardedType ==
    ASSUME Inv, NEW i \in IDs
    PROVE  Forwarded(i) \in Int /\ Forwarded(i) + 1 >= 0 /\ Forwarded(i) <= replies[i]
  BY Facts DEF Forwarded

(* A step of the server keeps the streams of the linked ids if it only adds to them. *)
LEMMA StreamsKept ==
    ASSUME Inv, Inv', HeardOf', Streams, UNCHANGED clientVars,
           Answering, Answering', \A i \in IDs : answered[i] <= answered'[i],
           \A i \in IDs : Forwarded(i) <= Forwarded(i)',
           \A i \in Linked' : \A k \in 0 .. Len(down) : \A first \in 0 .. Forwarded(i) + 1 :
               Stream(down, i, k, first, Forwarded(i)) => Stream(down', i, k, first, Forwarded(i)'),
           \A k \in DOMAIN down : k \in DOMAIN down' /\ down'[k] = down[k],
           \A k \in DOMAIN down' \ DOMAIN down : AnsweredStream(k)'
    PROVE  Streams'
  <1>0. /\ \A i \in IDs : Forwarded(i) \in Int /\ Forwarded(i) + 1 >= 0
        /\ \A i \in IDs : Forwarded(i)' \in Int /\ Forwarded(i)' + 1 >= 0
        /\ UNCHANGED <<open, idToClient, got>>
        /\ \A i \in IDs : answered[i] \in Int /\ answered'[i] \in Int
    <2>1. replies' \in [IDs -> Nat]
      BY DEF Inv, Types, ServerTypes
    <2>2. \A i \in IDs : Forwarded(i)' \in Int /\ Forwarded(i)' + 1 >= 0
      BY <2>1 DEF Forwarded
    <2> QED BY <2>2, ForwardedType DEF clientVars, Answering
  <1>1. ASSUME NEW i \in IDs
        PROVE  \E first \in 0 .. Forwarded(i)' + 1 : ReplyStream(i, first)'
    <2>1. CASE i \in Linked'
      <3>1. PICK first \in 0 .. Forwarded(i) + 1 : ReplyStream(i, first)
        BY DEF Streams
      <3>2. 0 \in 0 .. Len(down)
        BY Facts
      <3>3. Stream(down', i, 0, first, Forwarded(i)')
        BY <2>1, <3>1, <3>2 DEF ReplyStream
      <3>4. first \in 0 .. Forwarded(i)' + 1
        BY <1>0, <3>1
      <3>5. idToClient[i] \in open => LET c == idToClient[i] IN
                IF got[c] = <<>> THEN first <= answered[i] + 1 ELSE first = got[c][Len(got[c])][2] + 1
        BY <3>1 DEF ReplyStream
      <3>6. first <= answered[i] + 1 => first <= answered'[i] + 1
        BY <1>0, <3>1
      <3>7. ReplyStream(i, first)'
        BY <1>0, <3>3, <3>5, <3>6 DEF ReplyStream
      <3> QED BY <3>4, <3>7
    <2>2. CASE i \notin Linked'
      <3>0. PICK last \in Int : last = Forwarded(i)' /\ last + 1 >= 0
        BY <1>0
      <3>1. \A l \in DOMAIN down' : ~Carries(down'[l], i)
        BY <2>2 DEF HeardOf, Carries
      <3>2. last + 1 .. last = {} /\ last + 1 \in 0 .. last + 1
        BY <3>0
      <3>3. Stream(down', i, 0, last + 1, last)
        BY ONLY <3>1, <3>2 DEF Stream
      <3>4. idToClient'[i] \notin open'
        <4>1. idToClient'[i] = NoConn
          BY <2>2 DEF HeardOf
        <4> QED BY <1>0, <4>1, Facts
      <3>5. ReplyStream(i, last + 1)'
        BY <3>0, <3>3, <3>4 DEF ReplyStream
      <3> QED BY <3>0, <3>2, <3>5
    <2> QED BY <2>1, <2>2
  <1>2. ASSUME NEW k \in DOMAIN down, down[k].op = "connect"
        PROVE  AnsweredStream(k)'
    <2>0. PICK i \in IDs : i = down[k].id
      BY FrameFacts
    <2>1. k \in 0 .. Len(down)
      BY Facts
    <2>2. i \in Linked'
      <3>1. k \in DOMAIN down' /\ down'[k].id = i
        BY <2>0
      <3> QED BY <3>1 DEF HeardOf
    <2>3. PICK first \in 0 .. Forwarded(i) + 1 :
              first <= answered[i] + 1 /\ Stream(down, i, k, first, Forwarded(i))
      BY <1>2, <2>0 DEF Streams, AnsweredStream
    <2>4. Stream(down', i, k, first, Forwarded(i)')
      BY <2>1, <2>2, <2>3
    <2>5. first \in 0 .. Forwarded(i)' + 1 /\ first <= answered'[i] + 1
      BY <1>0, <2>1, <2>3
    <2>6. down'[k].id = i
      BY <2>0
    <2> QED BY <2>4, <2>5, <2>6 DEF AnsweredStream
  <1>3. \A k \in DOMAIN down' : AnsweredStream(k)'
    <2> TAKE k \in DOMAIN down'
    <2>1. CASE k \in DOMAIN down /\ down[k].op = "connect"
      BY <1>2, <2>1
    <2>2. CASE k \in DOMAIN down /\ down[k].op # "connect"
      <3>1. down'[k].op # "connect"
        BY <2>2
      <3> QED BY <3>1 DEF AnsweredStream
    <2> QED BY <2>1, <2>2
  <1> QED BY <1>1, <1>3 DEF Streams

(* A frame that carries nothing extends every stream as it is. *)
LEMMA StreamsPass ==
    ASSUME Inv, NEW f \in DownFrames, NEW g \in DownFrames,
           \A i \in IDs : ~Carries(f, i) /\ ~Carries(g, i)
    PROVE  \A i \in IDs : \A k \in 0 .. Len(down) : \A first \in Int, last \in Int :
               Stream(down, i, k, first, last) =>
                  /\ Stream(Append(down, f), i, k, first, last)
                  /\ Stream(Append(Append(down, f), g), i, k, first, last)
  <1> TAKE i \in IDs
  <1> TAKE k \in 0 .. Len(down)
  <1> TAKE first \in Int, last \in Int
  <1> HAVE Stream(down, i, k, first, last)
  <1>0. down \in Seq(DownFrames)
    BY Facts
  <1>1. Stream(Append(down, f), i, k, first, last)
    BY <1>0, StreamOther
  <1>2. Append(down, f) \in Seq(DownFrames) /\ k \in 0 .. Len(Append(down, f))
    BY <1>0
  <1>3. Stream(Append(Append(down, f), g), i, k, first, last)
    BY <1>1, <1>2, StreamOther
  <1> QED BY <1>1, <1>3

(* The step of a server that sends an answer. *)
LEMMA AnswerReplies ==
    ASSUME Inv, Inv', HeardOf', Answering, Answering', \A i \in IDs : answered[i] <= answered'[i],
           Streams, Answer, ~panicked', UNCHANGED clientVars
    PROVE  Streams'
  <1> USE Facts
  <1>1. PICK id \in IDs, c \in Conns : id = dispatcher.id /\ c = owner[id]
    BY DispatcherAt DEF Answer, Inv, Ownership, DispatcherOwned
  <1>2. /\ down' = Append(down, ConnectFrame(c, id)) /\ UNCHANGED <<reader, replies>>
        /\ answered' = [answered EXCEPT ![id] = replies[id]]
    BY <1>1 DEF Answer
  <1>3. ConnectFrame(c, id) \in DownFrames /\ ConnectFrame(c, id).op = "connect" /\ ConnectFrame(c, id).id = id
    BY DEF ConnectFrame, DownFrames
  <1>f. PICK f \in DownFrames : f = ConnectFrame(c, id)
    BY <1>3
  <1>4. \A i \in IDs : ~Carries(f, i)
    BY <1>3, <1>f DEF Carries
  <1>5. \A i \in IDs : Forwarded(i)' = Forwarded(i) /\ Forwarded(i) \in Int
    BY <1>2, ForwardedType DEF Forwarded, Holding
  <1>6. ASSUME NEW i \in Linked', NEW k \in 0 .. Len(down), NEW first \in 0 .. Forwarded(i) + 1,
               Stream(down, i, k, first, Forwarded(i))
        PROVE  Stream(down', i, k, first, Forwarded(i)')
    <2>1. i \in IDs /\ first \in Int /\ Forwarded(i) \in Int /\ Forwarded(i)' = Forwarded(i)
      BY <1>5 DEF Linked
    <2>2. Stream(Append(down, f), i, k, first, Forwarded(i))
      BY <1>4, <1>6, <2>1, StreamsPass
    <2> QED BY <1>2, <1>f, <2>1, <2>2
  <1>n. PICK n \in Nat : n = Len(down) + 1
    OBVIOUS
  <1>7. /\ DOMAIN down' = DOMAIN down \cup {n} /\ down'[n] = f
        /\ \A k \in DOMAIN down : k \in DOMAIN down' /\ down'[k] = down[k]
        /\ Len(down') = n /\ down' \in Seq(DownFrames)
    BY <1>2, <1>f, <1>n
  <1>8. AnsweredStream(n)'
    <2>0. PICK last \in Int : last = Forwarded(id)
      BY <1>5
    <2>1. Stream(down', id, n, last + 1, last)
      <3>1. last + 1 \in Int /\ last + 1 > last
        BY <2>0
      <3>2. Stream(down', id, Len(down'), last + 1, last)
        BY ONLY <1>7, <2>0, <3>1, StreamEnd
      <3> QED BY <1>7, <3>2
    <2>2. last + 1 \in 0 .. last + 1 /\ last <= replies[id]
      BY <2>0, ForwardedType
    <2>3. answered'[id] = replies[id] /\ replies[id] \in Nat
      BY <1>2 DEF Answering
    <2>4. last + 1 <= answered'[id] + 1
      BY <2>2, <2>3
    <2>5. Forwarded(id)' = last
      BY <1>5, <2>0
    <2>6. \E first \in 0 .. last + 1 : first <= answered'[id] + 1 /\ Stream(down', id, n, first, last)
      BY <2>1, <2>2, <2>4
    <2>7. down'[n].id = id
      BY <1>3, <1>7, <1>f
    <2> QED BY <2>5, <2>6, <2>7 DEF AnsweredStream
  <1>9. \A k \in DOMAIN down' \ DOMAIN down : AnsweredStream(k)'
    BY <1>7, <1>8
  <1>10. \A i \in IDs : Forwarded(i) <= Forwarded(i)'
    BY <1>5
  <1> QED BY <1>6, <1>7, <1>9, <1>10, StreamsKept

(* Each step of the server adds to the streams of the linked ids, or leaves them alone. *)
LEMMA ServerKeepsReplying ==
    ASSUME Inv, Inv', HeardOf, HeardOf', Answering, Answering', \A i \in IDs : answered[i] <= answered'[i],
           Replying, ~panicked, ServerNext, UNCHANGED clientVars
    PROVE  Replying'
  <1> USE Facts
  <1>0. Streams /\ \A i \in IDs : Holding(i) => reader[i].data = <<i, replies[i]>>
    BY DEF Replying
  <1>1. ASSUME down' = down,
               \A i \in Linked' : Forwarded(i)' = Forwarded(i),
               \A i \in IDs : Forwarded(i) <= Forwarded(i)'
        PROVE  Streams'
    <2>1. \A k \in DOMAIN down : k \in DOMAIN down' /\ down'[k] = down[k]
      BY <1>1
    <2>2. \A i \in Linked' : \A k \in 0 .. Len(down) : \A first \in 0 .. Forwarded(i) + 1 :
              Stream(down, i, k, first, Forwarded(i)) => Stream(down', i, k, first, Forwarded(i)')
      BY <1>1
    <2>3. DOMAIN down' \ DOMAIN down = {}
      BY <1>1
    <2> QED BY <1>0, <1>1, <2>1, <2>2, <2>3, StreamsKept
  <1>2. ASSUME down' = down, replies' = replies, \A i \in IDs : Holding(i)' <=> Holding(i),
               \A i \in IDs : Holding(i) => reader'[i] = reader[i]
        PROVE  Replying'
    <2>1. \A i \in IDs : Forwarded(i)' = Forwarded(i) /\ Forwarded(i) \in Int
      BY <1>2, ForwardedType DEF Forwarded
    <2>2. Streams'
      BY <1>1, <1>2, <2>1 DEF Linked
    <2> QED BY <1>0, <1>2, <2>2 DEF Replying
  <1>3. CASE UNCHANGED <<down, replies, reader>>
    BY <1>2, <1>3 DEF Holding
  <1>4. CASE FromClient
    <2> DEFINE frame == Head(up)
    <2>1. UNCHANGED <<registered, known, down, replies>>
      BY <1>4 DEF FromClient
    <2>2. CASE frame.op = "connect" /\ Dial(frame.data)
      <3> HIDE DEF frame
      <3>1. PICK id \in IDs : /\ owner[id] = NoConn
                              /\ reader' = [reader EXCEPT ![id] = Idle] \/ reader' = reader
        BY <2>1, <2>2, DialDraws
      <3>2. reader[id] = Ended
        BY <3>1 DEF Inv, Undrawn
      <3> QED BY <1>2, <2>1, <3>1, <3>2, AtRest DEF Holding
    <2>3. CASE reader' = reader
      BY <1>3, <2>1, <2>3
    <2> QED BY <1>4, <2>2, <2>3 DEF FromClient
  <1>5. CASE Answer
    <2>1. UNCHANGED <<reader, replies>>
      BY <1>5 DEF Answer
    <2>2. ~panicked' => Streams'
      BY <1>0, <1>5, AnswerReplies
    <2>3. \A i \in IDs : Holding(i)' => reader'[i].data = <<i, replies'[i]>>
      BY <1>0, <2>1 DEF Holding
    <2> QED BY <2>2, <2>3 DEF Replying
  <1>6. ASSUME NEW id \in IDs, TargetData(id)
        PROVE  Replying'
    <2>1. /\ UNCHANGED <<down, owner, registered, known, target>> /\ replies' = [replies EXCEPT ![id] = @ + 1]
          /\ reader[id] = Idle /\ target[id] = "open" /\ Check(id, <<id, replies[id] + 1>>)
      BY <1>6 DEF TargetData, links
    <2>2. <<id, replies[id] + 1>> # Nothing
      BY TunnelAssumption DEF IDs
    <2>3. Forwarded(id) = replies[id] /\ \A i \in IDs : Forwarded(i) \in Int
      BY <2>1, AtRest, ForwardedType DEF Forwarded, Holding
    <2>4. \A i \in IDs : i # id => /\ reader'[i] = reader[i] /\ replies'[i] = replies[i]
                                   /\ Forwarded(i)' = Forwarded(i)
      BY <2>1 DEF Check, Forwarded, Holding
    <2>5. CASE id \in known \cap registered
      <3>1. reader'[id] = [at |-> "found", data |-> <<id, replies'[id]>>]
        BY <2>1, <2>5 DEF Check
      <3>2. Forwarded(id)' = Forwarded(id)
        <4>1. Holding(id)' /\ replies'[id] = replies[id] + 1
          BY <2>1, <2>2, <3>1 DEF Holding
        <4> QED BY <2>3, <4>1 DEF Forwarded
      <3>3. Streams'
        <4>1. \A i \in IDs : Forwarded(i)' = Forwarded(i) /\ Forwarded(i) \in Int
          BY <2>3, <2>4, <3>2
        <4>2. \A i \in IDs : Forwarded(i) <= Forwarded(i)'
          BY <4>1
        <4>3. \A i \in Linked' : Forwarded(i)' = Forwarded(i)
          BY <4>1 DEF Linked
        <4> QED BY <1>1, <2>1, <4>2, <4>3
      <3>4. \A i \in IDs : Holding(i)' => reader'[i].data = <<i, replies'[i]>>
        <4>1. reader'[id].data = <<id, replies'[id]>>
          BY <3>1
        <4>2. ASSUME NEW i \in IDs, i # id, Holding(i)' PROVE reader'[i].data = <<i, replies'[i]>>
          <5>1. Holding(i)
            BY <2>4, <4>2 DEF Holding
          <5> QED BY <1>0, <2>4, <4>2, <5>1
        <4> QED BY <4>1, <4>2
      <3> QED BY <3>3, <3>4 DEF Replying
    <2>6. CASE id \notin known \cap registered
      <3>1. reader'[id] = Idle
        BY <2>1, <2>2, <2>6 DEF Check
      <3>2. Forwarded(id)' = replies[id] + 1
        BY <2>1, <3>1, AtRest DEF Forwarded, Holding
      <3>3. id \notin Linked'
        BY <2>1, <2>6 DEF Linked
      <3>4. \A i \in IDs : Forwarded(i) <= Forwarded(i)'
        <4>1. Forwarded(id) <= Forwarded(id)' /\ \A i \in IDs : Forwarded(i) <= Forwarded(i)
          BY <2>3, <3>2
        <4> QED BY <2>4, <4>1
      <3>5. Streams'
        BY <1>1, <2>1, <2>4, <3>3, <3>4 DEF Linked
      <3>6. \A i \in IDs : Holding(i)' => reader'[i].data = <<i, replies'[i]>>
        BY <1>0, <2>4, <3>1, AtRest DEF Holding
      <3> QED BY <3>5, <3>6 DEF Replying
    <2> QED BY <2>5, <2>6
  <1>7. ASSUME NEW id \in IDs, TargetEnd(id)
        PROVE  Replying'
    <2>1. UNCHANGED <<down, replies>> /\ reader[id] = Idle /\ Check(id, Nothing)
      BY <1>7 DEF TargetEnd, links
    <2>2. ~Holding(id) /\ ~Holding(id)'
      BY <2>1, AtRest DEF Holding, Check
    <2>3. \A i \in IDs : i # id => reader'[i] = reader[i]
      BY <2>1 DEF Check
    <2> QED BY <1>2, <2>1, <2>2, <2>3 DEF Holding
  <1>8. ASSUME NEW id \in IDs, EndUnmap(id)
        PROVE  Replying'
    <2>1. UNCHANGED <<down, replies>> /\ reader[id].at = "unmap"
          /\ reader' = [reader EXCEPT ![id] = [at |-> "tell"]]
      BY <1>8 DEF EndUnmap, links
    <2> QED BY <1>2, <2>1 DEF Holding
  <1>9. ASSUME NEW id \in IDs, Forward(id)
        PROVE  Replying'
    <2> DEFINE data == reader[id].data
               found == id \in known \cap registered
    <2>1. /\ UNCHANGED <<answered, replies>> /\ reader[id].at = "found" /\ panicked' = ~found
          /\ down' = IF found /\ data # Nothing THEN Append(down, DataFrame(id, data)) ELSE down
          /\ reader' = [reader EXCEPT ![id] = IF data = Nothing THEN [at |-> "unmap"] ELSE Idle]
      BY <1>9 DEF Forward
    <2>2. CASE data = Nothing
      <3>1. down' = down /\ ~Holding(id) /\ ~Holding(id)' /\ \A i \in IDs : i # id => reader'[i] = reader[i]
        BY <2>1, <2>2 DEF Holding
      <3> QED BY <1>2, <2>1, <3>1 DEF Holding
    <2>3. CASE data # Nothing
      <3>1. Holding(id) /\ data = <<id, replies[id]>> /\ reader'[id] = Idle
            /\ \A i \in IDs : i # id => reader'[i] = reader[i]
        BY <1>0, <2>1, <2>3 DEF Holding
      <3>2. \A i \in IDs : Holding(i)' => reader'[i].data = <<i, replies'[i]>>
        BY <1>0, <2>1, <3>1, AtRest DEF Holding
      <3>3. ASSUME ~panicked' PROVE Streams'
        <4>1. found /\ down' = Append(down, DataFrame(id, data))
          BY <2>1, <2>3, <3>3
        <4>f. PICK f \in DownFrames : f = DataFrame(id, data)
          <5>1. data \in Reply(id)
            BY <2>1, AtRest DEF Inv, Types, ServerTypes, ReaderType
          <5> QED BY <5>1 DEF DataFrame, DownFrames, Reply, AllReply
        <4> HIDE DEF found, data
        <4>2. f.op = "data" /\ f.id = id /\ Carries(f, id) /\ Number(f) = replies[id]
          BY <2>3, <3>1, <4>f DEF DataFrame, Carries, Number
        <4>3. \A i \in IDs : i # id => ~Carries(f, i) /\ Forwarded(i)' = Forwarded(i)
          BY <2>1, <3>1, <4>2 DEF Carries, Forwarded, Holding
        <4>4. Forwarded(id) = replies[id] - 1 /\ Forwarded(id)' = replies[id] /\ replies[id] \in Nat
          BY <2>1, <3>1, AtRest DEF Forwarded, Holding
        <4>5. ASSUME NEW i \in Linked', NEW k \in 0 .. Len(down), NEW first \in 0 .. Forwarded(i) + 1,
                     Stream(down, i, k, first, Forwarded(i))
              PROVE  Stream(down', i, k, first, Forwarded(i)')
          <5>1. i \in IDs /\ first \in Int /\ Forwarded(i) \in Int
            BY ForwardedType DEF Linked
          <5>2. CASE i = id
            <6>0. PICK last \in Int : last = Forwarded(i)
              BY <5>1
            <6>1. first <= last + 1 /\ Number(f) = last + 1 /\ Carries(f, i)
              BY <4>2, <4>4, <4>5, <5>2, <6>0
            <6>2. Stream(Append(down, f), i, k, first, last + 1)
              BY <4>5, <5>1, <6>0, <6>1, StreamNext
            <6>3. Forwarded(i)' = last + 1
              BY <4>4, <5>2, <6>0
            <6> QED BY <4>1, <4>f, <6>2, <6>3
          <5>3. CASE i # id
            <6>1. Stream(Append(down, f), i, k, first, Forwarded(i))
              BY <4>3, <4>5, <5>1, <5>3, StreamOther
            <6> QED BY <4>1, <4>3, <4>f, <5>1, <5>3, <6>1
          <5> QED BY <5>2, <5>3
        <4>n. PICK n \in Nat : n = Len(down) + 1
          OBVIOUS
        <4>6. /\ DOMAIN down' = DOMAIN down \cup {n} /\ down'[n] = f
              /\ \A k \in DOMAIN down : k \in DOMAIN down' /\ down'[k] = down[k]
          BY <4>1, <4>f, <4>n
        <4>7. \A k \in DOMAIN down' \ DOMAIN down : AnsweredStream(k)'
          <5>1. \A k \in DOMAIN down' \ DOMAIN down : down'[k].op # "connect"
            BY <4>2, <4>6
          <5> QED BY <5>1 DEF AnsweredStream
        <4>8. \A i \in IDs : Forwarded(i) <= Forwarded(i)'
          <5>1. Forwarded(id) <= Forwarded(id)' /\ \A i \in IDs : Forwarded(i) <= Forwarded(i)
            BY <4>4, ForwardedType
          <5> QED BY <4>3, <5>1
        <4> QED BY <1>0, <4>5, <4>6, <4>7, <4>8, StreamsKept
      <3> QED BY <3>2, <3>3 DEF Replying
    <2> QED BY <2>2, <2>3
  <1>10. ASSUME NEW id \in IDs, EndTell(id)
         PROVE  Replying'
    <2>1. /\ UNCHANGED <<answered, replies>> /\ reader[id].at = "tell"
          /\ down' = down \o <<CloseFrame(id), DataFrame(id, Nothing)>>
          /\ reader' = [reader EXCEPT ![id] = Ended]
      BY <1>10 DEF EndTell
    <2>2. \A i \in IDs : Forwarded(i)' = Forwarded(i) /\ Forwarded(i) \in Int
      BY <2>1, AtRest, ForwardedType DEF Forwarded, Holding
    <2>3. \A i \in IDs : Holding(i)' => reader'[i].data = <<i, replies'[i]>>
      BY <1>0, <2>1, AtRest DEF Holding
    <2>f. PICK f \in DownFrames, g \in DownFrames : f = CloseFrame(id) /\ g = DataFrame(id, Nothing)
      BY DEF CloseFrame, DataFrame, DownFrames, AllReply
    <2>4. f.op = "close" /\ g.op = "data" /\ g.data = Nothing
      BY <2>f DEF CloseFrame, DataFrame
    <2>5. down' = Append(Append(down, f), g)
      <3>1. down' = down \o <<f, g>> /\ down \in Seq(DownFrames)
        BY <2>1, <2>f
      <3> QED BY <3>1
    <2>6. \A i \in IDs : ~Carries(f, i) /\ ~Carries(g, i)
      BY <2>4 DEF Carries
    <2>7. ASSUME NEW i \in Linked', NEW k \in 0 .. Len(down), NEW first \in 0 .. Forwarded(i) + 1,
                 Stream(down, i, k, first, Forwarded(i))
          PROVE  Stream(down', i, k, first, Forwarded(i)')
      <3>1. i \in IDs /\ first \in Int /\ Forwarded(i) \in Int /\ Forwarded(i)' = Forwarded(i)
        BY <2>2 DEF Linked
      <3>2. Stream(Append(Append(down, f), g), i, k, first, Forwarded(i))
        BY <2>6, <2>7, <3>1, StreamsPass
      <3> QED BY <2>5, <3>1, <3>2
    <2>8. /\ \A k \in DOMAIN down : k \in DOMAIN down' /\ down'[k] = down[k]
          /\ \A k \in DOMAIN down' \ DOMAIN down : down'[k] \in {f, g}
      BY <2>5
    <2>9. \A k \in DOMAIN down' \ DOMAIN down : AnsweredStream(k)'
      <3>1. \A k \in DOMAIN down' \ DOMAIN down : down'[k].op # "connect"
        BY <2>4, <2>8
      <3> QED BY <3>1 DEF AnsweredStream
    <2>10. \A i \in IDs : Forwarded(i) <= Forwarded(i)'
      BY <2>2
    <2>11. Streams'
      BY <1>0, <2>7, <2>8, <2>9, <2>10, StreamsKept
    <2> QED BY <2>3, <2>11 DEF Replying
  <1>11. CASE RegisterID \/ RegisterClient \/ Dispatch \/ Unmap \/ Forget
    BY <1>3, <1>11 DEF RegisterID, RegisterClient, Dispatch, Unmap, Forget, links
  <1> QED BY <1>3, <1>4, <1>5, <1>6, <1>7, <1>8, <1>9, <1>10, <1>11
          DEF ServerNext, ServerReader, TargetReader

(* What was put last on a list. *)
LEMMA LastAppended ==
    ASSUME NEW S, NEW q \in Seq(S), NEW e \in S
    PROVE  Append(q, e) # <<>> /\ Append(q, e)[Len(Append(q, e))] = e
  OBVIOUS

(* One more number on a list of successive ones. *)
LEMMA OneMore ==
    ASSUME NEW S, NEW q \in Seq(S), NEW e \in S, NEW i, NEW first \in Int, e = <<i, first + Len(q)>>,
           q = [n \in 1 .. Len(q) |-> <<i, first + n - 1>>]
    PROVE  Append(q, e) = [n \in 1 .. Len(Append(q, e)) |-> <<i, first + n - 1>>]
  <1> DEFINE r == Append(q, e)
             s == [n \in 1 .. Len(q) + 1 |-> <<i, first + n - 1>>]
  <1>1. /\ r \in Seq(S) /\ Len(r) = Len(q) + 1 /\ Len(q) \in Nat
        /\ \A n \in 1 .. Len(q) : r[n] = q[n]
        /\ r[Len(q) + 1] = e
    OBVIOUS
  <1>2. \A n \in 1 .. Len(q) : q[n] = <<i, first + n - 1>>
    OBVIOUS
  <1>3. \A n \in 1 .. Len(q) + 1 : r[n] = <<i, first + n - 1>>
    <2> TAKE n \in 1 .. Len(q) + 1
    <2>1. n \in 1 .. Len(q) \/ n = Len(q) + 1
      BY <1>1
    <2>2. first + (Len(q) + 1) - 1 = first + Len(q)
      BY <1>1
    <2> QED BY <1>1, <1>2, <2>1, <2>2
  <1>4. r = [n \in 1 .. Len(q) + 1 |-> r[n]]
    BY <1>1
  <1> QED BY <1>1, <1>3, <1>4

(* A step of the client that takes nothing off the link, or a frame that tells it nothing *)
(* about replies.                                                                         *)
LEMMA ReplyStreamKept ==
    ASSUME Inv, NEW i \in IDs, NEW first \in Int, ReplyStream(i, first), UNCHANGED serverVars,
           \/ down' = down
           \/ down # <<>> /\ down' = Tail(down) /\ ~Carries(Head(down), i),
           idToClient'[i] = idToClient[i], open' \subseteq open,
           idToClient[i] \in open => got'[idToClient[i]] = got[idToClient[i]]
    PROVE  ReplyStream(i, first)'
  <1>1. Forwarded(i)' = Forwarded(i) /\ Forwarded(i) \in Int /\ answered' = answered
    BY ForwardedType DEF serverVars, Forwarded, Holding
  <1>2. Stream(down', i, 0, first, Forwarded(i))
    <2>1. Stream(down, i, 0, first, Forwarded(i)) /\ down \in Seq(DownFrames)
      BY Facts DEF ReplyStream
    <2>2. CASE down # <<>> /\ down' = Tail(down) /\ ~Carries(Head(down), i)
      BY <1>1, <2>1, <2>2, StreamSkips
    <2> QED BY <2>1, <2>2
  <1> QED BY <1>1, <1>2 DEF ReplyStream

(* Each step of the client takes the next reply of a stream, or leaves it alone. *)
LEMMA ClientKeepsReplying ==
    ASSUME Inv, Confirming, Answering, Replying, RepliesKept, ~panicked, ClientNext,
           UNCHANGED serverVars
    PROVE  Replying' /\ RepliesKept'
  <1> USE Facts
  <1>0. /\ UNCHANGED <<answered, reader, replies, panicked>> /\ Streams
        /\ \A i \in IDs : Forwarded(i)' = Forwarded(i) /\ Forwarded(i) \in Int
        /\ \A i \in IDs : Holding(i)' => reader'[i].data = <<i, replies'[i]>>
    BY ForwardedType DEF serverVars, Forwarded, Holding, Replying
  <1>1. CASE UNCHANGED <<down, idToClient, got>> /\ open' \subseteq open
    <2>1. ASSUME NEW i \in IDs
          PROVE  \E first \in 0 .. Forwarded(i)' + 1 : ReplyStream(i, first)'
      <3>1. PICK first \in 0 .. Forwarded(i) + 1 : ReplyStream(i, first)
        BY <1>0 DEF Streams
      <3>2. ReplyStream(i, first)'
        BY <1>1, <3>1, ReplyStreamKept
      <3> QED BY <1>0, <3>1, <3>2
    <2>2. \A k \in DOMAIN down' : AnsweredStream(k)'
      <3>1. ASSUME NEW k \in DOMAIN down PROVE AnsweredStream(k)'
        <4>1. AnsweredStream(k) /\ down[k].id \in IDs
          BY <1>0, FrameFacts DEF Streams
        <4> QED BY <1>0, <1>1, <4>1 DEF AnsweredStream
      <3> QED BY <1>1, <3>1
    <2>3. RepliesKept'
      BY <1>0, <1>1 DEF RepliesKept
    <2> QED BY <1>0, <2>1, <2>2, <2>3 DEF Replying, Streams
  <1>2. CASE FromServer
    <2> DEFINE frame == Head(down)
    <2>1. /\ down # <<>> /\ down' = Tail(down) /\ 1 \in DOMAIN down /\ frame = down[1]
          /\ frame.id \in IDs /\ frame.op \in {"connect", "close", "data"}
          /\ Confirmed(frame) \/ Closed(frame) \/ Replied(frame) \/ Ignored(frame)
          /\ frame.op # "connect" => frame.data \in Reply(frame.id)
      BY <1>2, Queue, FrameFacts DEF FromServer, Inv, Ownership, DownOwned
    <2> HIDE DEF frame
    <2>2. ASSUME NEW k \in DOMAIN down' PROVE AnsweredStream(k)'
      <3>1. k \in Nat /\ k + 1 \in DOMAIN down /\ down'[k] = down[k + 1]
        BY <2>1, Queue
      <3>2. AnsweredStream(k + 1)
        BY <1>0, <3>1 DEF Streams
      <3>3. SUFFICES ASSUME down'[k].op = "connect" PROVE AnsweredStream(k)'
        BY DEF AnsweredStream
      <3>4. PICK i \in IDs : i = down[k + 1].id
        BY <3>1, FrameFacts
      <3>5. PICK first \in 0 .. Forwarded(i) + 1 :
                first <= answered[i] + 1 /\ Stream(down, i, k + 1, first, Forwarded(i))
        BY <3>1, <3>2, <3>3, <3>4 DEF AnsweredStream
      <3>6. Stream(down', i, k, first, Forwarded(i))
        BY <1>0, <2>1, <3>1, <3>5, StreamMoves
      <3>7. down'[k].id = i /\ Forwarded(i)' = Forwarded(i) /\ answered' = answered
        BY <1>0, <3>1, <3>4
      <3>8. \E n \in 0 .. Forwarded(i)' + 1 : n <= answered'[i] + 1 /\ Stream(down', i, k, n, Forwarded(i)')
        BY <3>5, <3>6, <3>7
      <3> QED BY <3>7, <3>8 DEF AnsweredStream
    <2>3. ASSUME NEW i \in IDs, Carries(frame, i)
          PROVE  /\ \E first \in 0 .. Forwarded(i)' + 1 : ReplyStream(i, first)'
                 /\ frame.id = i /\ frame.data[1] = i
                 /\ idToClient[i] \in open =>
                       /\ Replied(frame) /\ frame.data[2] \in Nat
                       /\ LET c == idToClient[i] IN
                          IF got[c] = <<>> THEN frame.data[2] <= answered[i] + 1
                          ELSE frame.data[2] = got[c][Len(got[c])][2] + 1
      <3>1. PICK first \in 0 .. Forwarded(i) + 1 : ReplyStream(i, first)
        BY <1>0 DEF Streams
      <3>2. PICK last \in Int : last = Forwarded(i)
        BY <1>0
      <3>3. frame.data[2] = first /\ first <= last /\ Stream(down', i, 0, first + 1, last)
        BY <2>1, <2>3, <3>1, <3>2, StreamTakes DEF ReplyStream, Number, frame
      <3>4. frame.id = i /\ frame.op = "data" /\ frame.data # Nothing /\ frame.data \in {i} \X Nat
        BY <2>1, <2>3 DEF Carries, Reply
      <3>5. first + 1 \in 0 .. last + 1 /\ frame.data[1] = i /\ frame.data[2] \in Nat
        BY <3>1, <3>2, <3>3, <3>4
      <3>6. Replied(frame) \/ Ignored(frame)
        BY <2>1, <3>4 DEF Confirmed, Closed
      <3>7. UNCHANGED <<open, idToClient>>
        BY <3>6 DEF Replied, Ignored
      <3>8. CASE idToClient[i] \in open
        <4> DEFINE c == idToClient[i]
        <4>1. Replied(frame)
          BY <3>4, <3>6, <3>8 DEF Ignored
        <4>2. c \in Conns /\ got' = [got EXCEPT ![c] = Append(@, frame.data)] /\ got[c] \in Seq(IDs \X Nat)
              /\ frame.data \in IDs \X Nat
          BY <3>4, <3>8, <4>1 DEF Replied
        <4>3. got'[c] # <<>> /\ got'[c][Len(got'[c])] = frame.data
          <5>1. PICK q \in Seq(IDs \X Nat) : q = got[c]
            BY <4>2
          <5>2. PICK e \in IDs \X Nat : e = frame.data
            BY <4>2
          <5>3. got'[c] = Append(q, e)
            BY <4>2, <5>1, <5>2
          <5>4. Append(q, e) # <<>> /\ Append(q, e)[Len(Append(q, e))] = e
            BY ONLY q \in Seq(IDs \X Nat), e \in IDs \X Nat, LastAppended
          <5> QED BY <5>2, <5>3, <5>4
        <4>4. IF got[c] = <<>> THEN first <= answered[i] + 1 ELSE first = got[c][Len(got[c])][2] + 1
          BY <3>1, <3>8 DEF ReplyStream
        <4>5. ReplyStream(i, first + 1)'
          BY <1>0, <3>2, <3>3, <3>7, <4>3 DEF ReplyStream
        <4> QED BY <1>0, <3>2, <3>3, <3>4, <3>5, <4>1, <4>4, <4>5
      <3>9. CASE idToClient[i] \notin open
        <4>1. ReplyStream(i, first + 1)'
          BY <1>0, <3>2, <3>3, <3>7, <3>9 DEF ReplyStream
        <4> QED BY <1>0, <3>2, <3>4, <3>5, <3>9, <4>1
      <3> QED BY <3>8, <3>9
    <2>4. ASSUME NEW i \in IDs, ~Carries(frame, i)
          PROVE  \E first \in 0 .. Forwarded(i)' + 1 : ReplyStream(i, first)'
      <3>1. PICK first \in 0 .. Forwarded(i) + 1 : ReplyStream(i, first)
        BY <1>0 DEF Streams
      <3>0. ~Carries(Head(down), i)
        BY <2>4 DEF frame
      <3>2. ASSUME idToClient'[i] = idToClient[i], open' \subseteq open,
                   idToClient[i] \in open => got'[idToClient[i]] = got[idToClient[i]]
            PROVE  \E n \in 0 .. Forwarded(i)' + 1 : ReplyStream(i, n)'
        <4>1. ReplyStream(i, first)'
          BY <2>1, <3>0, <3>1, <3>2, ReplyStreamKept
        <4> QED BY <1>0, <3>1, <4>1
      <3>3. CASE Confirmed(frame)
        <4>1. /\ frame.op = "connect" /\ frame.data \in waiting /\ UNCHANGED <<open, got>>
              /\ idToClient' = [idToClient EXCEPT ![frame.id] = frame.data]
          BY <3>3 DEF Confirmed
        <4>2. CASE frame.id = i
          <5>1. PICK next \in 0 .. Forwarded(i) + 1 :
                    next <= answered[i] + 1 /\ Stream(down, i, 1, next, Forwarded(i))
            BY <1>0, <2>1, <4>1, <4>2 DEF Streams, AnsweredStream
          <5>2. Stream(down', i, 0, next, Forwarded(i))
            BY <1>0, <2>1, <5>1, StreamMoves, 0 + 1 = 1, 0 \in Nat
          <5>3. idToClient'[i] = frame.data /\ frame.data \in Conns /\ got'[frame.data] = <<>>
            BY <4>1, <4>2 DEF Confirming
          <5>4. ReplyStream(i, next)'
            BY <1>0, <5>1, <5>2, <5>3 DEF ReplyStream
          <5> QED BY <1>0, <5>1, <5>4
        <4>3. CASE frame.id # i
          BY <3>2, <4>1, <4>3
        <4> QED BY <4>2, <4>3
      <3>4. CASE Closed(frame) \/ Ignored(frame)
        BY <3>2, <3>4 DEF Closed, Ignored
      <3>5. CASE Replied(frame)
        <4>1. /\ frame.id # i /\ idToClient[frame.id] \in open /\ UNCHANGED <<open, idToClient>>
              /\ got' = [got EXCEPT ![idToClient[frame.id]] = Append(@, frame.data)]
          BY <2>4, <3>5 DEF Replied, Carries
        <4>2. idToClient[i] \in open => idToClient[i] # idToClient[frame.id]
          BY <2>1, <4>1 DEF Confirming
        <4> QED BY <3>2, <4>1, <4>2
      <3> QED BY <2>1, <3>3, <3>4, <3>5
    <2>5. RepliesKept'
      <3>1. CASE UNCHANGED got
        BY <1>0, <3>1 DEF RepliesKept
      <3>2. CASE Replied(frame)
        <4>1. PICK i \in IDs : i = frame.id
          BY <2>1
        <4>2. PICK c \in Conns : c = idToClient[i] /\ c \in open
          BY <3>2, <4>1 DEF Replied
        <4>3. Carries(frame, i) /\ got' = [got EXCEPT ![c] = Append(@, frame.data)]
          BY <3>2, <4>1, <4>2 DEF Replied, Carries
        <4>4. PICK first \in Nat : frame.data = <<i, first>>
          <5>1. frame.data \in {i} \X Nat
            BY <2>1, <4>1, <4>3 DEF Reply, Carries
          <5>2. \A e \in {i} \X Nat : \E n \in Nat : e = <<i, n>>
            OBVIOUS
          <5> QED BY ONLY <5>1, <5>2
        <4>5. IF got[c] = <<>> THEN first <= answered[i] + 1
              ELSE first = got[c][Len(got[c])][2] + 1
          BY <2>3, <4>2, <4>3, <4>4
        <4>6. PICK q \in Seq(IDs \X Nat) : q = got[c] /\ got'[c] = Append(q, <<i, first>>)
          BY <4>3, <4>4
        <4>e. <<i, first>> \in IDs \X Nat
          OBVIOUS
        <4>7. SUFFICES ASSUME NEW start \in Int, start <= answered[i] + 1,
                              first = start + Len(q), q # <<>> => Head(q) = <<i, start>>,
                              q = [n \in 1 .. Len(q) |-> <<i, start + n - 1>>]
                       PROVE  RepliesKept'
          <5>1. CASE q = <<>>
            <6>1. Len(q) = 0 /\ q = [n \in 1 .. Len(q) |-> <<i, first + n - 1>>] /\ first = first + Len(q)
              BY <5>1
            <6>2. first <= answered[i] + 1 /\ first \in Int
              BY <4>5, <4>6, <5>1
            <6> QED BY <5>1, <6>1, <6>2
          <5>2. CASE q # <<>>
            <6>1. Head(q) = q[1] /\ q[1] \in IDs \X Nat /\ 1 \in DOMAIN q /\ Len(q) \in 1 .. Len(q)
              BY <5>2
            <6>2. PICK j \in IDs, start \in Nat : q[1] = <<j, start>>
              BY <6>1
            <6>3. start <= answered[j] + 1 /\ q = [n \in 1 .. Len(q) |-> <<j, start + n - 1>>]
              <7>1. /\ Head(got[c])[2] <= answered[Head(got[c])[1]] + 1
                    /\ got[c] = [n \in 1 .. Len(got[c]) |-> <<Head(got[c])[1], Head(got[c])[2] + n - 1>>]
                BY <4>6, <5>2 DEF RepliesKept
              <7>2. Head(got[c])[1] = j /\ Head(got[c])[2] = start /\ got[c] = q
                <8>1. got[c] = q
                  BY <4>6
                <8>2. Head(q) = <<j, start>>
                  BY <6>1, <6>2
                <8>3. Head(got[c]) = <<j, start>>
                  BY ONLY <8>1, <8>2
                <8> QED BY ONLY <8>1, <8>3
              <7> QED BY <7>1, <7>2
            <6>4. j = i
              <7>1. owner[q[1][1]] = c
                BY <4>6, <6>1 DEF Inv, Ownership, NothingCrosses
              <7>2. owner[i] = c
                BY <4>2 DEF Inv, Ownership, MapsOwned
              <7> QED BY <6>2, <7>1, <7>2 DEF Inv, AskedOnce
            <6>5. q[Len(q)] = <<j, start + Len(q) - 1>>
              BY <6>1, <6>3
            <6>6. first = q[Len(q)][2] + 1
              BY <4>5, <4>6, <5>2
            <6>7. first = start + Len(q)
              BY <6>1, <6>5, <6>6
            <6> QED BY <6>1, <6>2, <6>3, <6>4, <6>7
          <5> QED BY <5>1, <5>2
        <4>8. Append(q, <<i, first>>) = [n \in 1 .. Len(Append(q, <<i, first>>)) |-> <<i, start + n - 1>>]
          <5>1. <<i, first>> = <<i, start + Len(q)>>
            BY <4>7
          <5>2. q = [n \in 1 .. Len(q) |-> <<i, start + n - 1>>]
            BY <4>7
          <5> QED BY ONLY q \in Seq(IDs \X Nat), start \in Int, <4>e, <5>1, <5>2, OneMore
        <4>9. Head(Append(q, <<i, first>>)) = <<i, start>>
          <5>1. CASE q = <<>>
            BY <4>7, <5>1
          <5>2. CASE q # <<>>
            BY <4>7, <5>2
          <5> QED BY <5>1, <5>2
        <4>10. SUFFICES ASSUME NEW d \in Conns, got'[d] # <<>>
                        PROVE  LET n == Head(got'[d])[1]
                                   m == Head(got'[d])[2]
                               IN  /\ m <= answered'[n] + 1
                                   /\ got'[d] = [l \in 1 .. Len(got'[d]) |-> <<n, m + l - 1>>]
          BY DEF RepliesKept
        <4>11. CASE d = c
          <5>1. got'[d] = Append(q, <<i, first>>)
            BY <4>6, <4>11
          <5>2. Head(got'[d])[1] = i /\ Head(got'[d])[2] = start
            <6>1. Head(got'[d]) = <<i, start>>
              BY ONLY <4>9, <5>1
            <6> QED BY ONLY <6>1
          <5>3. got'[d] = [n \in 1 .. Len(got'[d]) |-> <<i, start + n - 1>>]
            BY <4>8, <5>1
          <5>4. start <= answered'[i] + 1
            BY <1>0, <4>7
          <5> QED BY ONLY <5>2, <5>3, <5>4
        <4>12. CASE d # c
          <5>1. got'[d] = got[d]
            BY <4>3, <4>12
          <5> QED BY <1>0, <4>10, <5>1 DEF RepliesKept
        <4> QED BY <4>11, <4>12
      <3> QED BY <2>1, <3>1, <3>2 DEF Confirmed, Closed, Ignored
    <2>6. Streams'
      BY <2>2, <2>3, <2>4 DEF Streams
    <2> QED BY <1>0, <2>5, <2>6 DEF Replying
  <1>3. CASE \/ \E c \in Conns : BrowserData(c) \/ BrowserEnd(c) \/ FetchPending(c) \/ StorePending(c)
             \/ FlushSend \/ FlushCut \/ FlushSet \/ FlushEnd \/ FlushDelete
    <2>1. UNCHANGED <<down, idToClient, got>> /\ open' \subseteq open
      BY <1>3 DEF BrowserData, BrowserEnd, FetchPending, StorePending, FlushSend, FlushCut, FlushSet,
                  FlushEnd, FlushDelete, links
    <2> QED BY <1>1, <2>1
  <1> QED BY <1>2, <1>3 DEF ClientNext, ClientReader

(* At first nothing is on the link and nothing was forwarded. *)
LEMMA InitReplies == Init => ReplyInv
  <1> SUFFICES ASSUME Init PROVE ReplyInv
    OBVIOUS
  <1> USE DEF Init, LinkInit, ClientInit, ServerInit
  <1>1. HeardOf /\ ClosedFirst /\ Confirming
    BY AtRest, TunnelAssumption DEF HeardOf, ClosedFirst, Confirming
  <1>2. Answering
    BY DEF Answering
  <1>3. \A i \in IDs : ~Holding(i) /\ Forwarded(i) = 0
    BY AtRest DEF Holding, Forwarded
  <1>4. ASSUME NEW i \in IDs
        PROVE  \E first \in 0 .. Forwarded(i) + 1 : ReplyStream(i, first)
    <2>1. Stream(down, i, 0, 1, 0) /\ 1 \in 0 .. Forwarded(i) + 1
      BY <1>3 DEF Stream
    <2>2. idToClient[i] \notin open
      BY TunnelAssumption
    <2> QED BY <1>3, <2>1, <2>2 DEF ReplyStream
  <1>5. Replying
    <2>1. \A k \in DOMAIN down : AnsweredStream(k)
      OBVIOUS
    <2> QED BY <1>3, <1>4, <2>1 DEF Replying, Streams
  <1>6. RepliesKept
    BY DEF RepliesKept
  <1> QED BY <1>1, <1>2, <1>5, <1>6 DEF ReplyInv

(* Every step keeps the streams of replies. *)
LEMMA NextReplies == Inv /\ Inv' /\ ReplyInv /\ [Next]_vars => ReplyInv'
  <1> SUFFICES ASSUME Inv, Inv', ReplyInv, [Next]_vars PROVE ReplyInv'
    OBVIOUS
  <1> USE DEF ReplyInv
  <1>0. Confirming' /\ Answering' /\ \A i \in IDs : answered[i] <= answered'[i]
    BY ConfirmingKept, AnsweringKept
  <1>1. CASE ~panicked /\ ClientNext /\ UNCHANGED serverVars
    BY <1>0, <1>1, ClientKeepsLinked, ClientKeepsReplying
  <1>2. CASE ~panicked /\ ServerNext /\ UNCHANGED clientVars
    <2>1. HeardOf' /\ ClosedFirst'
      BY <1>2, ServerKeepsLinked
    <2>2. Replying'
      BY <1>0, <1>2, <2>1, ServerKeepsReplying
    <2>3. RepliesKept'
      <3>1. got' = got
        BY <1>2 DEF clientVars
      <3>2. \A c \in Conns : got[c] # <<>> => Head(got[c])[1] \in IDs /\ Head(got[c])[2] \in Nat
        <4>1. \A c \in Conns : got[c] # <<>> => Head(got[c]) \in IDs \X Nat
          BY Facts, Queue
        <4> QED BY ONLY <4>1
      <3>3. ASSUME NEW c \in Conns, got[c] # <<>>, NEW i \in IDs, i = Head(got[c])[1]
            PROVE  Head(got[c])[2] <= answered'[i] + 1
        <4>1. Head(got[c])[2] <= answered[i] + 1 /\ answered[i] \in Int /\ answered'[i] \in Int
          BY <1>0, <3>3 DEF RepliesKept, Answering
        <4> QED BY <1>0, <3>2, <3>3, <4>1
      <3> QED BY <3>1, <3>2, <3>3 DEF RepliesKept
    <2> QED BY <1>0, <2>1, <2>2, <2>3
  <1>3. CASE UNCHANGED vars
    <2> USE <1>3 DEF vars, links, clientVars, serverVars
    <2>1. HeardOf' /\ ClosedFirst'
      BY DEF HeardOf, ClosedFirst, Linked
    <2>2. \A i \in IDs : Forwarded(i)' = Forwarded(i) /\ (Holding(i)' <=> Holding(i))
      BY DEF Forwarded, Holding
    <2>3. (\A k \in DOMAIN down : AnsweredStream(k)) => \A k \in DOMAIN down' : AnsweredStream(k)'
      BY <2>2, FrameFacts DEF AnsweredStream
    <2>4. \A i \in IDs : \A first \in Int : ReplyStream(i, first) => ReplyStream(i, first)'
      BY <2>2 DEF ReplyStream
    <2>5. Streams => Streams'
      BY <2>2, <2>3, <2>4 DEF Streams
    <2>6. Replying'
      BY <2>2, <2>5 DEF Replying
    <2>7. RepliesKept'
      BY DEF RepliesKept
    <2> QED BY <1>0, <2>1, <2>6, <2>7
  <1> QED BY <1>1, <1>2, <1>3 DEF Next

(* The streams of replies are always in order. *)
LEMMA ReplyInvariance == Spec => [](Inv /\ ReplyInv)
  <1>1. Init => Inv /\ ReplyInv
    BY InitInv, InitReplies
  <1>2. Inv /\ ReplyInv /\ [Next]_vars => (Inv /\ ReplyInv)'
    BY NextInv, NextReplies
  <1> QED BY <1>1, <1>2, PTL DEF Spec

(* Replies reach the browser in order and without a gap, from the first the target sent *)
(* after the answer on, however the target's read function, the answer of               *)
(* handleWebSocketReadFunc and closes from either side interleave.                      *)
THEOREM RepliesInOrder == Spec => []RepliesKept
  <1>1. ReplyInv => RepliesKept
    BY DEF ReplyInv
  <1> QED BY <1>1, ReplyInvariance, PTL

-----------------------------------------------------------------------------
(* Data that is held back *)

(* A list stays what is left while nothing is sent and the read function does not go back. *)
LEMMA RestSame ==
    ASSUME NEW c, NEW p, NEW list, Rest(c, p, list), sent'[c] = sent[c], Over(c) => Over(c)'
    PROVE  Rest(c, p, list)'
  BY DEF Rest

(* The next piece, or the end, is put on the list. *)
LEMMA RestGrows ==
    ASSUME NEW S, NEW list \in Seq(S), NEW e \in S, NEW c, sent[c] \in Nat, NEW p \in 0 .. sent[c],
           Rest(c, p, list), ~Over(c),
           \/ e = <<c, sent[c] + 1>> /\ sent'[c] = sent[c] + 1
           \/ e = Nothing /\ sent'[c] = sent[c] /\ Over(c)'
    PROVE  Rest(c, p, Append(list, e))'
  <1> DEFINE r == Append(list, e)
  <1>1. Len(list) = sent[c] - p /\ \A k \in 1 .. sent[c] - p : list[k] = <<c, p + k>>
    BY DEF Rest
  <1>2. /\ Len(r) = Len(list) + 1 /\ r[Len(r)] = e
        /\ \A k \in 1 .. Len(list) : r[k] = list[k]
    OBVIOUS
  <1> HIDE DEF r
  <1>3. CASE e = <<c, sent[c] + 1>> /\ sent'[c] = sent[c] + 1
    <2>1. Len(r) = sent'[c] - p
      BY <1>1, <1>2, <1>3
    <2>2. \A k \in 1 .. sent'[c] - p : r[k] = <<c, p + k>>
      <3> TAKE k \in 1 .. sent'[c] - p
      <3>1. PICK n \in Nat : n = sent[c] - p /\ sent[c] = n + p
        OBVIOUS
      <3>2. Len(list) = n /\ Len(r) = n + 1 /\ k \in 1 .. n + 1
        <4>1. sent'[c] - p = n + 1
          BY <1>3, <3>1
        <4> QED BY <1>1, <1>2, <3>1, <4>1
      <3>3. k \in 1 .. Len(list) \/ (k = Len(r) /\ p + k = sent[c] + 1)
        <4>1. p \in Int /\ k \in Int /\ (k <= n \/ k = n + 1) /\ k >= 1
          BY <3>2
        <4>2. ASSUME k = n + 1 PROVE p + k = sent[c] + 1
          <5>1. p + k = p + (n + 1) /\ sent[c] + 1 = (n + p) + 1
            BY ONLY <3>1, <4>2
          <5>2. p \in Int /\ n \in Nat
            BY <4>1
          <5> QED BY ONLY <5>1, <5>2
        <4> QED BY <3>2, <4>1, <4>2
      <3> QED BY <1>1, <1>2, <1>3, <3>1, <3>3
    <2> QED BY <2>1, <2>2 DEF Rest, r
  <1>4. CASE e = Nothing /\ sent'[c] = sent[c] /\ Over(c)'
    <2>1. Len(r) = sent'[c] - p + 1 /\ r[Len(r)] = Nothing
      BY <1>1, <1>2, <1>4
    <2>2. \A k \in 1 .. sent'[c] - p : r[k] = <<c, p + k>>
      BY <1>1, <1>2, <1>4
    <2> QED BY <1>4, <2>1, <2>2 DEF Rest, r
  <1> QED BY <1>3, <1>4

(* The first of a list is the next piece, or the end after the last. *)
LEMMA RestTaken ==
    ASSUME NEW S, NEW list \in Seq(S), list # <<>>, NEW c, sent[c] \in Nat, NEW p \in 0 .. sent[c],
           Rest(c, p, list)
    PROVE  \/ p < sent[c] /\ Head(list) = <<c, p + 1>> /\ Rest(c, p + 1, Tail(list))
           \/ Head(list) = Nothing /\ Rest(c, p, Tail(list))
  <1> DEFINE r == Tail(list)
  <1>1. /\ Len(r) = Len(list) - 1 /\ Len(list) \in Nat \ {0} /\ Head(list) = list[1]
        /\ \A k \in 1 .. Len(list) - 1 : r[k] = list[k + 1]
    OBVIOUS
  <1> HIDE DEF r
  <1>2. CASE p < sent[c]
    <2>1. Head(list) = <<c, p + 1>>
      BY <1>1, <1>2 DEF Rest
    <2>2. \/ Len(r) = sent[c] - (p + 1)
          \/ Len(r) = sent[c] - (p + 1) + 1 /\ Over(c) /\ r[Len(r)] = Nothing
      BY <1>1, <1>2 DEF Rest
    <2>3. \A k \in 1 .. sent[c] - (p + 1) : r[k] = <<c, p + 1 + k>>
      <3> TAKE k \in 1 .. sent[c] - (p + 1)
      <3>1. k + 1 \in 1 .. sent[c] - p /\ k \in 1 .. Len(list) - 1 /\ p + (k + 1) = p + 1 + k
        BY <1>1, <1>2 DEF Rest
      <3> QED BY <1>1, <3>1 DEF Rest
    <2> QED BY <1>2, <2>1, <2>2, <2>3 DEF Rest, r
  <1>3. CASE p = sent[c]
    <2>1. Len(list) = 1 /\ Head(list) = Nothing /\ Len(r) = 0
      BY <1>1, <1>3 DEF Rest
    <2>2. Rest(c, p, r)
      BY <1>3, <2>1 DEF Rest
    <2> QED BY <2>1, <2>2 DEF r
  <1> QED BY <1>2, <1>3

(* Nothing is left when everything was sent. *)
LEMMA RestOut ==
    ASSUME NEW c, sent[c] \in Nat, NEW p \in 0 .. sent[c]
    PROVE  Rest(c, p, <<>>) <=> p = sent[c]
  BY DEF Rest

(* What is held back of a connection that the step is not about. *)
LEMMA HeldBackKept ==
    ASSUME NEW c, NEW p, HeldBack(c, p), sent'[c] = sent[c], handler'[c] = handler[c],
           pending'[c] = pending[c], clientToID'[c] = clientToID[c],
           flusher' = flusher \/ (~Flushing(c) /\ ~Flushing(c)')
    PROVE  HeldBack(c, p)'
  <1>1. Over(c)' <=> Over(c)
    BY DEF Over
  <1>2. \A list : Rest(c, p, list) => Rest(c, p, list)'
    BY <1>1, RestSame
  <1>3. CASE flusher' = flusher
    BY <1>2, <1>3 DEF HeldBack, Flushing
  <1>4. CASE ~Flushing(c) /\ ~Flushing(c)'
    BY <1>2, <1>4 DEF HeldBack
  <1> QED BY <1>3, <1>4

-----------------------------------------------------------------------------
(* Data on its way *)

(* A step that is not about the data of i. *)
LEMMA ArrivingKept ==
    ASSUME NEW i, NEW c, NEW p, Arriving(i, c, p), UNCHANGED <<up, received>>,
           target'[i] = "open" => target[i] = "open", Dispatching(i)' <=> Dispatching(i),
           Dispatching(i) => dispatcher'.frame = dispatcher.frame
    PROVE  Arriving(i, c, p)'
  BY DEF Arriving

(* A frame is put on the link that carries no data of i ... *)
LEMMA ArrivingOther ==
    ASSUME Inv, NEW i \in IDs, NEW c, NEW p \in Nat, Arriving(i, c, p), UNCHANGED serverVars,
           NEW f \in UpFrames, up' = Append(up, f), ~Carries(f, i)
    PROVE  Arriving(i, c, p)'
  <1>1. UNCHANGED <<received, target, dispatcher>> /\ (Dispatching(i)' <=> Dispatching(i))
    BY DEF serverVars, Dispatching
  <1>l. Len(received[i]) \in Nat
    BY Facts
  <1>2. PICK taken \in Nat : taken = IF Dispatching(i) THEN Len(received[i]) + 1 ELSE Len(received[i])
    BY <1>l
  <1>3. ASSUME Stream(up, i, 0, taken + 1, p) PROVE Stream(up', i, 0, taken + 1, p)
    <2>1. up \in Seq(UpFrames) /\ 0 \in 0 .. Len(up) /\ taken + 1 \in Int /\ p \in Int
      BY Facts
    <2> QED BY <1>3, <2>1, StreamOther
  <1> QED BY <1>1, <1>2, <1>3 DEF Arriving

(* ... or the next piece. *)
LEMMA ArrivingNext ==
    ASSUME Inv, NEW i \in IDs, NEW c, NEW p \in Nat, Arriving(i, c, p), UNCHANGED serverVars,
           NEW f \in UpFrames, up' = Append(up, f), Carries(f, i), Number(f) = p + 1
    PROVE  Arriving(i, c, p + 1)'
  <1>1. UNCHANGED <<received, target, dispatcher>> /\ (Dispatching(i)' <=> Dispatching(i))
    BY DEF serverVars, Dispatching
  <1>l. Len(received[i]) \in Nat
    BY Facts
  <1>2. PICK taken \in Nat : taken = IF Dispatching(i) THEN Len(received[i]) + 1 ELSE Len(received[i])
    BY <1>l
  <1>3. ASSUME Stream(up, i, 0, taken + 1, p), taken <= p
        PROVE  Stream(up', i, 0, taken + 1, p + 1)
    <2>1. up \in Seq(UpFrames) /\ 0 \in 0 .. Len(up) /\ taken + 1 \in Int /\ p \in Int /\ taken + 1 <= p + 1
      BY <1>3, Facts
    <2> QED BY <1>3, <2>1, StreamNext
  <1>4. Len(received[i]) <= p + 1 /\ (taken <= p => taken <= p + 1)
    BY <1>l DEF Arriving
  <1> QED BY <1>1, <1>2, <1>3, <1>4 DEF Arriving

(* What a step of the client puts on the link of the data of c: no piece, or the next one. *)
Pushes(c, p, q) ==
    \/ q = p /\ up' = up
    \/ q = p /\ \E f \in UpFrames : up' = Append(up, f) /\ \A i \in IDs : ~Carries(f, i)
    \/ /\ q = p + 1
       /\ \E f \in UpFrames, i \in IDs : /\ up' = Append(up, f) /\ owner[i] = c
                                         /\ Carries(f, i) /\ Number(f) = p + 1

(* A step of the client that is about c. *)
LEMMA ClientSends ==
    ASSUME Inv, Sending, UNCHANGED serverVars, overlapped \subseteq overlapped', NEW c \in Conns,
           \/ up' = up
           \/ \E f \in UpFrames : up' = Append(up, f) /\ \A i \in IDs : Carries(f, i) => owner[i] = c,
           \A d \in Conns \ {c} : /\ sent'[d] = sent[d]
                                  /\ \A p \in 0 .. sent[d] : HeldBack(d, p) => HeldBack(d, p)',
           c \notin overlapped' =>
               \A p \in 0 .. sent[c] : HeldBack(c, p) =>
                   \E q \in 0 .. sent'[c] : HeldBack(c, q)' /\ Pushes(c, p, q)
    PROVE  Sending'
  <1> USE Facts
  <1>0. UNCHANGED <<owner, received, target, dispatcher>> /\ \A i \in IDs : Dispatching(i)' <=> Dispatching(i)
    BY DEF serverVars, Dispatching
  <1>1. ASSUME NEW d \in Conns \ overlapped', d # c
        PROVE  \E q \in 0 .. sent'[d] : HeldBack(d, q)' /\ \A i \in IDs : owner'[i] = d => Arriving(i, d, q)'
    <2>1. PICK p \in 0 .. sent[d] : HeldBack(d, p) /\ \A i \in IDs : owner[i] = d => Arriving(i, d, p)
      BY <1>1 DEF Sending
    <2>2. ASSUME NEW i \in IDs, owner[i] = d PROVE Arriving(i, d, p)'
      <3>0. Arriving(i, d, p) /\ p \in Nat
        BY <2>1, <2>2
      <3>1. CASE up' = up
        BY <1>0, <3>0, <3>1, ArrivingKept
      <3>2. ASSUME NEW f \in UpFrames, up' = Append(up, f), ~Carries(f, i)
            PROVE  Arriving(i, d, p)'
        BY <3>0, <3>2, ArrivingOther
      <3> QED BY <1>1, <2>2, <3>1, <3>2
    <2>3. sent'[d] = sent[d] /\ HeldBack(d, p)'
      BY <1>1, <2>1
    <2> QED BY <1>0, <2>1, <2>2, <2>3
  <1>2. ASSUME c \notin overlapped'
        PROVE  \E q \in 0 .. sent'[c] : HeldBack(c, q)' /\ \A i \in IDs : owner'[i] = c => Arriving(i, c, q)'
    <2>1. PICK p \in 0 .. sent[c] : HeldBack(c, p) /\ \A i \in IDs : owner[i] = c => Arriving(i, c, p)
      BY <1>2 DEF Sending
    <2>2. PICK q \in 0 .. sent'[c] : HeldBack(c, q)' /\ Pushes(c, p, q)
      BY <1>2, <2>1
    <2>3. ASSUME NEW i \in IDs, owner[i] = c PROVE Arriving(i, c, q)'
      <3>0. Arriving(i, c, p) /\ p \in Nat
        BY <2>1, <2>3
      <3>1. CASE q = p /\ up' = up
        BY <1>0, <3>0, <3>1, ArrivingKept
      <3>2. CASE q = p /\ \E f \in UpFrames : up' = Append(up, f) /\ ~Carries(f, i)
        BY <3>0, <3>2, ArrivingOther
      <3>3. ASSUME q = p + 1, NEW f \in UpFrames, NEW j \in IDs, up' = Append(up, f), owner[j] = c,
                   Carries(f, j), Number(f) = p + 1
            PROVE  Arriving(i, c, q)'
        <4>1. i = j
          BY <2>3, <3>3 DEF Inv, AskedOnce
        <4> QED BY <3>0, <3>3, <4>1, ArrivingNext
      <3> QED BY <2>2, <3>1, <3>2, <3>3 DEF Pushes
    <2> QED BY <1>0, <2>2, <2>3
  <1>3. \A d \in Conns \ overlapped' :
            \E q \in 0 .. sent'[d] : HeldBack(d, q)' /\ \A i \in IDs : owner'[i] = d => Arriving(i, d, q)'
    <2> TAKE d \in Conns \ overlapped'
    <2>1. CASE d # c
      BY ONLY <1>1, <2>1, d \in Conns \ overlapped'
    <2>2. CASE d = c
      BY ONLY <1>2, <2>2, d \in Conns \ overlapped'
    <2> QED BY <2>1, <2>2
  <1> QED BY ONLY <1>3 DEF Sending

(* What the goroutines of one connection may hold, and what tells their states apart. *)
LEMMA HeldTypes ==
    ASSUME Inv, NEW c \in Conns
    PROVE  /\ sent[c] \in Nat /\ NotPending \notin Seq(Data(c))
           /\ pending[c] # NotPending => pending[c] \in Seq(Data(c))
           /\ \/ handler[c] = Idle /\ ~Over(c)
              \/ handler[c] = Ended /\ Over(c)
              \/ handler[c].at = "append" /\ handler[c].data \in Data(c)
              \/ /\ handler[c].at = "store" /\ handler[c].data \in Data(c)
                 /\ handler[c].list \in Seq(Data(c))
           /\ Flushing(c) => clientToID[c] # NoID
  <1>1. NotPending \notin Seq(Data(c))
    BY TunnelAssumption
  <1>2. /\ sent[c] \in Nat /\ (pending[c] # NotPending => pending[c] \in Seq(Data(c)))
        /\ handler[c] \in {Idle, Ended} \/ handler[c].at \in {"append", "store"}
        /\ handler[c].at \in {"append", "store"} => handler[c].data \in Data(c)
        /\ handler[c].at = "store" => handler[c].list \in Seq(Data(c))
    BY AtRest DEF Inv, Types, ClientTypes, HandlerType
  <1>3. handler[c] = Idle => ~Over(c)
    BY AtRest DEF Over
  <1>4. handler[c] = Ended => Over(c)
    BY DEF Over
  <1>5. Flushing(c) => clientToID[c] # NoID
    <2>1. flusher # Idle => flusher.id \in IDs
      BY DEF Inv, Types, ClientTypes, FlusherType, Flushers
    <2> QED BY <2>1, Facts DEF Flushing, Inv, FlushedIsKnown
  <1> QED BY <1>1, <1>2, <1>3, <1>4, <1>5

(* A step about c leaves the other connections alone. *)
LEMMA OthersHeld ==
    ASSUME Inv, NEW c \in Conns,
           \A d \in Conns \ {c} : /\ sent'[d] = sent[d] /\ handler'[d] = handler[d]
                                  /\ pending'[d] = pending[d] /\ clientToID'[d] = clientToID[d]
                                  /\ flusher' = flusher \/ (~Flushing(d) /\ ~Flushing(d)')
    PROVE  \A d \in Conns \ {c} : /\ sent'[d] = sent[d]
                                  /\ \A p \in 0 .. sent[d] : HeldBack(d, p) => HeldBack(d, p)'
  BY HeldBackKept

(* The read function holds data back, asks for the connection, or sends what it read. *)
LEMMA HandleSends ==
    ASSUME Inv, Sending, UNCHANGED serverVars, NEW c \in Conns, handler[c] = Idle, NEW data,
           Handle(c, data), UNCHANGED <<pending, clientToID, flusher>>,
           \/ data = <<c, sent[c] + 1>> /\ sent' = [sent EXCEPT ![c] = @ + 1]
           \/ data = Nothing /\ sent' = sent
    PROVE  Sending'
  <1> USE Facts
  <1>1. /\ data \in Data(c) /\ sent[c] \in Nat /\ ~Over(c) /\ 0 .. sent[c] \subseteq 0 .. sent'[c]
        /\ data # Nothing => sent'[c] = sent[c] + 1 /\ data = <<c, sent[c] + 1>>
        /\ data = Nothing => sent'[c] = sent[c]
        /\ \A d \in Conns \ {c} : sent'[d] = sent[d]
    <2>1. <<c, sent[c] + 1>> # Nothing /\ sent[c] \in Nat /\ ~Over(c)
      BY TunnelAssumption, HeldTypes, AtRest DEF Over, Idle, Ended
    <2> QED BY <2>1 DEF Data
  <1>2. ASSUME NEW list \in Seq(Data(c)), NEW p \in 0 .. sent[c], Rest(c, p, list),
               data = Nothing => Over(c)'
        PROVE  Rest(c, p, Append(list, data))'
    BY <1>1, <1>2, RestGrows
  <1>3. /\ Flushing(c)' <=> Flushing(c)
        /\ Idle.at = "idle" /\ Ended.at = "ended"
    BY AtRest DEF Flushing
  <1>4. CASE /\ pending[c] # NotPending
             /\ handler' = [handler EXCEPT ![c] = [at |-> "append", data |-> data]]
             /\ overlapped' = IF Flushing(c) THEN overlapped \cup {c} ELSE overlapped
             /\ up' = up
    <2>1. handler'[c] = [at |-> "append", data |-> data] /\ \A d \in Conns \ {c} : handler'[d] = handler[d]
      BY <1>4
    <2>2. ASSUME c \notin overlapped', NEW p \in 0 .. sent[c], HeldBack(c, p)
          PROVE  p \in 0 .. sent'[c] /\ HeldBack(c, p)'
      <3>1. ~Flushing(c)
        BY <1>4, <2>2
      <3>2. pending[c] \in Seq(Data(c)) /\ Rest(c, p, pending[c])
        BY <1>4, <2>2, <3>1, HeldTypes DEF HeldBack
      <3>3. data = Nothing => Over(c)'
        BY <2>1 DEF Over
      <3>4. Rest(c, p, Append(pending[c], data))'
        BY <1>2, <3>2, <3>3
      <3>5. clientToID[c] = NoID => p = 0
        BY <2>2 DEF HeldBack
      <3> QED BY <1>1, <1>3, <1>4, <2>1, <3>1, <3>4, <3>5 DEF HeldBack
    <2>3. overlapped \subseteq overlapped'
      BY <1>4
    <2>4. c \notin overlapped' => \A p \in 0 .. sent[c] : HeldBack(c, p) =>
              \E q \in 0 .. sent'[c] : HeldBack(c, q)' /\ Pushes(c, p, q)
      BY <1>4, <2>2 DEF Pushes
    <2>5. \A d \in Conns \ {c} : /\ sent'[d] = sent[d]
                                 /\ \A p \in 0 .. sent[d] : HeldBack(d, p) => HeldBack(d, p)'
      BY <1>1, <2>1, OthersHeld
    <2> QED BY <1>4, <2>3, <2>4, <2>5, ClientSends
  <1>5. CASE /\ pending[c] = NotPending /\ clientToID[c] = NoID /\ overlapped' = overlapped
             /\ handler' = [handler EXCEPT ![c] = [at |-> "store", data |-> data, list |-> <<data>>]]
             /\ up' = Append(up, ConnectFrame(c, NoID))
    <2>1. /\ handler'[c] = [at |-> "store", data |-> data, list |-> <<data>>]
          /\ \A d \in Conns \ {c} : handler'[d] = handler[d]
      BY <1>5
    <2>2. ASSUME NEW p \in 0 .. sent[c], HeldBack(c, p)
          PROVE  p \in 0 .. sent'[c] /\ HeldBack(c, p)'
      <3>1. ~Flushing(c)
        BY <1>5, HeldTypes
      <3>2. p = sent[c] /\ p = 0
        BY <1>5, <2>2, <3>1 DEF HeldBack
      <3>3. Rest(c, p, <<>>) /\ <<>> \in Seq(Data(c))
        <4>1. Rest(c, p, <<>>)
          BY <1>1, <3>2, RestOut
        <4>2. \A S : <<>> \in Seq(S)
          OBVIOUS
        <4> QED BY <4>1, <4>2
      <3>4. data = Nothing => Over(c)'
        BY <2>1 DEF Over
      <3>5. Rest(c, p, Append(<<>>, data))'
        BY <1>2, <3>3, <3>4
      <3>6. Append(<<>>, data) = <<data>>
        BY <1>1
      <3> QED BY <1>1, <1>3, <1>5, <2>1, <3>1, <3>2, <3>5, <3>6 DEF HeldBack
    <2>f. PICK f \in UpFrames : f = ConnectFrame(c, NoID)
      BY DEF ConnectFrame, UpFrames
    <2>3. up' = Append(up, f) /\ \A i \in IDs : ~Carries(f, i)
      BY <1>5, <2>f DEF ConnectFrame, Carries
    <2>4. c \notin overlapped' => \A p \in 0 .. sent[c] : HeldBack(c, p) =>
              \E q \in 0 .. sent'[c] : HeldBack(c, q)' /\ Pushes(c, p, q)
      BY <2>2, <2>3 DEF Pushes
    <2>5. \A d \in Conns \ {c} : /\ sent'[d] = sent[d]
                                 /\ \A p \in 0 .. sent[d] : HeldBack(d, p) => HeldBack(d, p)'
      BY <1>1, <2>1, OthersHeld
    <2> QED BY <1>5, <2>3, <2>4, <2>5, ClientSends
  <1>6. CASE /\ pending[c] = NotPending /\ clientToID[c] # NoID /\ overlapped' = overlapped
             /\ up' = Append(up, IF data = Nothing THEN CloseFrame(clientToID[c])
                                 ELSE DataFrame(clientToID[c], data))
             /\ handler' = [handler EXCEPT ![c] = After(data)]
    <2>1. handler'[c] = After(data) /\ \A d \in Conns \ {c} : handler'[d] = handler[d]
      BY <1>6
    <2>i. PICK i \in IDs : i = clientToID[c] /\ owner[i] = c
      BY <1>6 DEF Inv, Ownership, MapsOwned
    <2>f. PICK f \in UpFrames : f = IF data = Nothing THEN CloseFrame(i) ELSE DataFrame(i, data)
      <3>1. data \in AllData /\ Nothing \in AllData
        BY <1>1 DEF AllData, Data
      <3>2. CloseFrame(i) \in UpFrames /\ DataFrame(i, data) \in UpFrames
        BY <3>1 DEF CloseFrame, DataFrame, UpFrames, IdentifiedFrames
      <3> QED BY <3>2
    <2>2. /\ up' = Append(up, f) /\ f.id = i
          /\ data = Nothing => \A j \in IDs : ~Carries(f, j)
          /\ data # Nothing => Carries(f, i) /\ Number(f) = sent[c] + 1
      <3>1. up' = Append(up, f) /\ f.id = i
        BY <1>6, <2>i, <2>f DEF CloseFrame, DataFrame
      <3>2. data = Nothing => f.op = "close"
        BY <2>f DEF CloseFrame
      <3>3. data # Nothing => f.op = "data" /\ f.data = data
        BY <2>f DEF DataFrame
      <3>4. data # Nothing => data[2] = sent[c] + 1
        BY <1>1
      <3> QED BY <3>1, <3>2, <3>3, <3>4 DEF Carries, Number
    <2>3. ASSUME NEW p \in 0 .. sent[c], HeldBack(c, p)
          PROVE  \E q \in 0 .. sent'[c] : HeldBack(c, q)' /\ Pushes(c, p, q)
      <3>1. ~Flushing(c) /\ p = sent[c]
        BY <1>3, <1>6, <2>3 DEF HeldBack
      <3>2. sent'[c] \in 0 .. sent'[c] /\ handler'[c] \in {Idle, Ended}
        BY <1>1, <2>1 DEF After
      <3>4. \A q : q = sent'[c] => HeldBack(c, q)'
        BY <1>3, <1>6, <2>1, <3>1, <3>2 DEF HeldBack
      <3>5. CASE data = Nothing
        <4>1. p = sent'[c] /\ Pushes(c, p, p)
          BY <1>1, <2>2, <3>1, <3>5 DEF Pushes
        <4> QED BY <3>2, <3>4, <4>1
      <3>6. CASE data # Nothing
        <4>1. p + 1 = sent'[c] /\ Pushes(c, p, p + 1)
          BY <1>1, <2>i, <2>2, <3>1, <3>6 DEF Pushes
        <4> QED BY <3>2, <3>4, <4>1
      <3> QED BY <3>5, <3>6
    <2>4. \A j \in IDs : Carries(f, j) => owner[j] = c
      BY <2>i, <2>2 DEF Carries
    <2>5. \A d \in Conns \ {c} : /\ sent'[d] = sent[d]
                                 /\ \A p \in 0 .. sent[d] : HeldBack(d, p) => HeldBack(d, p)'
      BY <1>1, <2>1, OthersHeld
    <2> QED BY <1>6, <2>2, <2>3, <2>4, <2>5, ClientSends
  <1> QED BY <1>4, <1>5, <1>6 DEF Handle

(* The read function extends the list that is held back, and stores it. *)
LEMMA PendingSends ==
    ASSUME Inv, Sending, UNCHANGED serverVars, NEW c \in Conns, FetchPending(c) \/ StorePending(c)
    PROVE  Sending'
  <1>0. /\ UNCHANGED <<up, sent, clientToID, flusher, overlapped>>
        /\ \A d \in Conns \ {c} : handler'[d] = handler[d] /\ pending'[d] = pending[d]
    BY Facts DEF FetchPending, StorePending, links
  <1>1. \A d \in Conns \ {c} : /\ sent'[d] = sent[d]
                               /\ \A p \in 0 .. sent[d] : HeldBack(d, p) => HeldBack(d, p)'
    BY <1>0, OthersHeld
  <1>2. Flushing(c)' <=> Flushing(c)
    BY <1>0 DEF Flushing
  <1>3. ASSUME NEW p \in 0 .. sent[c], HeldBack(c, p), c \notin overlapped
        PROVE  HeldBack(c, p)'
    <2>0. clientToID'[c] = NoID => p = 0
      BY <1>0, <1>3 DEF HeldBack
    <2>1. CASE FetchPending(c)
      <3>1. /\ handler[c].at = "append" /\ ~Flushing(c) /\ pending[c] # NotPending
            /\ Rest(c, p, Append(pending[c], handler[c].data)) /\ pending' = pending
        BY <1>3, <2>1 DEF FetchPending, HeldBack
      <3>2. handler'[c] = [at |-> "store", data |-> handler[c].data,
                           list |-> Append(pending[c], handler[c].data)]
        BY <2>1, <3>1, Facts DEF FetchPending
      <3>3. Over(c) => Over(c)'
        BY <3>1, <3>2, AtRest DEF Over
      <3>4. Rest(c, p, handler[c].list)'
        <4>1. PICK list : list = Append(pending[c], handler[c].data) /\ Rest(c, p, list)
          BY <3>1
        <4>2. Rest(c, p, list)'
          BY <1>0, <3>3, <4>1, RestSame
        <4> QED BY <3>2, <4>1, <4>2
      <3> QED BY <1>2, <2>0, <3>1, <3>2, <3>4, AtRest DEF HeldBack
    <2>2. CASE StorePending(c)
      <3>1. /\ handler[c].at = "store" /\ ~Flushing(c) /\ Rest(c, p, handler[c].list)
            /\ handler[c].list \in Seq(Data(c))
        BY <1>3, <2>2, HeldTypes, AtRest DEF StorePending, HeldBack
      <3>2. pending'[c] = handler[c].list /\ handler'[c] = After(handler[c].data)
        BY <2>2, Facts DEF StorePending
      <3>3. Over(c) => Over(c)'
        BY <3>1, <3>2, AtRest DEF Over, After
      <3>4. Rest(c, p, pending[c])' /\ pending'[c] # NotPending
        <4>1. PICK list : list = handler[c].list /\ Rest(c, p, list)
          BY <3>1
        <4>2. Rest(c, p, list)'
          BY <1>0, <3>3, <4>1, RestSame
        <4> QED BY <3>1, <3>2, <4>1, <4>2, HeldTypes
      <3>5. handler'[c] \in {Idle, Ended} /\ handler'[c].at \notin {"append", "store"}
        BY <3>2, AtRest DEF After
      <3> QED BY <1>2, <2>0, <3>1, <3>4, <3>5 DEF HeldBack
    <2> QED BY <2>1, <2>2
  <1>4. c \notin overlapped' => \A p \in 0 .. sent[c] : HeldBack(c, p) =>
            \E q \in 0 .. sent'[c] : HeldBack(c, q)' /\ Pushes(c, p, q)
    BY <1>0, <1>3 DEF Pushes
  <1> QED BY <1>0, <1>1, <1>4, ClientSends

(* The answer of the server starts the flush of what was held back since the first data. *)
LEMMA ConfirmedSends ==
    ASSUME Inv, Confirming, Sending, UNCHANGED serverVars, flusher = Idle, UNCHANGED <<up, sent, handler, pending>>,
           NEW frame, frame.id \in IDs, Confirmed(frame), owner[frame.id] = frame.data
    PROVE  Sending'
  <1>1. PICK c \in Conns : c = frame.data /\ c \in waiting
    BY Facts DEF Confirmed
  <1>2. /\ clientToID' = [clientToID EXCEPT ![c] = frame.id]
        /\ flusher' = [at |-> "send", conn |-> c, id |-> frame.id]
        /\ overlapped' = IF handler[c].at \in {"append", "store"} THEN overlapped \cup {c} ELSE overlapped
    BY <1>1 DEF Confirmed
  <1>3. \A d \in Conns : ~Flushing(d) /\ (d # c => ~Flushing(d)')
    BY <1>2 DEF Flushing
  <1>4. \A d \in Conns \ {c} : /\ sent'[d] = sent[d]
                               /\ \A p \in 0 .. sent[d] : HeldBack(d, p) => HeldBack(d, p)'
    BY <1>2, <1>3, OthersHeld
  <1>5. ASSUME c \notin overlapped', NEW p \in 0 .. sent[c], HeldBack(c, p)
        PROVE  HeldBack(c, p)'
    <2>1. handler[c] \in {Idle, Ended} /\ handler[c].at \notin {"append", "store"}
      BY <1>2, <1>5, HeldTypes
    <2>2. pending[c] # NotPending
      <3>1. clientToID[c] = NoID
        BY <1>1 DEF Confirming
      <3>2. Asked(c)
        BY <1>1 DEF Inv, AskedOnce
      <3> QED BY <2>1, <3>1, <3>2 DEF Asked
    <2>3. Rest(c, p, pending[c])
      BY <1>3, <1>5, <2>1, <2>2 DEF HeldBack
    <2>4. Rest(c, p, pending[c])'
      <3>1. Over(c)' <=> Over(c)
        BY DEF Over
      <3>2. PICK list : list = pending[c] /\ Rest(c, p, list)
        BY <2>3
      <3>3. Rest(c, p, list)'
        BY <3>1, <3>2, RestSame
      <3> QED BY <3>2, <3>3
    <2>5. clientToID'[c] = NoID => p = 0
      BY <1>2, Facts
    <2>6. flusher'.at = "send"
      BY <1>2
    <2> QED BY <2>1, <2>2, <2>4, <2>5, <2>6 DEF HeldBack
  <1>6. c \notin overlapped' => \A p \in 0 .. sent[c] : HeldBack(c, p) =>
            \E q \in 0 .. sent'[c] : HeldBack(c, q)' /\ Pushes(c, p, q)
    BY <1>5 DEF Pushes
  <1>7. overlapped \subseteq overlapped'
    BY <1>2
  <1> QED BY <1>4, <1>6, <1>7, ClientSends

(* The loop over the pending data sends it piece by piece. *)
LEMMA FlushSends ==
    ASSUME Inv, Sending, UNCHANGED serverVars,
           FlushSend \/ FlushCut \/ FlushSet \/ FlushEnd \/ FlushDelete
    PROVE  Sending'
  <1> USE Facts
  <1>1. /\ flusher \in Flushers /\ flusher # Idle
        /\ flusher.at = "set" => flusher.rest \in Seq(Data(flusher.conn))
        /\ flusher.at = "cut" => pending[flusher.conn] \notin {NotPending, <<>>}
    <2>1. flusher.at # "idle"
      BY DEF FlushSend, FlushCut, FlushSet, FlushEnd, FlushDelete
    <2> QED BY <2>1, AtRest DEF Inv, Types, ClientTypes, FlusherType
  <1>c. PICK c \in Conns : c = flusher.conn /\ Flushing(c) /\ \A d \in Conns \ {c} : ~Flushing(d)
    BY <1>1 DEF Flushers, Flushing
  <1>i. PICK i \in IDs : i = flusher.id /\ owner[i] = c
    <2>1. flusher.id \in IDs
      BY <1>1 DEF Flushers
    <2> QED BY <1>1, <1>c, <2>1 DEF Inv, FlushedIsKnown, Ownership, MapsOwned
  <1>2. /\ UNCHANGED <<sent, handler, clientToID, overlapped>> /\ (Over(c)' <=> Over(c))
        /\ \A d \in Conns \ {c} : pending'[d] = pending[d]
    BY <1>c DEF FlushSend, FlushCut, FlushSet, FlushEnd, FlushDelete, Over
  <1>3. \A list : \A p : Rest(c, p, list) => Rest(c, p, list)'
    BY <1>2, RestSame
  <1>4. \A p \in 0 .. sent[c] : HeldBack(c, p) => /\ handler[c] \in {Idle, Ended}
                                                  /\ handler[c].at \notin {"append", "store"}
                                                  /\ clientToID[c] # NoID
                                                  /\ pending[c] # NotPending /\ pending[c] \in Seq(Data(c))
    BY <1>c, HeldTypes, AtRest DEF HeldBack
  <1>o. ASSUME \A d \in Conns \ {c} : ~Flushing(d)'
        PROVE  \A d \in Conns \ {c} : /\ sent'[d] = sent[d]
                                      /\ \A p \in 0 .. sent[d] : HeldBack(d, p) => HeldBack(d, p)'
    BY <1>c, <1>2, <1>o, OthersHeld
  <1>n. ASSUME up' = up, \A d \in Conns \ {c} : ~Flushing(d)',
               \A p \in 0 .. sent[c] : HeldBack(c, p) => HeldBack(c, p)'
        PROVE  Sending'
    <2>1. c \notin overlapped' => \A p \in 0 .. sent[c] : HeldBack(c, p) =>
              \E q \in 0 .. sent'[c] : HeldBack(c, q)' /\ Pushes(c, p, q)
      BY <1>2, <1>n DEF Pushes
    <2> QED BY <1>2, <1>n, <1>o, <2>1, ClientSends
  <1>5. CASE FlushSend
    <2>1. /\ flusher.at = "send" /\ flusher'.at = "cut" /\ flusher'.conn = c /\ flusher' # Idle
          /\ pending' = pending /\ pending[c] # <<>>
      BY <1>1, <1>5, <1>c, AtRest DEF FlushSend, Flushers
    <2>f. PICK f \in UpFrames : f = DataFrame(i, Head(pending[c])) /\ up' = Append(up, f)
      BY <1>5, <1>c, <1>i, FlushFrame
    <2>2. Flushing(c)' /\ \A d \in Conns \ {c} : ~Flushing(d)'
      BY <2>1 DEF Flushing
    <2>3. f.op = "data" /\ f.id = i /\ f.data = Head(pending[c])
      BY <2>f DEF DataFrame
    <2>4. ASSUME NEW p \in 0 .. sent[c], HeldBack(c, p)
          PROVE  \E q \in 0 .. sent'[c] : HeldBack(c, q)' /\ Pushes(c, p, q)
      <3>1. Rest(c, p, pending[c]) /\ pending[c] \in Seq(Data(c)) /\ sent[c] \in Nat
        BY <1>4, <1>c, <2>1, <2>4 DEF HeldBack
      <3>2. ASSUME NEW q \in 0 .. sent[c], Rest(c, q, Tail(pending[c]))
            PROVE  HeldBack(c, q)'
        <4>1. Rest(c, q, Tail(pending[c]))'
          <5>1. PICK list : list = Tail(pending[c]) /\ Rest(c, q, list)
            BY <3>2
          <5> QED BY <1>3, <2>1, <5>1
        <4> QED BY <1>2, <1>4, <2>1, <2>2, <2>4, <4>1 DEF HeldBack
      <3>3. \/ p < sent[c] /\ Head(pending[c]) = <<c, p + 1>> /\ Rest(c, p + 1, Tail(pending[c]))
            \/ Head(pending[c]) = Nothing /\ Rest(c, p, Tail(pending[c]))
        BY <2>1, <3>1, RestTaken
      <3>4. CASE p < sent[c] /\ Head(pending[c]) = <<c, p + 1>> /\ Rest(c, p + 1, Tail(pending[c]))
        <4>1. p + 1 \in 0 .. sent[c]
          BY <3>1, <3>4
        <4>2. HeldBack(c, p + 1)'
          <5>1. PICK q \in 0 .. sent[c] : q = p + 1
            BY <4>1
          <5>2. HeldBack(c, q)'
            BY <3>2, <3>4, <5>1
          <5> QED BY <5>1, <5>2
        <4>3. Carries(f, i) /\ Number(f) = p + 1
          <5>1. <<c, p + 1>> # Nothing
            <6>1. p + 1 \in Nat
              BY <4>1
            <6> QED BY <6>1, TunnelAssumption
          <5>2. f.data = <<c, p + 1>> /\ f.data # Nothing
            BY <2>3, <3>4, <5>1
          <5>3. f.data[2] = p + 1
            BY ONLY <5>2
          <5> QED BY <2>3, <5>2, <5>3 DEF Carries, Number
        <4> QED BY <1>2, <1>i, <2>f, <4>1, <4>2, <4>3 DEF Pushes
      <3>5. CASE Head(pending[c]) = Nothing /\ Rest(c, p, Tail(pending[c]))
        <4>1. \A j \in IDs : ~Carries(f, j)
          BY <2>3, <3>5 DEF Carries
        <4>2. HeldBack(c, p)'
          BY <3>2, <3>5
        <4> QED BY <1>2, <2>f, <4>1, <4>2 DEF Pushes
      <3> QED BY <3>3, <3>4, <3>5
    <2>5. \A j \in IDs : Carries(f, j) => owner[j] = c
      BY <1>i, <2>3 DEF Carries
    <2> QED BY <1>2, <1>o, <2>2, <2>f, <2>4, <2>5, ClientSends
  <1>6. CASE FlushCut
    <2>1. /\ flusher.at = "cut" /\ up' = up /\ pending' = pending
          /\ flusher' = [at |-> "set", conn |-> c, id |-> i, rest |-> Tail(pending[c])]
      BY <1>6, <1>c, <1>i DEF FlushCut, links
    <2>2. Flushing(c)' /\ \A d \in Conns \ {c} : ~Flushing(d)'
      BY <2>1 DEF Flushing, Idle
    <2>3. ASSUME NEW p \in 0 .. sent[c], HeldBack(c, p) PROVE HeldBack(c, p)'
      <3>1. Rest(c, p, Tail(pending[c]))
        BY <1>4, <1>c, <2>1, <2>3 DEF HeldBack
      <3>2. Rest(c, p, flusher.rest)'
        <4>1. PICK list : list = Tail(pending[c]) /\ Rest(c, p, list)
          BY <3>1
        <4> QED BY <1>3, <2>1, <4>1
      <3> QED BY <1>2, <1>4, <2>1, <2>2, <2>3, <3>2 DEF HeldBack
    <2> QED BY <1>n, <2>1, <2>2, <2>3
  <1>7. CASE FlushSet
    <2>1. /\ flusher.at = "set" /\ up' = up /\ pending'[c] = flusher.rest
          /\ flusher' = [at |-> "send", conn |-> c, id |-> i] /\ pending'[c] # NotPending
      BY <1>1, <1>7, <1>c, <1>i, HeldTypes DEF FlushSet, links
    <2>2. Flushing(c)' /\ \A d \in Conns \ {c} : ~Flushing(d)'
      BY <2>1 DEF Flushing, Idle
    <2>3. ASSUME NEW p \in 0 .. sent[c], HeldBack(c, p) PROVE HeldBack(c, p)'
      <3>1. Rest(c, p, flusher.rest)
        BY <1>4, <1>c, <2>1, <2>3 DEF HeldBack
      <3>2. Rest(c, p, pending[c])'
        <4>1. PICK list : list = flusher.rest /\ Rest(c, p, list)
          BY <3>1
        <4> QED BY <1>3, <2>1, <4>1
      <3> QED BY <1>2, <1>4, <2>1, <2>2, <2>3, <3>2 DEF HeldBack
    <2> QED BY <1>n, <2>1, <2>2, <2>3
  <1>8. CASE FlushEnd
    <2>1. /\ flusher.at = "send" /\ up' = up /\ pending' = pending /\ pending[c] \in {NotPending, <<>>}
          /\ flusher'.at = "delete" /\ flusher'.conn = c /\ flusher' # Idle
      BY <1>1, <1>8, <1>c, AtRest DEF FlushEnd, Flushers, links
    <2>2. Flushing(c)' /\ \A d \in Conns \ {c} : ~Flushing(d)'
      BY <2>1 DEF Flushing
    <2>3. ASSUME NEW p \in 0 .. sent[c], HeldBack(c, p) PROVE HeldBack(c, p)'
      <3>1. Rest(c, p, pending[c]) /\ pending[c] = <<>>
        BY <1>4, <1>c, <2>1, <2>3 DEF HeldBack
      <3>2. p = sent[c]
        BY <3>1, RestOut
      <3> QED BY <1>2, <1>4, <2>1, <2>2, <2>3, <3>2 DEF HeldBack
    <2> QED BY <1>n, <2>1, <2>2, <2>3
  <1>9. CASE FlushDelete
    <2>1. flusher.at = "delete" /\ up' = up /\ pending'[c] = NotPending /\ flusher' = Idle
      BY <1>9, <1>c DEF FlushDelete, links
    <2>2. \A d \in Conns : ~Flushing(d)'
      BY <2>1 DEF Flushing
    <2>3. ASSUME NEW p \in 0 .. sent[c], HeldBack(c, p) PROVE HeldBack(c, p)'
      <3>1. p = sent[c]
        BY <1>4, <1>c, <2>1, <2>3 DEF HeldBack
      <3> QED BY <1>2, <1>4, <2>1, <2>2, <2>3, <3>1 DEF HeldBack
    <2> QED BY <1>n, <2>1, <2>2, <2>3
  <1> QED BY <1>5, <1>6, <1>7, <1>8, <1>9

(* Each step of the client. *)
LEMMA ClientKeepsSending ==
    ASSUME Inv, Confirming, Sending, ClientNext, UNCHANGED serverVars
    PROVE  Sending'
  <1>1. ASSUME NEW c \in Conns, BrowserData(c)
        PROVE  Sending'
    <2>1. /\ handler[c] = Idle /\ sent' = [sent EXCEPT ![c] = @ + 1] /\ Handle(c, <<c, sent[c] + 1>>)
          /\ UNCHANGED <<pending, clientToID, flusher>>
      BY <1>1 DEF BrowserData
    <2> QED BY <2>1, HandleSends
  <1>2. ASSUME NEW c \in Conns, BrowserEnd(c)
        PROVE  Sending'
    <2>1. /\ handler[c] = Idle /\ sent' = sent /\ Handle(c, Nothing)
          /\ UNCHANGED <<pending, clientToID, flusher>>
      BY <1>2 DEF BrowserEnd
    <2> QED BY <2>1, HandleSends
  <1>3. CASE FromServer
    <2> DEFINE frame == Head(down)
    <2>1. /\ frame = down[1] /\ 1 \in DOMAIN down /\ frame.id \in IDs
          /\ frame.op = "connect" => owner[frame.id] = frame.data
          /\ flusher = Idle /\ UNCHANGED <<up, sent, handler, pending>>
          /\ Confirmed(frame) \/ Closed(frame) \/ Replied(frame) \/ Ignored(frame)
      BY <1>3, Facts, Queue, FrameFacts DEF FromServer, Inv, Ownership, DownOwned
    <2> HIDE DEF frame
    <2>2. CASE Confirmed(frame)
      <3>1. frame.op = "connect"
        BY <2>2 DEF Confirmed
      <3> QED BY <2>1, <2>2, <3>1, ConfirmedSends
    <2>3. CASE Closed(frame) \/ Replied(frame) \/ Ignored(frame)
      <3>1. UNCHANGED <<clientToID, flusher, overlapped>>
        BY <2>3 DEF Closed, Replied, Ignored
      <3>2. ASSUME NEW d \in Conns, NEW p \in 0 .. sent[d], HeldBack(d, p) PROVE HeldBack(d, p)'
        BY <2>1, <3>1, <3>2, HeldBackKept
      <3>3. ASSUME NEW i, NEW d, NEW p, Arriving(i, d, p) PROVE Arriving(i, d, p)'
        <4>1. UNCHANGED <<received, target, dispatcher>> /\ (Dispatching(i)' <=> Dispatching(i))
          BY DEF serverVars, Dispatching
        <4> QED BY <2>1, <3>3, <4>1, ArrivingKept
      <3>4. owner' = owner
        BY DEF serverVars
      <3> QED BY <2>1, <3>1, <3>2, <3>3, <3>4 DEF Sending
    <2> QED BY <2>1, <2>2, <2>3
  <1> QED BY <1>1, <1>2, <1>3, PendingSends, FlushSends DEF ClientNext, ClientReader

(* No step puts data into a close frame. *)
LEMMA FramedKept ==
    ASSUME Inv, Framed, [Next]_vars
    PROVE  Framed'
  <1> USE Facts
  <1>1. ASSUME UNCHANGED dispatcher,
               \/ up' = up
               \/ \E f \in UpFrames : up' = Append(up, f) /\ (f.op = "close" => f.data = Nothing)
        PROVE  Framed'
    <2>1. CASE up' = up
      BY <1>1, <2>1 DEF Framed
    <2>2. ASSUME NEW f \in UpFrames, up' = Append(up, f), f.op = "close" => f.data = Nothing,
                 NEW k \in DOMAIN up', up'[k].op = "close"
          PROVE  up'[k].data = Nothing
      <3>1. (k \in DOMAIN up /\ up'[k] = up[k]) \/ up'[k] = f
        BY <2>2, Queue
      <3> QED BY <2>2, <3>1 DEF Framed
    <2> QED BY <1>1, <2>1, <2>2 DEF Framed
  <1>2. ASSUME up' = up, dispatcher' = dispatcher \/ dispatcher'.at # "dispatch"
        PROVE  Framed'
    BY <1>2 DEF Framed
  <1>3. ASSUME ClientNext, UNCHANGED serverVars
        PROVE  Framed'
    <2>0. dispatcher' = dispatcher
      BY <1>3 DEF serverVars
    <2>1. ASSUME NEW c \in Conns, NEW data \in Data(c), Handle(c, data)
          PROVE  Framed'
      <3>1. CASE up' = up
        BY <1>2, <2>0, <3>1
      <3>2. CASE up' = Append(up, ConnectFrame(c, NoID))
        <4>1. ConnectFrame(c, NoID) \in UpFrames /\ ConnectFrame(c, NoID).op = "connect"
          BY DEF ConnectFrame, UpFrames
        <4> QED BY <1>1, <2>0, <3>2, <4>1
      <3>3. CASE /\ clientToID[c] # NoID
                 /\ up' = Append(up, IF data = Nothing THEN CloseFrame(clientToID[c])
                                     ELSE DataFrame(clientToID[c], data))
        <4>0. data \in AllData /\ Nothing \in AllData /\ clientToID[c] \in IDs
          BY <3>3 DEF AllData, Data
        <4>1. CloseFrame(clientToID[c]) \in UpFrames /\ CloseFrame(clientToID[c]).data = Nothing
          BY <4>0 DEF CloseFrame, UpFrames, IdentifiedFrames
        <4>2. DataFrame(clientToID[c], data) \in UpFrames /\ DataFrame(clientToID[c], data).op = "data"
          BY <4>0 DEF DataFrame, UpFrames, IdentifiedFrames
        <4> QED BY <1>1, <2>0, <3>3, <4>1, <4>2
      <3> QED BY <2>1, <3>1, <3>2, <3>3 DEF Handle
    <2>2. ASSUME NEW c \in Conns, BrowserData(c) \/ BrowserEnd(c)
          PROVE  Framed'
      <3>1. <<c, sent[c] + 1>> \in Data(c) /\ Nothing \in Data(c)
        BY DEF Data
      <3> QED BY <2>1, <2>2, <3>1 DEF BrowserData, BrowserEnd
    <2>3. CASE FlushSend
      <3>1. PICK f \in UpFrames : up' = Append(up, f) /\ f.op = "data"
        BY <2>3, FlushFrame DEF DataFrame
      <3> QED BY <1>1, <2>0, <3>1
    <2>4. CASE \/ \E c \in Conns : FetchPending(c) \/ StorePending(c)
               \/ FromServer \/ FlushCut \/ FlushSet \/ FlushEnd \/ FlushDelete
      <3>1. up' = up
        BY <2>4 DEF FetchPending, StorePending, FromServer, FlushCut, FlushSet, FlushEnd, FlushDelete, links
      <3> QED BY <1>2, <2>0, <3>1
    <2> QED BY <1>3, <2>2, <2>3, <2>4 DEF ClientNext, ClientReader
  <1>4. CASE FromClient
    <2> DEFINE frame == Head(up)
    <2>1. up # <<>> /\ up' = Tail(up) /\ 1 \in DOMAIN up /\ frame = up[1] /\ dispatcher = Idle
      BY <1>4, Queue DEF FromClient
    <2>2. frame.op = "close" => frame.data = Nothing
      BY <2>1 DEF Framed
    <2>3. \A k \in DOMAIN up' : up'[k].op = "close" => up'[k].data = Nothing
      BY <2>1, Queue DEF Framed
    <2>4. \/ dispatcher' = dispatcher
          \/ dispatcher' = [at |-> "dispatch", id |-> frame.id, frame |-> frame]
          \/ dispatcher'.at = "register"
      BY <1>4 DEF FromClient, Dial
    <2> HIDE DEF frame
    <2> QED BY <2>1, <2>2, <2>3, <2>4, AtRest DEF Framed
  <1>5. CASE RegisterID \/ RegisterClient \/ Answer \/ Dispatch \/ Unmap \/ Forget
    <2>1. up' = up /\ dispatcher'.at # "dispatch"
      <3>1. CASE RegisterID \/ RegisterClient \/ Unmap
        BY <1>5, <3>1, DispatcherMoves DEF RegisterID, RegisterClient, Unmap, links, Inv
      <3>2. CASE Answer \/ Dispatch \/ Forget
        BY <1>5, <3>2, AtRest DEF Answer, Dispatch, Forget, links
      <3> QED BY <1>5, <3>1, <3>2
    <2> QED BY <1>2, <2>1
  <1>6. CASE \E id \in IDs : TargetData(id) \/ TargetEnd(id) \/ TargetReader(id)
    <2>1. up' = up /\ dispatcher' = dispatcher
      BY <1>6 DEF TargetData, TargetEnd, TargetReader, Forward, EndUnmap, EndTell, links
    <2> QED BY <1>2, <2>1
  <1>7. UNCHANGED vars => up' = up /\ dispatcher' = dispatcher
    BY DEF vars, links, serverVars
  <1> QED BY <1>2, <1>3, <1>4, <1>5, <1>6, <1>7 DEF Next, ServerNext, ServerReader

(* What the server takes off the link is the next piece for its target, and reaches it. *)
LEMMA ServerKeepsSending ==
    ASSUME Inv, HeardOf, ClosedFirst, Framed, Sending, ServerNext, UNCHANGED clientVars
    PROVE  Sending'
  <1> USE Facts
  <1>0. /\ UNCHANGED <<sent, overlapped, clientToID, handler, pending, flusher>>
        /\ \A c, p : HeldBack(c, p) => HeldBack(c, p)'
    <2>1. UNCHANGED <<sent, overlapped, clientToID, handler, pending, flusher>>
      BY DEF clientVars
    <2> QED BY <2>1, HeldBackKept
  <1>1. ASSUME owner' = owner,
               \A i \in IDs : \A c \in Conns : \A p \in 0 .. sent[c] :
                   owner[i] = c /\ Arriving(i, c, p) => Arriving(i, c, p)'
        PROVE  Sending'
    BY <1>0, <1>1 DEF Sending
  <1>2. ASSUME UNCHANGED <<owner, up, received>>, \A i \in IDs : target'[i] = "open" => target[i] = "open",
               dispatcher' = dispatcher \/ (dispatcher.at # "dispatch" /\ dispatcher'.at # "dispatch")
        PROVE  Sending'
    <2>1. \A i \in IDs : (Dispatching(i)' <=> Dispatching(i))
                         /\ (Dispatching(i) => dispatcher'.frame = dispatcher.frame)
      BY <1>2 DEF Dispatching
    <2>2. \A i \in IDs : \A c, p : Arriving(i, c, p) => Arriving(i, c, p)'
      BY <1>2, <2>1, ArrivingKept
    <2> QED BY <1>1, <1>2, <2>2
  <1>3. CASE FromClient
    <2> DEFINE frame == Head(up)
    <2>1. /\ up # <<>> /\ up' = Tail(up) /\ 1 \in DOMAIN up /\ frame = up[1] /\ dispatcher = Idle
          /\ UNCHANGED <<registered, known, received>>
          /\ frame.op = "connect" => frame.data \in Conns
          /\ frame.op # "connect" => /\ frame.id \in IDs /\ Owned(frame.id, frame.data)
                                     /\ frame.data \in AllData
      BY <1>3, Queue, FrameFacts DEF FromClient, Inv, Ownership, UpOwned
    <2>2. \A i \in IDs : ~Dispatching(i) /\ Len(received[i]) \in Nat
      BY <2>1, AtRest DEF Dispatching
    <2>3. ASSUME NEW i \in IDs, NEW c \in Conns, NEW p \in 0 .. sent[c], Arriving(i, c, p),
                 ~Carries(frame, i), target'[i] = "open" => target[i] = "open",
                 ~Dispatching(i)'
          PROVE  Arriving(i, c, p)'
      <3>1. PICK have \in Nat : have = Len(received[i])
        BY <2>2
      <3>2. ASSUME Stream(up, i, 0, have + 1, p) PROVE Stream(up', i, 0, have + 1, p)
        BY <2>1, <2>3, <3>2, StreamSkips
      <3> QED BY <2>1, <2>2, <2>3, <3>1, <3>2 DEF Arriving
    <2>4. CASE frame.op = "connect" /\ Dial(frame.data)
      <3>1. PICK id \in IDs :
              /\ owner[id] = NoConn /\ owner' = [owner EXCEPT ![id] = frame.data]
              /\ dispatcher' = [at |-> "register", id |-> id]
              /\ target' = [target EXCEPT ![id] = "open"] \/ target' = target
        BY <2>1, <2>4, DialDraws
      <3>2. PICK a \in Conns : a = frame.data /\ Asks(up[1], a)
        BY <2>1, <2>4 DEF Asks
      <3>3. /\ \A i \in IDs : ~Carries(frame, i) /\ ~Dispatching(i)' /\ owner[i] # a
            /\ clientToID[a] = NoID
        <4>1. \A i \in IDs : owner[i] # a
          BY <2>1, <3>2 DEF Inv, AskedOnce
        <4>2. clientToID[a] = NoID
          BY <4>1 DEF Inv, Ownership, MapsOwned
        <4> QED BY <2>4, <3>1, <4>1, <4>2 DEF Carries, Dispatching
      <3> HIDE DEF frame
      <3>4. ASSUME NEW i \in IDs, i # id, NEW c \in Conns, NEW p \in 0 .. sent[c], Arriving(i, c, p)
            PROVE  Arriving(i, c, p)'
        BY <2>3, <3>1, <3>3, <3>4
      <3>5. Arriving(id, a, 0)'
        <4>1. received[id] = <<>>
          <5>1. \A n \in DOMAIN received[id] : FALSE
            <6>1. \A n \in DOMAIN received[id] : received[id][n] \in Conns \X Nat
              OBVIOUS
            <6>2. \A n \in DOMAIN received[id] : received[id][n][1] = NoConn
              BY <3>1 DEF Inv, Ownership, NothingCrosses
            <6>3. \A e \in Conns \X Nat : e[1] \in Conns
              OBVIOUS
            <6> QED BY <6>1, <6>2, <6>3
          <5> QED BY <5>1, Queue
        <4>2. \A k \in DOMAIN up' : ~Carries(up'[k], id)
          <5>1. \A k \in DOMAIN up : ~Carries(up[k], id)
            <6>1. id \notin Linked
              BY <3>1 DEF Linked
            <6> QED BY <6>1 DEF HeardOf, Carries
          <5> QED BY <2>1, <5>1, Queue
        <4>3. Stream(up', id, 0, 1, 0)
          BY <4>2 DEF Stream
        <4>4. received'[id] = <<>> /\ ~Dispatching(id)'
          BY <2>1, <3>3, <4>1
        <4> QED BY <4>3, <4>4 DEF Arriving
      <3>6. ASSUME NEW c \in Conns \ overlapped'
            PROVE  \E p \in 0 .. sent'[c] :
                       HeldBack(c, p)' /\ \A i \in IDs : owner'[i] = c => Arriving(i, c, p)'
        <4>1. PICK p \in 0 .. sent[c] : HeldBack(c, p) /\ \A i \in IDs : owner[i] = c => Arriving(i, c, p)
          BY <1>0, <3>6 DEF Sending
        <4>2. CASE c = a
          <5>1. p = 0
            BY <3>3, <4>1, <4>2 DEF HeldBack
          <5>2. \A i \in IDs : owner'[i] = c => i = id
            BY <3>1, <3>3, <4>2
          <5>3. HeldBack(c, 0)' /\ 0 \in 0 .. sent'[c]
            BY <1>0, <4>1, <5>1
          <5> QED BY <3>5, <4>2, <5>2, <5>3
        <4>3. CASE c # a
          <5>1. \A i \in IDs : owner'[i] = c => i # id /\ owner[i] = c
            BY <3>1, <3>2, <4>3
          <5> QED BY <1>0, <3>4, <4>1, <5>1
        <4> QED BY <4>2, <4>3
      <3> QED BY <3>6 DEF Sending
    <2>5. CASE /\ frame.id \in registered
               /\ dispatcher' = [at |-> "dispatch", id |-> frame.id, frame |-> frame]
               /\ UNCHANGED <<owner, target, alive, reader>>
      <3> HIDE DEF frame
      <3>1. ASSUME NEW i \in IDs, NEW c \in Conns, NEW p \in 0 .. sent[c], owner[i] = c, Arriving(i, c, p)
            PROVE  Arriving(i, c, p)'
        <4>0. Dispatching(i)' <=> Carries(frame, i)
          BY <2>5 DEF Dispatching
        <4>1. CASE ~Carries(frame, i)
          BY <2>3, <2>5, <3>1, <4>0, <4>1
        <4>2. CASE Carries(frame, i)
          <5>1. PICK have \in Nat : have = Len(received[i])
            BY <2>2
          <5>2. have <= p /\ \A n \in 1 .. have : received[i][n] = <<c, n>>
            BY <3>1, <5>1 DEF Arriving
          <5>3. ASSUME target[i] = "open"
                PROVE  have + 1 <= p /\ frame.data = <<c, have + 1>> /\ Stream(up', i, 0, have + 2, p)
            <6>1. Stream(up, i, 0, have + 1, p)
              BY <2>2, <3>1, <5>1, <5>3 DEF Arriving
            <6>2. Carries(Head(up), i)
              BY <4>2 DEF frame
            <6>3. Number(frame) = have + 1 /\ have + 1 <= p /\ Stream(up', i, 0, have + 1 + 1, p)
              BY <2>1, <6>1, <6>2, StreamTakes DEF frame
            <6>4. frame.data \in Conns \X Nat /\ frame.data[1] = c
              BY <2>1, <3>1, <4>2 DEF Carries, Owned, AllData
            <6>5. \A e \in Conns \X Nat : e = <<e[1], e[2]>>
              OBVIOUS
            <6>6. frame.data = <<c, have + 1>>
              BY ONLY <6>3, <6>4, <6>5 DEF Number
            <6>7. have + 1 + 1 = have + 2
              OBVIOUS
            <6> QED BY <6>3, <6>6, <6>7
          <5>4. received' = received /\ target' = target /\ dispatcher'.frame = frame
            BY <2>1, <2>5
          <5> QED BY <4>0, <4>2, <5>1, <5>2, <5>3, <5>4 DEF Arriving
        <4> QED BY <4>1, <4>2
      <3> QED BY <1>1, <2>5, <3>1
    <2>6. CASE /\ frame.op # "connect" /\ frame.id \notin registered
               /\ UNCHANGED <<owner, target, alive, reader, dispatcher>>
      <3> HIDE DEF frame
      <3>1. ASSUME NEW i \in IDs, NEW c \in Conns, NEW p \in 0 .. sent[c], Arriving(i, c, p)
            PROVE  Arriving(i, c, p)'
        <4>0. ~Dispatching(i)' /\ target' = target
          BY <2>1, <2>6, AtRest DEF Dispatching
        <4>1. CASE ~Carries(frame, i)
          BY <2>3, <3>1, <4>0, <4>1
        <4>2. CASE Carries(frame, i)
          <5>1. target[i] # "open"
            <6>1. i \in Linked /\ i \notin registered
              BY <2>1, <2>6, <4>2 DEF HeardOf, Carries
            <6> QED BY <6>1 DEF Linked
          <5> QED BY <2>1, <2>2, <3>1, <4>0, <5>1 DEF Arriving
        <4> QED BY <4>1, <4>2
      <3> QED BY <1>1, <2>6, <3>1
    <2> QED BY <1>3, <2>4, <2>5, <2>6 DEF FromClient
  <1>4. CASE Dispatch
    <2>0. PICK id \in IDs : id = dispatcher.id
      BY <1>4, DispatcherAt DEF Dispatch, Inv
    <2> DEFINE data == dispatcher.frame.data
               live == id \in registered /\ id \in alive
    <2>1. /\ dispatcher.at = "dispatch" /\ UNCHANGED <<owner, up>>
          /\ received' = IF live /\ target[id] = "open" /\ data # Nothing
                         THEN [received EXCEPT ![id] = Append(@, data)] ELSE received
          /\ target' = target \/ target' = [target EXCEPT ![id] = "closed"]
          /\ \A i \in IDs : target'[i] = "open" => target[i] = "open"
      BY <1>4, <2>0 DEF Dispatch, links
    <2>2. dispatcher'.at # "dispatch"
      BY <1>4, AtRest DEF Dispatch
    <2>3. /\ dispatcher.frame.id = id /\ (dispatcher.frame.op = "close" => data = Nothing)
          /\ dispatcher.frame.op \in {"close", "data"}
      BY <2>0, <2>1, DispatcherAt DEF Framed, Inv, IdentifiedFrames
    <2>4. \A i \in IDs : ~Dispatching(i)' /\ (Dispatching(i) <=> i = id /\ data # Nothing)
      BY <2>1, <2>2, <2>3 DEF Dispatching, Carries
    <2>5. target[id] = "open" => live
      BY <2>0, <2>1 DEF HeardOf, ClosedFirst, Linked
    <2> HIDE DEF data, live
    <2>6. ASSUME NEW i \in IDs, NEW c \in Conns, NEW p \in 0 .. sent[c], Arriving(i, c, p)
          PROVE  Arriving(i, c, p)'
      <3>1. CASE received'[i] = received[i] /\ (Dispatching(i) => target[i] # "open")
        <4>1. PICK have \in Nat : have = Len(received[i])
          OBVIOUS
        <4>2. have <= p /\ \A n \in 1 .. have : received[i][n] = <<c, n>>
          BY <2>6, <4>1 DEF Arriving
        <4>3. target[i] = "open" => ~Dispatching(i) /\ Stream(up, i, 0, have + 1, p)
          BY <2>6, <3>1, <4>1 DEF Arriving
        <4> QED BY <2>1, <2>4, <3>1, <4>1, <4>2, <4>3 DEF Arriving
      <3>2. CASE i = id /\ data # Nothing /\ target[id] = "open"
        <4>1. received[i] \in Seq(Conns \X Nat) /\ received'[i] = Append(received[i], data)
          BY <2>1, <2>5, <3>2
        <4>2. PICK have \in Nat : have = Len(received[i])
          BY ONLY <4>1
        <4>3. /\ \A n \in 1 .. have : received[i][n] = <<c, n>>
              /\ have + 1 <= p /\ data = <<c, have + 1>> /\ Stream(up, i, 0, have + 1 + 1, p)
          BY <2>4, <2>6, <3>2, <4>2 DEF Arriving, data
        <4>e. PICK e \in Conns \X Nat : e = data
          <5>1. <<c, have + 1>> \in Conns \X Nat
            OBVIOUS
          <5> QED BY <4>3, <5>1
        <4>4. /\ Len(received'[i]) = have + 1 /\ received'[i][have + 1] = data
              /\ \A n \in 1 .. have : received'[i][n] = received[i][n]
          BY <4>1, <4>2, <4>e
        <4>5. \A n \in 1 .. have + 1 : received'[i][n] = <<c, n>>
          <5> TAKE n \in 1 .. have + 1
          <5>1. n \in 1 .. have \/ n = have + 1
            BY <4>2
          <5> QED BY <4>3, <4>4, <5>1
        <4> QED BY <2>1, <2>4, <4>3, <4>4, <4>5 DEF Arriving
      <3> QED BY <2>1, <2>4, <3>1, <3>2
    <2> QED BY <1>1, <2>1, <2>6
  <1>5. CASE RegisterID \/ RegisterClient \/ Unmap
    BY <1>2, <1>5, DispatcherMoves DEF RegisterID, RegisterClient, Unmap, links, Inv
  <1>6. CASE Answer \/ Forget
    BY <1>2, <1>6, AtRest DEF Answer, Forget, links
  <1>7. ASSUME NEW id \in IDs, TargetData(id) \/ Forward(id) \/ EndUnmap(id) \/ EndTell(id)
        PROVE  Sending'
    BY <1>2, <1>7 DEF TargetData, Forward, EndUnmap, EndTell, links
  <1>8. ASSUME NEW id \in IDs, TargetEnd(id)
        PROVE  Sending'
    BY <1>2, <1>8 DEF TargetEnd, links
  <1> QED BY <1>3, <1>4, <1>5, <1>6, <1>7, <1>8 DEF ServerNext, ServerReader, TargetReader

-----------------------------------------------------------------------------
(* What a target gets *)

(* Everything about data. *)
DataInv == Framed /\ Sending

(* Nothing was sent at first. *)
LEMMA InitData == Init => DataInv
  <1> SUFFICES ASSUME Init PROVE DataInv
    OBVIOUS
  <1> USE DEF Init, LinkInit, ClientInit, ServerInit
  <1>1. Framed
    BY AtRest DEF Framed
  <1>2. \A c \in Conns : HeldBack(c, 0)
    BY AtRest DEF HeldBack, Flushing
  <1>3. \A i \in IDs : owner[i] = NoConn
    OBVIOUS
  <1> QED BY <1>1, <1>2, <1>3, TunnelAssumption DEF DataInv, Sending

(* Every step keeps the data in order. *)
LEMMA NextData == Inv /\ ReplyInv /\ DataInv /\ [Next]_vars => DataInv'
  <1> SUFFICES ASSUME Inv, ReplyInv, DataInv, [Next]_vars PROVE DataInv'
    OBVIOUS
  <1> USE DEF ReplyInv, DataInv
  <1>0. Framed'
    BY FramedKept
  <1>1. CASE ClientNext /\ UNCHANGED serverVars
    BY <1>0, <1>1, ClientKeepsSending
  <1>2. CASE ServerNext /\ UNCHANGED clientVars
    BY <1>0, <1>2, ServerKeepsSending
  <1>3. CASE UNCHANGED vars
    <2>1. /\ UNCHANGED <<sent, handler, pending, clientToID, flusher, overlapped>>
          /\ UNCHANGED <<up, received, target, dispatcher, owner>>
      BY <1>3 DEF vars, links, clientVars, serverVars
    <2>2. \A c, p : HeldBack(c, p) => HeldBack(c, p)'
      BY <2>1, HeldBackKept
    <2>3. \A i, c, p : Arriving(i, c, p) => Arriving(i, c, p)'
      BY <2>1, ArrivingKept DEF Dispatching
    <2> QED BY <1>0, <2>1, <2>2, <2>3 DEF Sending
  <1> QED BY <1>1, <1>2, <1>3 DEF Next

(* A sequence whose elements are the first of another is a prefix of it. *)
LEMMA StartsWith ==
    ASSUME NEW T, NEW s \in Seq(T), NEW t \in Seq(T), Len(s) <= Len(t),
           \A i \in 1 .. Len(s) : t[i] = s[i]
    PROVE  IsPrefix(s, t)
  <1> DEFINE a == SubSeq(s, 1, Len(s))
             b == SubSeq(t, 1, Len(s))
  <1>1. /\ \A i \in 1 .. Len(s) : s[i] \in T /\ t[i] \in T
        /\ Len(s) \in Nat
    OBVIOUS
  <1>2. a \in Seq(T) /\ Len(a) = Len(s) /\ \A i \in 1 .. Len(s) : a[i] = s[i]
    BY <1>1, SubSeqProperties
  <1>3. b \in Seq(T) /\ Len(b) = Len(s) /\ \A i \in 1 .. Len(s) : b[i] = t[i]
    BY <1>1, SubSeqProperties
  <1> HIDE DEF a, b
  <1>4. a = b
    <2>1. Len(a) = Len(b) /\ \A i \in 1 .. Len(a) : a[i] = b[i]
      BY <1>2, <1>3
    <2> QED BY ONLY <1>2, <1>3, <2>1, SeqEqual
  <1> QED BY <1>4 DEF IsPrefix, a, b

(* The first n pieces of a browser. *)
LEMMA Numbered ==
    ASSUME NEW c \in Conns, NEW n \in Nat
    PROVE  /\ [m \in 1 .. n |-> <<c, m>>] \in Seq(Conns \X Nat)
           /\ Len([m \in 1 .. n |-> <<c, m>>]) = n
           /\ \A k \in 1 .. n : [m \in 1 .. n |-> <<c, m>>][k] = <<c, k>>
  <1> DEFINE all == [m \in 1 .. n |-> <<c, m>>]
  <1>1. all \in [1 .. n -> Conns \X Nat]
    <2>1. \A m \in 1 .. n : m \in Nat
      OBVIOUS
    <2> QED BY ONLY <2>1, c \in Conns
  <1>2. DOMAIN all = 1 .. n
    OBVIOUS
  <1>3. \A k \in 1 .. n : all[k] = <<c, k>>
    BY ONLY TRUE
  <1> HIDE DEF all
  <1>4. all \in Seq(Conns \X Nat)
    BY ONLY <1>1, n \in Nat
  <1>5. Len(all) = n
    BY ONLY <1>2, <1>4, n \in Nat
  <1> QED BY <1>3, <1>4, <1>5 DEF all

(* What a target gets is what its browser sent, in order and without a gap or a repetition, *)
(* through the handshake, the list that is held back until it ends and the flush of that    *)
(* list - unless handleTCPReadFunc was storing to the list while the answer was handled.    *)
THEOREM DataIntact == Spec => []IntactUnlessOverlapped
  <1>1. Inv /\ DataInv => IntactUnlessOverlapped
    <2> SUFFICES ASSUME Inv, DataInv, NEW i \in IDs, owner[i] \in Conns \ overlapped
                 PROVE  IsPrefix(received[i], [n \in 1 .. sent[owner[i]] |-> <<owner[i], n>>])
      BY DEF IntactUnlessOverlapped
    <2>c. PICK c \in Conns : c = owner[i] /\ c \notin overlapped
      OBVIOUS
    <2>1. PICK p \in 0 .. sent[c] : Arriving(i, c, p)
      BY <2>c DEF DataInv, Sending
    <2>2. PICK have \in Nat : have = Len(received[i])
      BY Facts
    <2>3. have <= p /\ \A n \in 1 .. have : received[i][n] = <<c, n>>
      BY <2>1, <2>2 DEF Arriving
    <2>4. sent[c] \in Nat /\ have <= sent[c] /\ received[i] \in Seq(Conns \X Nat)
      BY <2>3, Facts
    <2> DEFINE all == [n \in 1 .. sent[c] |-> <<c, n>>]
    <2>5. /\ all \in Seq(Conns \X Nat) /\ Len(all) = sent[c]
          /\ \A n \in 1 .. sent[c] : all[n] = <<c, n>>
      <3>1. sent[c] \in Nat
        BY <2>4
      <3> QED BY <3>1, Numbered
    <2> HIDE DEF all
    <2>6. Len(received[i]) <= Len(all) /\ \A n \in 1 .. Len(received[i]) : all[n] = received[i][n]
      <3>1. 1 .. have \subseteq 1 .. sent[c]
        BY <2>4
      <3>2. \A n \in 1 .. have : all[n] = received[i][n]
        BY ONLY <2>3, <2>5, <3>1
      <3> QED BY <2>2, <2>4, <2>5, <3>2
    <2>7. IsPrefix(received[i], all)
      BY ONLY <2>4, <2>5, <2>6, StartsWith
    <2> QED BY <2>7, <2>c DEF all
  <1>2. Init => Inv /\ ReplyInv /\ DataInv
    BY InitInv, InitReplies, InitData
  <1>3. Inv /\ ReplyInv /\ DataInv /\ [Next]_vars => (Inv /\ ReplyInv /\ DataInv)'
    BY NextInv, NextReplies, NextData
  <1> QED BY <1>1, <1>2, <1>3, PTL DEF Spec

-----------------------------------------------------------------------------
(* Types of the data *)

(* Whatever is held back, on its way or written to a target is something a browser sent. *)
HandlerGenuine(c) ==
    /\ handler[c].at \in {"append", "store"} => handler[c].data \in Pieces(c)
    /\ handler[c].at = "store" => /\ handler[c].list \in Seq(Pieces(c))
                                  /\ Last(handler[c].list) = handler[c].data

Genuine ==
    /\ overlapped \subseteq Conns
    /\ \A c \in Conns : /\ sent[c] <= DataCount(c) /\ HandlerGenuine(c)
                        /\ pending[c] \in {NotPending} \cup Seq(Pieces(c))
    /\ flusher.at = "set" => flusher.rest \in Seq(Pieces(flusher.conn))
    /\ \A k \in DOMAIN up : up[k].op # "connect" => up[k].data \in AllPieces
    /\ dispatcher.at = "dispatch" => dispatcher.frame.data \in AllPieces
    /\ \A i \in IDs : received[i] \in Seq(AllPieces \ {Nothing}) /\ answered[i] >= -1

(* What one browser sends is among what all do. *)
LEMMA SomePieces ==
    ASSUME NEW c \in Conns
    PROVE  Pieces(c) \subseteq AllPieces /\ Nothing \in Pieces(c)
           /\ \A n \in 1 .. DataCount(c) : <<c, n>> \in Pieces(c)
  BY DEF AllPieces, Pieces

(* What is put on the link, or taken off it. *)
LEMMA UpGenuine ==
    ASSUME Inv, Genuine,
           \/ up' = up
           \/ up # <<>> /\ up' = Tail(up)
           \/ \E f \in UpFrames : up' = Append(up, f) /\ (f.op # "connect" => f.data \in AllPieces)
    PROVE  \A k \in DOMAIN up' : up'[k].op # "connect" => up'[k].data \in AllPieces
  <1>0. up \in Seq(UpFrames) /\ \A k \in DOMAIN up : up[k].op # "connect" => up[k].data \in AllPieces
    BY Facts DEF Genuine
  <1>1. CASE up' = up
    BY <1>0, <1>1
  <1>2. CASE up # <<>> /\ up' = Tail(up)
    BY <1>0, <1>2, Queue
  <1>3. ASSUME NEW f \in UpFrames, up' = Append(up, f), f.op # "connect" => f.data \in AllPieces
        PROVE  \A k \in DOMAIN up' : up'[k].op # "connect" => up'[k].data \in AllPieces
    BY <1>0, <1>3, Queue
  <1> QED BY <1>1, <1>2, <1>3

(* A read function is called with what its browser sent. *)
LEMMA HandleGenuine ==
    ASSUME Inv, Genuine, NEW c \in Conns, NEW data \in Pieces(c), data \in Data(c), Handle(c, data)
    PROVE  /\ overlapped' \subseteq Conns
           /\ \A d \in Conns : HandlerGenuine(d)'
           /\ \A k \in DOMAIN up' : up'[k].op # "connect" => up'[k].data \in AllPieces
  <1> USE Facts
  <1>0. data \in AllPieces /\ Nothing \in AllPieces /\ \A d \in Conns : HandlerGenuine(d)
    BY SomePieces DEF Genuine
  <1>1. overlapped' \subseteq Conns
    BY DEF Handle, Genuine
  <1>2. ASSUME NEW h, handler' = [handler EXCEPT ![c] = h],
               h.at \in {"append", "store"} => h.data \in Pieces(c),
               h.at = "store" => h.list \in Seq(Pieces(c)) /\ Last(h.list) = h.data
        PROVE  \A d \in Conns : HandlerGenuine(d)'
    BY <1>0, <1>2 DEF HandlerGenuine
  <1>3. CASE handler' = [handler EXCEPT ![c] = [at |-> "append", data |-> data]] /\ up' = up
    <2>1. \A k \in DOMAIN up' : up'[k].op # "connect" => up'[k].data \in AllPieces
      BY <1>3, UpGenuine
    <2>2. \A d \in Conns : HandlerGenuine(d)'
      BY <1>2, <1>3
    <2> QED BY <1>1, <2>1, <2>2
  <1>4. CASE /\ handler' = [handler EXCEPT ![c] = [at |-> "store", data |-> data, list |-> <<data>>]]
             /\ up' = Append(up, ConnectFrame(c, NoID))
    <2>1. \A k \in DOMAIN up' : up'[k].op # "connect" => up'[k].data \in AllPieces
      <3>1. ConnectFrame(c, NoID) \in UpFrames /\ ConnectFrame(c, NoID).op = "connect"
        BY DEF ConnectFrame, UpFrames
      <3> QED BY <1>4, <3>1, UpGenuine
    <2>2. <<data>> \in Seq(Pieces(c)) /\ Last(<<data>>) = data
      BY DEF Last
    <2>3. \A d \in Conns : HandlerGenuine(d)'
      BY <1>2, <1>4, <2>2
    <2> QED BY <1>1, <2>1, <2>3
  <1>5. CASE /\ clientToID[c] # NoID
             /\ up' = Append(up, IF data = Nothing THEN CloseFrame(clientToID[c])
                                 ELSE DataFrame(clientToID[c], data))
             /\ handler' = [handler EXCEPT ![c] = After(data)]
    <2>0. data \in AllData /\ Nothing \in AllData /\ clientToID[c] \in IDs
      BY <1>5 DEF AllData, Data
    <2>1. CloseFrame(clientToID[c]) \in UpFrames /\ CloseFrame(clientToID[c]).data = Nothing
      BY <2>0 DEF CloseFrame, UpFrames, IdentifiedFrames
    <2>2. DataFrame(clientToID[c], data) \in UpFrames /\ DataFrame(clientToID[c], data).data = data
      BY <2>0 DEF DataFrame, UpFrames, IdentifiedFrames
    <2>3. \A k \in DOMAIN up' : up'[k].op # "connect" => up'[k].data \in AllPieces
      BY <1>0, <1>5, <2>1, <2>2, UpGenuine
    <2>4. After(data).at \notin {"append", "store"}
      BY AtRest DEF After
    <2>5. \A d \in Conns : HandlerGenuine(d)'
      BY <1>2, <1>5, <2>4
    <2> QED BY <1>1, <2>3, <2>5
  <1> QED BY <1>3, <1>4, <1>5 DEF Handle

(* Each step keeps it so. *)
LEMMA GenuineKept ==
    ASSUME Inv, Answering, Genuine, [Next]_vars
    PROVE  Genuine'
  <1> USE Facts
  <1>0. /\ overlapped \subseteq Conns /\ \A c \in Conns : HandlerGenuine(c)
        /\ \A k \in DOMAIN up : up[k].op # "connect" => up[k].data \in AllPieces
    BY DEF Genuine
  <1>1. ASSUME ClientNext, UNCHANGED serverVars
        PROVE  Genuine'
    <2>0. UNCHANGED <<dispatcher, received, answered>>
      BY <1>1 DEF serverVars
    <2>1. ASSUME NEW c \in Conns, BrowserData(c)
          PROVE  Genuine'
      <3>1. /\ sent' = [sent EXCEPT ![c] = @ + 1] /\ sent[c] < DataCount(c) /\ Handle(c, <<c, sent[c] + 1>>)
            /\ UNCHANGED <<pending, flusher>>
        BY <2>1 DEF BrowserData
      <3>2. sent[c] \in Nat /\ DataCount(c) \in Nat /\ \A d \in Conns : sent'[d] <= DataCount(d)
        <4>1. sent[c] \in Nat /\ DataCount(c) \in Nat
          BY TunnelAssumption
        <4>2. \A d \in Conns : sent[d] <= DataCount(d)
          BY DEF Genuine
        <4> QED BY <3>1, <4>1, <4>2
      <3>3. <<c, sent[c] + 1>> \in Pieces(c) /\ <<c, sent[c] + 1>> \in Data(c)
        <4>1. sent[c] + 1 \in 1 .. DataCount(c)
          BY <3>1, <3>2
        <4> QED BY <4>1, SomePieces DEF Data
      <3>4. /\ overlapped' \subseteq Conns /\ \A d \in Conns : HandlerGenuine(d)'
            /\ \A k \in DOMAIN up' : up'[k].op # "connect" => up'[k].data \in AllPieces
        BY <3>1, <3>3, HandleGenuine
      <3> QED BY <2>0, <3>1, <3>2, <3>4 DEF Genuine
    <2>2. ASSUME NEW c \in Conns, BrowserEnd(c)
          PROVE  Genuine'
      <3>1. Handle(c, Nothing) /\ UNCHANGED <<sent, pending, flusher>>
        BY <2>2 DEF BrowserEnd
      <3>2. Nothing \in Pieces(c) /\ Nothing \in Data(c)
        BY SomePieces DEF Data
      <3>3. /\ overlapped' \subseteq Conns /\ \A d \in Conns : HandlerGenuine(d)'
            /\ \A k \in DOMAIN up' : up'[k].op # "connect" => up'[k].data \in AllPieces
        BY <3>1, <3>2, HandleGenuine
      <3> QED BY <2>0, <3>1, <3>3 DEF Genuine
    <2>3. ASSUME NEW c \in Conns, FetchPending(c)
          PROVE  Genuine'
      <3>1. UNCHANGED <<up, sent, overlapped, pending, flusher>> /\ handler[c].at = "append"
        BY <2>3 DEF FetchPending, links
      <3>2. handler[c].data \in Pieces(c)
        BY <1>0, <3>1 DEF HandlerGenuine
      <3>3. PICK list \in Seq(Pieces(c)) : list = IF pending[c] = NotPending THEN <<>> ELSE pending[c]
        <4>1. \A S : <<>> \in Seq(S)
          OBVIOUS
        <4> QED BY <4>1 DEF Genuine
      <3>4. handler' = [handler EXCEPT ![c] = [at |-> "store", data |-> handler[c].data,
                                               list |-> Append(list, handler[c].data)]]
        BY <2>3, <3>3 DEF FetchPending
      <3>5. /\ Append(list, handler[c].data) \in Seq(Pieces(c))
            /\ Last(Append(list, handler[c].data)) = handler[c].data
        BY <3>2, LastAppended, Queue DEF Last
      <3>6. \A d \in Conns : HandlerGenuine(d)'
        BY <1>0, <3>2, <3>4, <3>5 DEF HandlerGenuine
      <3> QED BY <2>0, <3>1, <3>6 DEF Genuine
    <2>4. ASSUME NEW c \in Conns, StorePending(c)
          PROVE  Genuine'
      <3>1. /\ UNCHANGED <<up, sent, overlapped, flusher>> /\ handler[c].at = "store"
            /\ pending' = [pending EXCEPT ![c] = handler[c].list]
            /\ handler' = [handler EXCEPT ![c] = After(handler[c].data)]
        BY <2>4 DEF StorePending, links
      <3>2. \A d \in Conns : pending'[d] \in {NotPending} \cup Seq(Pieces(d))
        BY <1>0, <3>1 DEF HandlerGenuine, Genuine
      <3>3. After(handler[c].data).at \notin {"append", "store"}
        BY AtRest DEF After
      <3>4. \A d \in Conns : HandlerGenuine(d)'
        BY <1>0, <3>1, <3>3 DEF HandlerGenuine
      <3> QED BY <2>0, <3>1, <3>2, <3>4 DEF Genuine
    <2>5. CASE FromServer
      <3>1. /\ UNCHANGED <<sent, handler, pending, up>>
            /\ flusher' = flusher \/ flusher'.at = "send"
            /\ overlapped' \subseteq Conns
        <4> DEFINE frame == Head(down)
        <4>1. UNCHANGED <<sent, handler, pending, up>>
          BY <2>5 DEF FromServer
        <4>2. CASE Confirmed(frame)
          <5>1. flusher'.at = "send" /\ frame.data \in waiting
            BY <4>2 DEF Confirmed
          <5>2. overlapped' = overlapped \/ overlapped' = overlapped \cup {frame.data}
            BY <4>2 DEF Confirmed
          <5> QED BY <1>0, <4>1, <5>1, <5>2
        <4>3. CASE Closed(frame) \/ Replied(frame) \/ Ignored(frame)
          <5>1. flusher' = flusher /\ overlapped' = overlapped
            BY <4>3 DEF Closed, Replied, Ignored
          <5> QED BY <1>0, <4>1, <5>1
        <4> QED BY <2>5, <4>2, <4>3 DEF FromServer
      <3>2. \A d \in Conns : HandlerGenuine(d)'
        BY <1>0, <3>1 DEF HandlerGenuine
      <3> QED BY <2>0, <3>1, <3>2 DEF Genuine
    <2>6. CASE FlushSend
      <3>1. /\ UNCHANGED <<sent, handler, pending, overlapped>> /\ flusher'.at = "cut"
            /\ pending[flusher.conn] \in Seq(Pieces(flusher.conn)) /\ flusher.conn \in Conns
            /\ pending[flusher.conn] # <<>>
        BY <2>6, FlushFrame, AtRest DEF FlushSend, Genuine, Inv, Types, ClientTypes, FlusherType, Flushers
      <3>2. Head(pending[flusher.conn]) \in AllPieces
        BY <3>1, Queue, SomePieces
      <3>3. PICK f \in UpFrames : up' = Append(up, f) /\ f.data = Head(pending[flusher.conn])
        BY <2>6, FlushFrame DEF DataFrame
      <3>4. \A k \in DOMAIN up' : up'[k].op # "connect" => up'[k].data \in AllPieces
        BY <3>2, <3>3, UpGenuine
      <3>5. \A d \in Conns : HandlerGenuine(d)'
        BY <1>0, <3>1 DEF HandlerGenuine
      <3> QED BY <2>0, <3>1, <3>4, <3>5 DEF Genuine
    <2>7. CASE FlushCut
      <3>1. /\ UNCHANGED <<up, sent, handler, pending, overlapped>> /\ flusher.conn \in Conns
            /\ pending[flusher.conn] \notin {NotPending, <<>>}
            /\ flusher' = [at |-> "set", conn |-> flusher.conn, id |-> flusher.id,
                           rest |-> Tail(pending[flusher.conn])]
        BY <2>7, AtRest DEF FlushCut, links, Inv, Types, ClientTypes, FlusherType, Flushers
      <3>2. Tail(pending[flusher.conn]) \in Seq(Pieces(flusher.conn))
        BY <3>1, Queue DEF Genuine
      <3>3. \A d \in Conns : HandlerGenuine(d)'
        BY <1>0, <3>1 DEF HandlerGenuine
      <3> QED BY <2>0, <3>1, <3>2, <3>3 DEF Genuine
    <2>8. CASE FlushSet
      <3>1. /\ UNCHANGED <<up, sent, handler, overlapped>> /\ flusher'.at = "send"
            /\ flusher.at = "set" /\ pending' = [pending EXCEPT ![flusher.conn] = flusher.rest]
        BY <2>8 DEF FlushSet, links
      <3>2. \A d \in Conns : pending'[d] \in {NotPending} \cup Seq(Pieces(d))
        BY <3>1 DEF Genuine
      <3>3. \A d \in Conns : HandlerGenuine(d)'
        BY <1>0, <3>1 DEF HandlerGenuine
      <3> QED BY <2>0, <3>1, <3>2, <3>3 DEF Genuine
    <2>9. CASE FlushEnd \/ FlushDelete
      <3>1. /\ UNCHANGED <<up, sent, handler, overlapped>> /\ flusher'.at # "set"
            /\ \A d \in Conns : pending'[d] \in {pending[d], NotPending}
        <4>1. CASE FlushEnd
          <5>1. flusher \in Flushers
            BY <4>1, AtRest DEF FlushEnd, Inv, Types, ClientTypes, FlusherType
          <5> QED BY <4>1, <5>1 DEF FlushEnd, Flushers, links
        <4>2. CASE FlushDelete
          BY <4>2, AtRest DEF FlushDelete, links
        <4> QED BY <2>9, <4>1, <4>2
      <3>2. \A d \in Conns : HandlerGenuine(d)'
        BY <1>0, <3>1 DEF HandlerGenuine
      <3> QED BY <2>0, <3>1, <3>2 DEF Genuine
    <2> QED BY <1>1, <2>1, <2>2, <2>3, <2>4, <2>5, <2>6, <2>7, <2>8, <2>9 DEF ClientNext, ClientReader
  <1>2. ASSUME UNCHANGED clientVars,
               \A k \in DOMAIN up' : up'[k].op # "connect" => up'[k].data \in AllPieces,
               dispatcher'.at = "dispatch" => dispatcher'.frame.data \in AllPieces,
               \A i \in IDs : received'[i] \in Seq(AllPieces \ {Nothing}) /\ answered'[i] >= -1
        PROVE  Genuine'
    BY <1>2 DEF Genuine, HandlerGenuine, clientVars
  <1>3. ASSUME UNCHANGED clientVars, UNCHANGED <<up, received, answered>>,
               dispatcher' = dispatcher \/ dispatcher'.at # "dispatch"
        PROVE  Genuine'
    BY <1>2, <1>3 DEF Genuine
  <1>4. ASSUME FromClient, UNCHANGED clientVars
        PROVE  Genuine'
    <2> DEFINE frame == Head(up)
    <2>1. /\ up # <<>> /\ up' = Tail(up) /\ 1 \in DOMAIN up /\ frame = up[1] /\ dispatcher = Idle
          /\ UNCHANGED <<received, answered>>
      BY <1>4, Queue DEF FromClient
    <2>2. \A k \in DOMAIN up' : up'[k].op # "connect" => up'[k].data \in AllPieces
      BY <2>1, UpGenuine
    <2>3. \/ dispatcher' = dispatcher \/ dispatcher'.at = "register"
          \/ /\ dispatcher' = [at |-> "dispatch", id |-> frame.id, frame |-> frame]
             /\ frame.id \in registered
      BY <1>4 DEF FromClient, Dial
    <2>4. frame.id \in registered => frame.op # "connect"
      BY <2>1, FrameFacts
    <2>5. dispatcher'.at = "dispatch" => dispatcher'.frame.data \in AllPieces
      <3> HIDE DEF frame
      <3> QED BY <1>0, <2>1, <2>3, <2>4, AtRest
    <2> QED BY <1>2, <1>4, <2>1, <2>2, <2>5 DEF Genuine
  <1>5. ASSUME Dispatch, UNCHANGED clientVars
        PROVE  Genuine'
    <2>1. /\ UNCHANGED <<up, answered>> /\ dispatcher.frame.data \in AllPieces
          /\ \/ received' = received
             \/ /\ dispatcher.frame.data # Nothing
                /\ received' = [received EXCEPT ![dispatcher.id] = Append(@, dispatcher.frame.data)]
      BY <1>5 DEF Dispatch, Genuine, links
    <2>2. dispatcher'.at # "dispatch"
      BY <1>5, AtRest DEF Dispatch
    <2>3. \A i \in IDs : received'[i] \in Seq(AllPieces \ {Nothing})
      <3>1. \A i \in IDs : received[i] \in Seq(AllPieces \ {Nothing})
        BY DEF Genuine
      <3>2. dispatcher.frame.data # Nothing => dispatcher.frame.data \in AllPieces \ {Nothing}
        BY <2>1
      <3>3. ASSUME NEW i \in IDs, dispatcher.frame.data # Nothing
            PROVE  Append(received[i], dispatcher.frame.data) \in Seq(AllPieces \ {Nothing})
        BY <3>1, <3>2, <3>3, Queue
      <3>4. CASE received' = received
        BY <3>1, <3>4
      <3>5. CASE /\ dispatcher.frame.data # Nothing
                 /\ received' = [received EXCEPT ![dispatcher.id] = Append(@, dispatcher.frame.data)]
        <4>1. \A i \in IDs : received'[i] = received[i] \/ received'[i] = Append(received[i], dispatcher.frame.data)
          BY <3>5
        <4> QED BY <3>1, <3>3, <3>5, <4>1
      <3> QED BY <2>1, <3>4, <3>5
    <2> QED BY <1>2, <1>5, <2>1, <2>2, <2>3 DEF Genuine
  <1>6. ASSUME Answer, UNCHANGED clientVars
        PROVE  Genuine'
    <2>1. /\ UNCHANGED <<up, received>> /\ dispatcher'.at # "dispatch"
          /\ \A i \in IDs : answered'[i] = answered[i] \/ answered'[i] = replies[i]
      <3>1. dispatcher.id \in IDs
        BY <1>6, DispatcherAt DEF Answer, Inv
      <3>2. /\ UNCHANGED <<up, received>> /\ dispatcher' = Idle
            /\ answered' = answered \/ answered' = [answered EXCEPT ![dispatcher.id] = replies[dispatcher.id]]
        BY <1>6 DEF Answer
      <3> QED BY <3>1, <3>2, AtRest DEF Answering
    <2>2. \A i \in IDs : answered'[i] >= -1
      <3>1. \A i \in IDs : answered[i] >= -1 /\ replies[i] >= -1
        BY DEF Genuine
      <3> QED BY <2>1, <3>1
    <2> QED BY <1>2, <1>6, <2>1, <2>2 DEF Genuine
  <1>7. ASSUME RegisterID \/ RegisterClient \/ Unmap \/ Forget, UNCHANGED clientVars
        PROVE  Genuine'
    <2>1. UNCHANGED <<up, received, answered>> /\ dispatcher'.at # "dispatch"
      BY <1>7, DispatcherMoves, AtRest DEF RegisterID, RegisterClient, Unmap, Forget, links, Inv
    <2> QED BY <1>3, <1>7, <2>1
  <1>8. ASSUME \E id \in IDs : TargetData(id) \/ TargetEnd(id) \/ TargetReader(id), UNCHANGED clientVars
        PROVE  Genuine'
    <2>1. UNCHANGED <<up, received, answered, dispatcher>>
      BY <1>8 DEF TargetData, TargetEnd, TargetReader, Forward, EndUnmap, EndTell, links
    <2> QED BY <1>3, <1>8, <2>1
  <1>9. CASE UNCHANGED vars
    <2>1. UNCHANGED clientVars /\ UNCHANGED <<up, received, answered, dispatcher>>
      BY <1>9 DEF vars, links, serverVars
    <2> QED BY <1>3, <2>1
  <1> QED BY <1>1, <1>4, <1>5, <1>6, <1>7, <1>8, <1>9 DEF Next, ServerNext, ServerReader

(* The type invariant of the tunnel: what a goroutine holds, what is on the links and what *)
(* reaches a target is a piece of data a browser sent, and a list that is stored ends with *)
(* the piece it was extended by.                                                           *)
THEOREM TunnelTypeCorrect == Spec => []TypeOK
  <1>1. Inv /\ ReplyInv /\ Genuine => TypeOK
    <2> SUFFICES ASSUME Inv, ReplyInv, Genuine PROVE TypeOK
      OBVIOUS
    <2> USE Facts
    <2>1. overlapped \subseteq Conns
      BY DEF Genuine
    <2>2. ASSUME NEW c \in Conns
          PROVE  /\ sent[c] \in 0 .. DataCount(c)
                 /\ clientToID[c] \in {NoID} \cup IDs
                 /\ pending[c] # NotPending => pending[c] \in Seq(Pieces(c))
                 /\ handler[c].at \in {"idle", "ended", "append", "store"}
                 /\ handler[c].at = "store" => Last(handler[c].list) = handler[c].data
      <3>1. sent[c] \in Nat /\ sent[c] <= DataCount(c) /\ DataCount(c) \in Nat
        BY TunnelAssumption DEF Genuine
      <3>2. handler[c].at \in {"idle", "ended", "append", "store"}
        BY HeldTypes, AtRest
      <3> QED BY <3>1, <3>2 DEF Genuine, HandlerGenuine
    <2>3. ASSUME NEW i \in IDs
          PROVE  /\ idToClient[i] \in Conns \cup {NoConn} /\ owner[i] \in Conns \cup {NoConn}
                 /\ target[i] \in {"none", "open", "closed"}
                 /\ received[i] \in Seq(AllPieces \ {Nothing})
                 /\ answered[i] \in -1 .. replies[i]
      <3>1. answered[i] \in Int /\ answered[i] >= -1 /\ answered[i] <= replies[i] /\ replies[i] \in Nat
        BY DEF Genuine, ReplyInv, Answering
      <3> QED BY <3>1 DEF Genuine
    <2>4. \A f \in Range(up) \cup Range(down) : f.op \in {"connect", "close", "data"}
      BY FrameFacts DEF Range
    <2> QED BY <2>1, <2>2, <2>3, <2>4 DEF TypeOK
  <1>2. Init => Inv /\ ReplyInv /\ Genuine
    <2>1. Init => Genuine
      <3> SUFFICES ASSUME Init PROVE Genuine
        OBVIOUS
      <3> USE DEF Init, LinkInit, ClientInit, ServerInit
      <3>1. \A S : <<>> \in Seq(S)
        OBVIOUS
      <3>2. \A c \in Conns : sent[c] <= DataCount(c) /\ HandlerGenuine(c)
        <4>1. \A c \in Conns : DataCount(c) \in Nat
          BY TunnelAssumption
        <4> QED BY <4>1, AtRest DEF HandlerGenuine
      <3> QED BY <3>1, <3>2, AtRest DEF Genuine
    <2> QED BY <2>1, InitInv, InitReplies
  <1>3. Inv /\ ReplyInv /\ Genuine /\ [Next]_vars => (Inv /\ ReplyInv /\ Genuine)'
    BY NextInv, NextReplies, GenuineKept DEF ReplyInv
  <1> QED BY <1>1, <1>2, <1>3, PTL DEF Spec

====
