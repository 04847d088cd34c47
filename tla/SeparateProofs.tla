---- MODULE SeparateProofs ----
(***************************************************************************)
(* Proofs about the parts that share no state with the others: the maps of *)
(* a stable UDP server, and the moves a watcher reports.  For every set of *)
(* addresses and of paths, and any number of connections, datagrams and    *)
(* changes.                                                                *)
(***************************************************************************)
EXTENDS StableServer, FileSystemWatcher, FiniteSetTheorems, TLAPS

ServerSpec == ServerInit /\ [][ServerNext]_serverVars

WatcherSpec == WatcherInit /\ [][WatcherNext]_watcherVars

-----------------------------------------------------------------------------
(* The invariant of the server *)

(* What takes a connection out of the stabilizer's map. *)
Ending == {"lookup", "find", "cleanup", "delete"}

OpNames == Kinds \union Ending \union
    {"connect", "expire", "stop", "ping", "write", "send", "send-ping", "ack", "close", "forget", "report",
     "report-nil"}

AllTasks == OpNames \X Nat

(* The connections made so far, each under its own address or not at all. *)
ServerTyped ==
    /\ address \in Seq(Addrs) /\ DOMAIN address \subseteq Conns
    /\ udpConns \in [Addrs -> Nat]
    /\ \A a \in Addrs : udpConns[a] # 0 => udpConns[a] \in DOMAIN address /\ address[udpConns[a]] = a
    /\ stab \subseteq DOMAIN address /\ silent \subseteq DOMAIN address
    /\ work \in [Goroutines -> Seq(AllTasks)]
    /\ ~ticked => work[Ticker] = <<>>
    /\ ~stopping => work[Stopper] = <<>>
    /\ lock = Stopper => stopping

Found == {k \in DOMAIN address : udpConns[address[k]] = k}

(* A list of tasks of g: they are about connections made, each goroutine has its *)
(* own kinds of them, and where a connection that is still found by its address  *)
(* is to be taken out of the stabilizer's map, its Close comes later in the list. *)
InOrder(g, s, made, found) ==
    \A i \in DOMAIN s :
        /\ s[i][1] \notin {"expire", "stop"} => s[i][2] \in made
        /\ s[i][1] \in {"connect", "resend", "expire"} => g = Reader
        /\ (s[i][1] = "stop" \/ g = Stopper) => s[i] = Task("stop", 0)
        /\ s[i][1] = "connect" =>
              i = 1 /\ \A j \in DOMAIN s : j # 1 => s[j][1] \in Kinds \union {"expire"}
        /\ \A k \in Conns : g = Pinger(k) => s[i][2] = k
        /\ s[i][1] \in Ending /\ s[i][2] \in found =>
              \E j \in DOMAIN s : j > i /\ s[j][1] = "close" /\ s[j][2] = s[i][2]

Orderly == \A g \in Goroutines : InOrder(g, work[g], DOMAIN address, Found)

(* The read loop is about to connect k. *)
Entering(k) == work[Reader] # <<>> /\ work[Reader][1][1] = "connect" /\ work[Reader][1][2] = k

(* Until it has done so, nobody else knows of k. *)
NewIsUnknown ==
    \A k \in DOMAIN address : Entering(k) =>
        /\ k \notin stab
        /\ k \in Found \union robbed
        /\ \A g \in Goroutines \ {Reader} : \A i \in DOMAIN work[g] : work[g][i][2] # k

Todo(ops, k) ==
    \E g \in Goroutines : \E i \in DOMAIN work[g] : work[g][i][1] \in ops /\ work[g][i][2] = k

FoundIsStable ==
    ~stopping => \A k \in Found : k \in stab \/ Todo({"connect", "close"}, k)

Pending == {"connect", "close"} \union Ending

StableIsFound == \A k \in stab : k \in Found \union robbed \/ Todo(Pending, k)

ServerInv == ServerTyped /\ Orderly /\ NewIsUnknown /\ FoundIsStable /\ StableIsFound

-----------------------------------------------------------------------------
(* The invariant of the watcher *)

Events == {"from", "to", "modified", "created", "deleted"} \X AllPaths

Departures(s, p) == {i \in DOMAIN s : s[i] \in {<<"from", p>>, <<"deleted", p>>}}

(* A path that was moved away waits for its new name, and the timer has not *)
(* told of it yet.                                                          *)
Waits(p) ==
    /\ PathKind(p) \in moveEvent /\ movePath[PathKind(p)] = p
    /\ timer # <<"reset", PathKind(p)>>

WatcherTyped ==
    /\ queue \in Seq(Events)
    /\ moveEvent \subseteq PathKinds /\ movePath \in [PathKinds -> AllPaths \union {""}]
    /\ timer \in {NoTimer} \union ({"report", "reset"} \X PathKinds)
    /\ left \in [AllPaths -> Nat] /\ gone \in [AllPaths -> Nat]
    /\ isRunning \in BOOLEAN /\ raced \in BOOLEAN

(* What waits is a path of its kind; the timer is at work on one that waits. *)
Waiting ==
    /\ \A d \in moveEvent : movePath[d] \in AllPaths /\ PathKind(movePath[d]) = d
    /\ ~raced /\ timer # NoTimer => timer[2] \in moveEvent

(* Every departure was reported, waits, or is still in the queue. *)
Accounted ==
    ~raced /\ isRunning => \A p \in AllPaths :
        left[p] = gone[p] + Cardinality(Departures(queue, p)) + (IF Waits(p) THEN 1 ELSE 0)

WatcherInv == WatcherTyped /\ Waiting /\ Accounted

-----------------------------------------------------------------------------
(* Counting departures *)

(* Departures can be counted. *)
LEMMA DeparturesType ==
    ASSUME NEW s \in Seq(Events), NEW p
    PROVE  IsFiniteSet(Departures(s, p)) /\ Cardinality(Departures(s, p)) \in Nat
  <1>1. Departures(s, p) \in SUBSET (1 .. Len(s)) /\ 1 \in Int /\ Len(s) \in Int
    BY DEF Departures
  <1>2. IsFiniteSet(1 .. Len(s))
    BY <1>1, FS_Interval
  <1>3. IsFiniteSet(Departures(s, p))
    BY <1>1, <1>2, FS_Subset
  <1> QED BY <1>3, FS_CardinalityType

(* Events that follow others are counted on top of them. *)
LEMMA DeparturesAdd ==
    ASSUME NEW s \in Seq(Events), NEW t \in Seq(Events), NEW p
    PROVE  Cardinality(Departures(s \o t, p)) =
               Cardinality(Departures(s, p)) + Cardinality(Departures(t, p))
  <1> DEFINE S == Departures(s, p)
             T == Departures(t, p)
             U == {i \in Len(s) + 1 .. Len(s) + Len(t) : i - Len(s) \in T}
             f == [i \in T |-> Len(s) + i]
  <1>1. \A i \in T : i \in 1 .. Len(t)
    BY DEF Departures
  <1>2. f \in Bijection(T, U)
    <2>1. f \in [T -> U]
      BY <1>1
    <2>2. \A i, j \in T : i # j => f[i] # f[j]
      BY <1>1
    <2>3. \A u \in U : u - Len(s) \in T /\ f[u - Len(s)] = u
      BY <1>1
    <2> QED BY <2>1, <2>2, <2>3 DEF Bijection, Injection, Surjection, IsInjective
  <1>3. IsFiniteSet(U) /\ Cardinality(U) = Cardinality(T)
    BY <1>2, DeparturesType, FS_Bijection DEF ExistsBijection
  <1>4. Departures(s \o t, p) = S \cup U
    <2>1. /\ Len(s \o t) = Len(s) + Len(t)
          /\ \A i \in 1 .. Len(s) : (s \o t)[i] = s[i]
          /\ \A i \in Len(s) + 1 .. Len(s) + Len(t) : (s \o t)[i] = t[i - Len(s)]
      OBVIOUS
    <2>2. \A i \in 1 .. Len(s) : i \in Departures(s \o t, p) <=> i \in S
      BY <2>1 DEF Departures
    <2>3. \A i \in Len(s) + 1 .. Len(s) + Len(t) : i \in Departures(s \o t, p) <=> i \in U
      BY <2>1 DEF Departures
    <2>4. /\ Departures(s \o t, p) \subseteq 1 .. Len(s) + Len(t) /\ S \subseteq 1 .. Len(s)
          /\ U \subseteq Len(s) + 1 .. Len(s) + Len(t)
      BY <2>1 DEF Departures
    <2> QED BY <2>2, <2>3, <2>4
  <1>5. S \cap U = {}
    BY DEF Departures
  <1>6. Cardinality(S \cap U) = 0
    BY ONLY <1>5, FS_EmptySet, Zenon
  <1>7. IsFiniteSet(S) /\ Cardinality(S) \in Nat /\ Cardinality(T) \in Nat
    BY DeparturesType
  <1>8. Cardinality(S \cup U) = Cardinality(S) + Cardinality(U) - Cardinality(S \cap U)
    BY <1>3, <1>7, FS_Union
  <1> HIDE DEF S, T, U
  <1>9. Cardinality(S \cup U) = Cardinality(S) + Cardinality(T)
    BY <1>3, <1>6, <1>7, <1>8
  <1> QED BY <1>4, <1>9 DEF S, T

IsDeparture(e, p) == e \in {<<"from", p>>, <<"deleted", p>>}

(* The next event is counted or not. *)
LEMMA DeparturesTake ==
    ASSUME NEW s \in Seq(Events), s # <<>>, NEW p
    PROVE  Cardinality(Departures(s, p)) =
               Cardinality(Departures(Tail(s), p)) + (IF IsDeparture(Head(s), p) THEN 1 ELSE 0)
  <1> DEFINE h == <<Head(s)>>
  <1>1. h \in Seq(Events) /\ Tail(s) \in Seq(Events) /\ s = h \o Tail(s)
    OBVIOUS
  <1>2. DOMAIN h = {1} /\ h[1] = Head(s)
    OBVIOUS
  <1>3. Cardinality({1}) = 1 /\ Cardinality({}) = 0
    BY FS_Singleton, FS_EmptySet
  <1> HIDE DEF h
  <1>4. Cardinality(Departures(h, p)) = IF IsDeparture(Head(s), p) THEN 1 ELSE 0
    <2>1. CASE IsDeparture(Head(s), p)
      <3>1. Departures(h, p) = {1}
        BY <1>2, <2>1 DEF Departures, IsDeparture
      <3> QED BY ONLY <1>3, <2>1, <3>1, Zenon
    <2>2. CASE ~IsDeparture(Head(s), p)
      <3>1. Departures(h, p) = {}
        BY <1>2, <2>2 DEF Departures, IsDeparture
      <3> QED BY ONLY <1>3, <2>2, <3>1, Zenon
    <2> QED BY ONLY <2>1, <2>2
  <1>5. Cardinality(Departures(Tail(s), p)) \in Nat
    BY <1>1, DeparturesType
  <1>6. Cardinality(Departures(h \o Tail(s), p)) =
            Cardinality(Departures(h, p)) + Cardinality(Departures(Tail(s), p))
    BY <1>1, DeparturesAdd
  <1>7. Departures(s, p) = Departures(h \o Tail(s), p)
    BY ONLY <1>1, Zenon
  <1>8. Cardinality(Departures(s, p)) =
            Cardinality(Departures(h, p)) + Cardinality(Departures(Tail(s), p))
    BY ONLY <1>6, <1>7, Zenon
  <1> QED BY ONLY <1>4, <1>5, <1>8

-----------------------------------------------------------------------------
(* The watcher *)

(* A new watcher. *)
LEMMA InitWatcher == WatcherInit => WatcherInv
  <1> SUFFICES ASSUME WatcherInit PROVE WatcherInv
    OBVIOUS
  <1>1. <<>> \in Seq(Events) /\ DOMAIN <<>> = {}
    BY ONLY TRUE
  <1> USE DEF WatcherInit
  <1>2. WatcherTyped
    BY <1>1 DEF WatcherTyped
  <1>3. Waiting
    BY DEF Waiting
  <1>4. ASSUME NEW p \in AllPaths
        PROVE  left[p] = gone[p] + Cardinality(Departures(queue, p)) + (IF Waits(p) THEN 1 ELSE 0)
    <2>1. Departures(<<>>, p) = {}
      BY ONLY <1>1 DEF Departures
    <2>2. Cardinality(Departures(queue, p)) = 0
      BY <2>1, FS_EmptySet, Zenon
    <2>3. ~Waits(p) /\ left[p] = 0 /\ gone[p] = 0
      BY DEF Waits
    <2> QED BY ONLY <2>2, <2>3
  <1> QED BY <1>2, <1>3, <1>4 DEF WatcherInv, Accounted

(* What happens in the folder is counted, and waits in the queue. *)
LEMMA ChangeKeeps ==
    ASSUME WatcherInv, NEW events \in Seq(Events), Change(events)
    PROVE  WatcherInv'
  <1> USE DEF WatcherInv, Change
  <1>1. queue' \in Seq(Events) /\ left' \in [AllPaths -> Nat]
    <2>1. \A p \in AllPaths : left[p] \in Nat /\ Cardinality(Departures(events, p)) \in Nat
      BY DeparturesType DEF WatcherTyped
    <2>2. left' = [p \in AllPaths |-> left[p] + Cardinality(Departures(events, p))]
      BY DEF Departures
    <2>3. queue \in Seq(Events) /\ queue' = queue \o events
      BY DEF WatcherTyped
    <2>4. queue' \in Seq(Events)
      BY ONLY <2>3, events \in Seq(Events)
    <2>5. left' \in [AllPaths -> Nat]
      BY ONLY <2>1, <2>2
    <2> QED BY <2>4, <2>5
  <1>2. WatcherTyped'
    BY <1>1 DEF WatcherTyped, moveVars
  <1>3. Waiting'
    BY DEF Waiting, moveVars
  <1>4. ASSUME (~raced /\ isRunning)', NEW p \in AllPaths
        PROVE  (left[p] = gone[p] + Cardinality(Departures(queue, p)) + (IF Waits(p) THEN 1 ELSE 0))'
    <2>1. left[p] = gone[p] + Cardinality(Departures(queue, p)) + (IF Waits(p) THEN 1 ELSE 0)
      BY <1>4 DEF Accounted
    <2>2. left'[p] = left[p] + Cardinality(Departures(events, p)) /\ gone'[p] = gone[p]
      BY DEF Departures
    <2>3. Cardinality(Departures(queue', p)) =
              Cardinality(Departures(queue, p)) + Cardinality(Departures(events, p))
      BY DeparturesAdd DEF WatcherTyped
    <2>4. Waits(p)' <=> Waits(p)
      BY DEF Waits, moveVars
    <2>5. /\ left[p] \in Nat /\ gone[p] \in Nat
          /\ Cardinality(Departures(queue, p)) \in Nat /\ Cardinality(Departures(events, p)) \in Nat
      BY DeparturesType DEF WatcherTyped
    <2> QED BY <2>1, <2>2, <2>3, <2>4, <2>5
  <1> QED BY <1>2, <1>3, <1>4 DEF Accounted

(* What reportFunc counts. *)
LEMMA Reported ==
    ASSUME gone \in [AllPaths -> Nat], NEW path, NEW operation, reportFunc(path, operation)
    PROVE  /\ gone' \in [AllPaths -> Nat]
           /\ \A p \in AllPaths : gone'[p] = IF p = path /\ operation \in {"deleted", "moved"}
                                             THEN gone[p] + 1 ELSE gone[p]
  <1>1. gone' = IF path \in AllPaths /\ operation \in {"deleted", "moved"}
                THEN [gone EXCEPT ![path] = @ + 1] ELSE gone
    BY DEF reportFunc
  <1> QED BY ONLY <1>1, gone \in [AllPaths -> Nat]


(* The next event of the queue. *)
LEMMA EventKeeps == WatcherInv /\ reportEvent => WatcherInv'
  <1> SUFFICES ASSUME WatcherInv, reportEvent PROVE WatcherInv'
    OBVIOUS
  <1> DEFINE event == Head(queue)[1]
             path == Head(queue)[2]
             d == PathKind(path)
             W(p) == IF Waits(p) THEN 1 ELSE 0
             D(q, p) == Cardinality(Departures(q, p))
  <1>1. /\ queue \in Seq(Events) /\ queue # <<>> /\ queue' = Tail(queue) /\ Tail(queue) \in Seq(Events)
        /\ event \in {"from", "to", "modified", "created", "deleted"} /\ path \in AllPaths
        /\ Head(queue) = <<event, path>>
    <2>1. queue \in Seq(Events) /\ queue # <<>> /\ queue' = Tail(queue)
      BY DEF WatcherInv, WatcherTyped, reportEvent
    <2>2. Head(queue) \in Events /\ Tail(queue) \in Seq(Events)
      BY ONLY <2>1
    <2> QED BY <2>1, <2>2 DEF Events
  <1>2. /\ timer' = timer /\ isRunning' = isRunning /\ left' = left /\ isRunning
        /\ raced' = (raced \/ (event \in {"from", "to"} /\ timer # NoTimer /\ timer[2] = d))
        /\ CASE event = "from" -> reportFrom(path)
             [] event = "to"   -> reportTo(path)
             [] OTHER          -> reportFunc(path, event) /\ UNCHANGED moveVars
    BY DEF reportEvent
  <1>3. /\ moveEvent \subseteq PathKinds /\ movePath \in [PathKinds -> AllPaths \union {""}]
        /\ timer \in {NoTimer} \union ({"report", "reset"} \X PathKinds)
        /\ left \in [AllPaths -> Nat] /\ gone \in [AllPaths -> Nat] /\ raced \in BOOLEAN
    BY DEF WatcherInv, WatcherTyped
  <1>4. \A k \in moveEvent : movePath[k] \in AllPaths /\ PathKind(movePath[k]) = k
    BY DEF WatcherInv, Waiting
  <1>5. ~raced /\ timer # NoTimer => timer[2] \in moveEvent
    BY DEF WatcherInv, Waiting
  <1>6. raced' \in BOOLEAN /\ (~raced' => ~raced)
        /\ (~raced' => ~(event \in {"from", "to"} /\ timer # NoTimer /\ timer[2] = d))
    BY <1>2, <1>3
  <1>7. d \in PathKinds /\ \A p \in AllPaths : PathKind(p) \in PathKinds
    BY DEF PathKind, PathKinds
  <1>8. ASSUME ~raced', NEW p \in AllPaths
        PROVE  /\ left[p] = gone[p] + D(queue', p) +
                    (IF event \in {"from", "deleted"} /\ p = path THEN 1 ELSE 0)
                                + W(p)
               /\ left[p] \in Nat /\ gone[p] \in Nat /\ D(queue', p) \in Nat
    <2>1. left[p] = gone[p] + D(queue, p) + W(p)
      BY <1>2, <1>6, <1>8 DEF WatcherInv, Accounted
    <2>2. D(queue, p) = D(queue', p) + (IF IsDeparture(Head(queue), p) THEN 1 ELSE 0)
      BY <1>1, DeparturesTake
    <2>3. IsDeparture(Head(queue), p) <=> event \in {"from", "deleted"} /\ p = path
      BY <1>1 DEF IsDeparture
    <2>4. D(queue', p) \in Nat /\ left[p] \in Nat /\ gone[p] \in Nat
      BY <1>1, <1>3, DeparturesType
    <2> HIDE DEF D, W, event, path
    <2> QED BY <2>1, <2>2, <2>3, <2>4
  <1> DEFINE Goes(p) == gone[p] + (IF event \in {"from", "deleted"} /\ p = path THEN 1 ELSE 0) + W(p)
  <1>9. SUFFICES /\ moveEvent' \subseteq PathKinds /\ movePath' \in [PathKinds -> AllPaths \union {""}]
                 /\ gone' \in [AllPaths -> Nat]
                 /\ \A k \in moveEvent' : movePath'[k] \in AllPaths /\ PathKind(movePath'[k]) = k
                 /\ ~raced' /\ timer # NoTimer => timer[2] \in moveEvent'
                 /\ ~raced' => \A p \in AllPaths : gone'[p] + W(p)' = Goes(p)
    <2>1. WatcherTyped'
      BY <1>1, <1>2, <1>3, <1>6, <1>9 DEF WatcherTyped, WatcherInv
    <2>2. Waiting'
      BY <1>2, <1>9 DEF Waiting
    <2>3. ASSUME ~raced', NEW p \in AllPaths PROVE left'[p] = gone'[p] + D(queue', p) + W(p)'
      <3>1. gone'[p] + W(p)' = Goes(p) /\ gone'[p] \in Nat
        BY <1>9, <2>3
      <3> DEFINE one == IF event \in {"from", "deleted"} /\ p = path THEN 1 ELSE 0
      <3>2. PICK old \in {0, 1} : old = W(p)
        OBVIOUS
      <3>3. PICK new \in {0, 1} : new = W(p)'
        OBVIOUS
      <3>4. PICK x \in {0, 1} : x = one
        OBVIOUS
      <3>5. PICK n \in Nat : n = D(queue', p)
        BY <1>8, <2>3
      <3>6. left'[p] = gone[p] + n + x + old /\ gone[p] \in Nat
        BY <1>2, <1>8, <2>3, <3>2, <3>4, <3>5
      <3>7. gone'[p] + new = gone[p] + x + old
        BY <3>1, <3>2, <3>3, <3>4
      <3>8. left'[p] = gone'[p] + n + new
        BY ONLY <3>1, <3>2, <3>3, <3>4, <3>5, <3>6, <3>7
      <3> QED BY <3>3, <3>5, <3>8
    <2> QED BY <2>1, <2>2, <2>3 DEF WatcherInv, Accounted
  <1> HIDE DEF event, path
  <1>10. CASE event = "from"
    <2>1. reportFrom(path)
      BY <1>2, <1>10
    <2>2. /\ moveEvent' = moveEvent \union {d} /\ movePath' = [movePath EXCEPT ![d] = path]
          /\ d \in moveEvent => reportFunc(movePath[d], "deleted")
          /\ d \notin moveEvent => gone' = gone
      BY <2>1 DEF reportFrom, Begin
    <2>3. /\ gone' \in [AllPaths -> Nat]
          /\ \A p \in AllPaths :
                 gone'[p] = IF d \in moveEvent /\ p = movePath[d] THEN gone[p] + 1 ELSE gone[p]
      <3>1. CASE d \in moveEvent
        <4>1. reportFunc(movePath[d], "deleted") /\ gone \in [AllPaths -> Nat]
          BY <1>3, <2>2, <3>1
        <4> QED BY ONLY <3>1, <4>1, Reported
      <3>2. CASE d \notin moveEvent
        BY <1>3, <2>2, <3>2
      <3> QED BY <3>1, <3>2
    <2>4. /\ moveEvent' \subseteq PathKinds /\ movePath' \in [PathKinds -> AllPaths \union {""}]
          /\ movePath'[d] = path /\ \A k \in PathKinds : k # d => movePath'[k] = movePath[k]
      BY <1>1, <1>3, <1>7, <2>2
    <2>5. \A k \in moveEvent' : movePath'[k] \in AllPaths /\ PathKind(movePath'[k]) = k
      BY <1>1, <1>3, <1>4, <2>2, <2>4
    <2>6. ASSUME ~raced', NEW p \in AllPaths PROVE gone'[p] + W(p)' = Goes(p)
      <3>1. timer # <<"reset", d>>
        BY <1>2, <1>6, <1>10, <2>6 DEF NoTimer
      <3>2. CASE PathKind(p) = d
        <4>1. Waits(p) <=> d \in moveEvent /\ movePath[d] = p
          BY <3>1, <3>2 DEF Waits
        <4>2. Waits(p)' <=> p = path
          BY <1>2, <2>2, <2>4, <3>1, <3>2 DEF Waits
        <4>3. gone[p] \in Nat
          BY <1>3
        <4> QED BY <1>10, <2>3, <4>1, <4>2, <4>3
      <3>3. CASE PathKind(p) # d
        <4>1. Waits(p)' <=> Waits(p)
          BY <1>2, <1>7, <2>2, <2>4, <3>3 DEF Waits
        <4>2. p # path /\ ~(d \in moveEvent /\ p = movePath[d])
          BY <1>4, <3>3
        <4>3. gone[p] \in Nat
          BY <1>3
        <4> QED BY <2>3, <4>1, <4>2, <4>3
      <3> QED BY <3>2, <3>3
    <2> QED BY <1>5, <1>6, <2>2, <2>3, <2>4, <2>5, <2>6
  <1>11. CASE event = "to"
    <2>1. reportTo(path)
      BY <1>2, <1>11
    <2>2. /\ moveEvent' = moveEvent \ {d} /\ movePath' = movePath
          /\ reportFunc(movePath[d], IF d \in moveEvent THEN "moved" ELSE "modified")
      BY <2>1 DEF reportTo
    <2>3. /\ gone' \in [AllPaths -> Nat]
          /\ \A p \in AllPaths :
                 gone'[p] = IF d \in moveEvent /\ p = movePath[d] THEN gone[p] + 1 ELSE gone[p]
      <3>1. gone \in [AllPaths -> Nat]
        BY <1>3
      <3>2. CASE d \in moveEvent
        <4>1. reportFunc(movePath[d], "moved")
          BY <2>2, <3>2
        <4> QED BY ONLY <3>1, <3>2, <4>1, Reported
      <3>3. CASE d \notin moveEvent
        <4>1. reportFunc(movePath[d], "modified")
          BY <2>2, <3>3
        <4> QED BY ONLY <3>1, <3>3, <4>1, Reported
      <3> QED BY <3>2, <3>3
    <2>4. ASSUME ~raced', NEW p \in AllPaths PROVE gone'[p] + W(p)' = Goes(p)
      <3>1. timer # <<"reset", d>>
        BY <1>2, <1>6, <1>11, <2>4 DEF NoTimer
      <3>2. CASE PathKind(p) = d
        <4>1. Waits(p) <=> d \in moveEvent /\ movePath[d] = p
          BY <3>1, <3>2 DEF Waits
        <4>2. ~Waits(p)'
          BY <2>2, <3>2 DEF Waits
        <4>3. gone[p] \in Nat
          BY <1>3
        <4> QED BY <1>11, <2>3, <4>1, <4>2, <4>3
      <3>3. CASE PathKind(p) # d
        <4>1. Waits(p)' <=> Waits(p)
          BY <1>2, <2>2, <3>3 DEF Waits
        <4>2. ~(d \in moveEvent /\ p = movePath[d])
          BY <1>4, <3>3
        <4>3. gone[p] \in Nat
          BY <1>3
        <4> QED BY <1>11, <2>3, <4>1, <4>2, <4>3
      <3> QED BY <3>2, <3>3
    <2>5. ~raced' /\ timer # NoTimer => timer[2] \in moveEvent'
      BY <1>5, <1>6, <1>11, <2>2
    <2>6. \A k \in moveEvent' : movePath'[k] \in AllPaths /\ PathKind(movePath'[k]) = k
      BY <1>4, <2>2
    <2> QED BY <1>3, <2>2, <2>3, <2>4, <2>5, <2>6
  <1>12. CASE event \notin {"from", "to"}
    <2>1. /\ reportFunc(path, event)
          /\ moveEvent' = moveEvent /\ movePath' = movePath
      BY <1>2, <1>12 DEF moveVars
    <2>2. event \in {"modified", "created", "deleted"}
      BY <1>1, <1>12
    <2>3. /\ gone' \in [AllPaths -> Nat]
          /\ \A p \in AllPaths :
                 gone'[p] = IF p = path /\ event = "deleted" THEN gone[p] + 1 ELSE gone[p]
      <3>1. gone \in [AllPaths -> Nat]
        BY <1>3
      <3> QED BY ONLY <2>1, <2>2, <3>1, Reported
    <2>4. ASSUME NEW p \in AllPaths PROVE gone'[p] + W(p)' = Goes(p)
      <3>1. Waits(p)' <=> Waits(p)
        BY <1>2, <2>1 DEF Waits
      <3>2. gone[p] \in Nat
        BY <1>3
      <3> QED BY <2>2, <2>3, <3>1, <3>2
    <2> QED BY <1>3, <1>4, <1>5, <1>6, <2>1, <2>3, <2>4
  <1> QED BY <1>10, <1>11, <1>12


(* The timer tells of what has waited too long, and then forgets it. *)
LEMMA TimerKeeps ==
    ASSUME WatcherInv, NEW d \in PathKinds,
           MoveAges(d) \/ TimerCheck(d) \/ TimerReport(d) \/ TimerReset(d)
    PROVE  WatcherInv'
  <1>1. /\ moveEvent \subseteq PathKinds /\ gone \in [AllPaths -> Nat] /\ left \in [AllPaths -> Nat]
        /\ timer \in {NoTimer} \union ({"report", "reset"} \X PathKinds) /\ raced \in BOOLEAN
    BY DEF WatcherInv, WatcherTyped
  <1>2. \A k \in moveEvent : movePath[k] \in AllPaths /\ PathKind(movePath[k]) = k
    BY DEF WatcherInv, Waiting
  <1>3. ~raced /\ timer # NoTimer => timer[2] \in moveEvent
    BY DEF WatcherInv, Waiting
  <1>4. CASE MoveAges(d)
    BY <1>4 DEF MoveAges, WatcherInv, WatcherTyped, Waiting, Accounted, Waits, watcherHistory
  <1>5. CASE TimerCheck(d)
    <2> USE <1>5 DEF TimerCheck
    <2>1. WatcherTyped'
      BY DEF WatcherInv, WatcherTyped, moveVars, watcherHistory
    <2>2. Waiting'
      BY DEF WatcherInv, Waiting, moveVars, watcherHistory
    <2>3. \A p \in AllPaths : Waits(p)' <=> Waits(p)
      BY DEF Waits, moveVars, NoTimer
    <2>4. Accounted'
      BY <2>3 DEF WatcherInv, Accounted, moveVars, watcherHistory
    <2> QED BY <2>1, <2>2, <2>4 DEF WatcherInv
  <1>6. CASE TimerReport(d)
    <2>1. /\ timer = <<"report", d>> /\ timer' = <<"reset", d>> /\ reportFunc(movePath[d], "deleted")
          /\ UNCHANGED <<queue, moveEvent, movePath, isRunning, left, raced>>
      BY <1>6 DEF TimerReport, moveVars
    <2>2. /\ gone' \in [AllPaths -> Nat]
          /\ \A p \in AllPaths : gone'[p] = IF p = movePath[d] THEN gone[p] + 1 ELSE gone[p]
      <3>1. gone \in [AllPaths -> Nat]
        BY <1>1
      <3> QED BY ONLY <2>1, <3>1, Reported
    <2>3. WatcherTyped'
      BY <1>1, <2>1, <2>2 DEF WatcherInv, WatcherTyped
    <2>4. Waiting'
      BY <1>2, <1>3, <2>1 DEF Waiting, NoTimer
    <2>5. ASSUME ~raced, isRunning, NEW p \in AllPaths
          PROVE  left[p] = gone'[p] + Cardinality(Departures(queue, p)) + (IF Waits(p)' THEN 1 ELSE 0)
      <3>1. /\ left[p] = gone[p] + Cardinality(Departures(queue, p)) + (IF Waits(p) THEN 1 ELSE 0)
            /\ Cardinality(Departures(queue, p)) \in Nat /\ gone[p] \in Nat
        BY <1>1, <2>5, DeparturesType DEF WatcherInv, WatcherTyped, Accounted
      <3>2. d \in moveEvent
        BY <1>3, <2>1, <2>5 DEF NoTimer
      <3>3. CASE p = movePath[d]
        <4>1. PathKind(p) = d
          BY <1>2, <3>2, <3>3
        <4>2. Waits(p) /\ ~Waits(p)'
          BY <2>1, <3>2, <3>3, <4>1 DEF Waits
        <4> QED BY <2>2, <3>1, <3>3, <4>2
      <3>4. CASE p # movePath[d]
        <4>1. Waits(p)' <=> Waits(p)
          BY <2>1, <3>4 DEF Waits
        <4> QED BY <2>2, <3>1, <3>4, <4>1
      <3> QED BY <3>3, <3>4
    <2>6. Accounted'
      BY <2>1, <2>5 DEF Accounted
    <2> QED BY <2>3, <2>4, <2>6 DEF WatcherInv
  <1>7. CASE TimerReset(d)
    <2>1. /\ timer = <<"reset", d>> /\ timer' = NoTimer /\ moveEvent' = moveEvent \ {d}
          /\ UNCHANGED <<queue, movePath, isRunning, left, gone, raced>>
      BY <1>7 DEF TimerReset, watcherHistory
    <2>2. WatcherTyped'
      BY <1>1, <2>1 DEF WatcherInv, WatcherTyped
    <2>3. Waiting'
      BY <1>2, <2>1 DEF Waiting
    <2>4. \A p \in AllPaths : Waits(p)' <=> Waits(p)
      BY <2>1 DEF Waits, NoTimer
    <2>5. Accounted'
      BY <2>1, <2>4 DEF WatcherInv, Accounted
    <2> QED BY <2>2, <2>3, <2>5 DEF WatcherInv
  <1> QED BY <1>4, <1>5, <1>6, <1>7

(* Every step keeps the account. *)
LEMMA NextWatcher == WatcherInv /\ [WatcherNext]_watcherVars => WatcherInv'
  <1> SUFFICES ASSUME WatcherInv, [WatcherNext]_watcherVars PROVE WatcherInv'
    OBVIOUS
  <1>1. ASSUME NEW p \in AllPaths, NEW op \in {"modified", "created", "deleted", "from", "to"},
               Change(<<<<op, p>>>>)
        PROVE  WatcherInv'
    <2>1. <<<<op, p>>>> \in Seq(Events)
      BY DEF Events
    <2> QED BY <1>1, <2>1, ChangeKeeps
  <1>2. ASSUME NEW p \in AllPaths, NEW q \in AllPaths, Change(<<<<"from", p>>, <<"to", q>>>>)
        PROVE  WatcherInv'
    <2>1. <<<<"from", p>>, <<"to", q>>>> \in Seq(Events)
      BY DEF Events
    <2> QED BY <1>2, <2>1, ChangeKeeps
  <1>3. ASSUME NEW p \in AllPaths, IgnoreNextEvent(p, "deleted") PROVE WatcherInv'
    BY <1>3 DEF IgnoreNextEvent, WatcherInv, WatcherTyped, Waiting, Accounted, Waits, moveVars
  <1>4. CASE reportEvent
    BY <1>4, EventKeeps
  <1>5. CASE StopWatching
    <2>1. <<>> \in Seq(Events)
      BY ONLY TRUE
    <2>2. WatcherTyped'
      BY <1>5, <2>1 DEF StopWatching, WatcherInv, WatcherTyped, moveVars, watcherHistory
    <2> QED BY <1>5, <2>2 DEF StopWatching, WatcherInv, Waiting, Accounted, moveVars, watcherHistory
  <1>6. ASSUME NEW d \in PathKinds,
               MoveAges(d) \/ TimerCheck(d) \/ TimerReport(d) \/ TimerReset(d)
        PROVE  WatcherInv'
    BY <1>6, TimerKeeps
  <1>7. CASE UNCHANGED watcherVars
    BY <1>7 DEF watcherVars, WatcherInv, WatcherTyped, Waiting, Accounted, Waits, moveVars,
                watcherHistory
  <1> QED BY <1>1, <1>2, <1>3, <1>4, <1>5, <1>6, <1>7 DEF WatcherNext

(* A path that is moved away is reported once, by whoever comes first: the event  *)
(* that ends the move, the next move or the timer; for any number of changes.     *)
THEOREM MovedPathsReported == WatcherSpec => []MovedAwayOnce
  <1>1. WatcherInv => MovedAwayOnce
    <2> SUFFICES ASSUME WatcherInv, ~raced, isRunning, queue = <<>>, moveEvent = {},
                        NEW p \in AllPaths
                 PROVE  gone[p] = left[p]
      BY DEF MovedAwayOnce
    <2>1. DOMAIN <<>> = {}
      BY ONLY TRUE
    <2>2. Departures(<<>>, p) = {}
      BY ONLY <2>1 DEF Departures
    <2>3. Cardinality(Departures(queue, p)) = 0
      BY <2>2, FS_EmptySet, Zenon
    <2>4. ~Waits(p) /\ gone[p] \in Nat
      BY DEF Waits, WatcherInv, WatcherTyped
    <2> QED BY <2>3, <2>4 DEF WatcherInv, Accounted
  <1> QED BY <1>1, InitWatcher, NextWatcher, PTL DEF WatcherSpec


-----------------------------------------------------------------------------
(* Lists of tasks *)

(* What a list is when its head is done and others come in its place. *)
LEMMA Placed ==
    ASSUME NEW s \in Seq(AllTasks), s # <<>>, NEW new \in Seq(AllTasks)
    PROVE  LET r == new \o Tail(s) IN
           /\ r \in Seq(AllTasks)
           /\ \A i \in DOMAIN new : i \in DOMAIN r /\ r[i] = new[i]
           /\ \A i \in DOMAIN s : i # 1 => i - 1 + Len(new) \in DOMAIN r /\ r[i - 1 + Len(new)] = s[i]
           /\ \A j \in DOMAIN r : \/ j \in DOMAIN new
                                  \/ /\ j - Len(new) + 1 \in DOMAIN s /\ j > Len(new)
                                     /\ j - Len(new) + 1 # 1 /\ r[j] = s[j - Len(new) + 1]
           /\ \A i, j \in DOMAIN s : i < j => i - 1 + Len(new) < j - 1 + Len(new)
  <1>1. /\ Tail(s) \in Seq(AllTasks) /\ Len(Tail(s)) = Len(s) - 1 /\ Len(s) \in Nat /\ Len(new) \in Nat
        /\ \A i \in 1 .. Len(s) - 1 : Tail(s)[i] = s[i + 1]
        /\ DOMAIN s = 1 .. Len(s) /\ DOMAIN new = 1 .. Len(new)
    OBVIOUS
  <1> DEFINE t == Tail(s)
  <1> HIDE DEF t
  <1>2. /\ new \o t \in Seq(AllTasks) /\ DOMAIN (new \o t) = 1 .. Len(new) + Len(t)
        /\ \A i \in 1 .. Len(new) : (new \o t)[i] = new[i]
        /\ \A i \in Len(new) + 1 .. Len(new) + Len(t) : (new \o t)[i] = t[i - Len(new)]
    BY <1>1 DEF t
  <1> DEFINE r == new \o t
  <1> HIDE DEF r
  <1>3. /\ r \in Seq(AllTasks) /\ DOMAIN r = 1 .. Len(new) + Len(s) - 1
        /\ \A i \in 1 .. Len(new) : r[i] = new[i]
        /\ \A i \in Len(new) + 1 .. Len(new) + Len(s) - 1 : r[i] = s[i - Len(new) + 1]
    BY <1>1, <1>2 DEF r, t
  <1>4. \A i \in DOMAIN s : i # 1 => i - 1 + Len(new) \in DOMAIN r /\ r[i - 1 + Len(new)] = s[i]
    <2> TAKE i \in DOMAIN s
    <2> HAVE i # 1
    <2>1. PICK j \in Nat : j = i - 1 + Len(new) /\ j - Len(new) + 1 = i
      BY <1>1
    <2>2. j \in Len(new) + 1 .. Len(new) + Len(s) - 1
      BY <1>1, <2>1
    <2>3. j \in DOMAIN r /\ r[j] = s[j - Len(new) + 1]
      BY <1>1, <1>3, <2>2
    <2> QED BY <2>1, <2>3
  <1>5. \A j \in DOMAIN r : j \in DOMAIN new \/ (j - Len(new) + 1 \in DOMAIN s /\ j > Len(new)
                                     /\ j - Len(new) + 1 # 1 /\ r[j] = s[j - Len(new) + 1])
    BY <1>1, <1>3
  <1>6. \A i \in DOMAIN new : i \in DOMAIN r /\ r[i] = new[i]
    BY <1>1, <1>3
  <1>7. \A i, j \in DOMAIN s : i < j => i - 1 + Len(new) < j - 1 + Len(new)
    BY <1>1
  <1> QED BY <1>3, <1>4, <1>5, <1>6, <1>7 DEF r, t

(* A list that loses its head and gains tasks stays in order. *)
LEMMA ListKept ==
    ASSUME NEW g, NEW s \in Seq(AllTasks), s # <<>>, NEW new \in Seq(AllTasks),
           NEW made, NEW found, NEW made2, NEW found2,
           InOrder(g, s, made, found),
           \A i \in DOMAIN new :
               /\ new[i][1] \notin {"expire", "stop"} => new[i][2] \in made2
               /\ new[i][1] \in {"resend", "expire"} => g = Reader
               /\ new[i][1] \notin {"connect", "stop"} /\ g # Stopper
               /\ \A k \in Conns : g = Pinger(k) => new[i][2] = k
               /\ new[i][1] \in Ending /\ new[i][2] \in found2 =>
                     \/ \E j \in DOMAIN new : j > i /\ new[j][1] = "close" /\ new[j][2] = new[i][2]
                     \/ \E j \in DOMAIN s : j > 1 /\ s[j][1] = "close" /\ s[j][2] = new[i][2],
           made \subseteq made2, found2 \cap made \subseteq found
    PROVE  InOrder(g, new \o Tail(s), made2, found2)
  <1> DEFINE r == new \o Tail(s)
             n == Len(new)
  <1>1. /\ \A i \in DOMAIN new : i \in DOMAIN r /\ r[i] = new[i]
        /\ \A i \in DOMAIN s : i # 1 => i - 1 + n \in DOMAIN r /\ r[i - 1 + n] = s[i]
        /\ \A j \in DOMAIN r : \/ j \in DOMAIN new
                               \/ j - n + 1 \in DOMAIN s /\ j - n + 1 # 1 /\ r[j] = s[j - n + 1]
        /\ \A i, j \in DOMAIN s : i < j => i - 1 + n < j - 1 + n
        /\ n \in Nat /\ DOMAIN s \subseteq Nat /\ DOMAIN r \subseteq Nat /\ DOMAIN new = 1 .. n
    <2>1. r \in Seq(AllTasks)
      BY ONLY s \in Seq(AllTasks), s # <<>>, new \in Seq(AllTasks), Placed DEF r
    <2>2. n \in Nat /\ DOMAIN s \subseteq Nat /\ DOMAIN new = 1 .. n
      BY ONLY s \in Seq(AllTasks), new \in Seq(AllTasks) DEF n
    <2> HIDE DEF r
    <2>3. DOMAIN r \subseteq Nat
      BY ONLY <2>1
    <2>4. /\ \A i \in DOMAIN new : i \in DOMAIN r /\ r[i] = new[i]
          /\ \A i \in DOMAIN s : i # 1 => i - 1 + n \in DOMAIN r /\ r[i - 1 + n] = s[i]
          /\ \A j \in DOMAIN r : \/ j \in DOMAIN new
                                 \/ j - n + 1 \in DOMAIN s /\ j - n + 1 # 1 /\ r[j] = s[j - n + 1]
          /\ \A i, j \in DOMAIN s : i < j => i - 1 + n < j - 1 + n
      BY ONLY s \in Seq(AllTasks), s # <<>>, new \in Seq(AllTasks), Placed DEF r, n
    <2> QED BY ONLY <2>2, <2>3, <2>4
  <1> HIDE DEF r, n
  <1>2. ASSUME NEW j \in DOMAIN r, j \in DOMAIN new
        PROVE  /\ r[j][1] \notin {"expire", "stop"} => r[j][2] \in made2
               /\ r[j][1] \in {"connect", "resend", "expire"} => g = Reader
               /\ (r[j][1] = "stop" \/ g = Stopper) => r[j] = Task("stop", 0)
               /\ r[j][1] # "connect"
               /\ \A k \in Conns : g = Pinger(k) => r[j][2] = k
               /\ r[j][1] \in Ending /\ r[j][2] \in found2 =>
                     \E l \in DOMAIN r : l > j /\ r[l][1] = "close" /\ r[l][2] = r[j][2]
    <2>1. r[j] = new[j]
      BY <1>1, <1>2
    <2>2. /\ r[j][1] \notin {"expire", "stop"} => r[j][2] \in made2
          /\ r[j][1] \in {"connect", "resend", "expire"} => g = Reader
          /\ (r[j][1] = "stop" \/ g = Stopper) => r[j] = Task("stop", 0)
          /\ r[j][1] # "connect"
          /\ \A k \in Conns : g = Pinger(k) => r[j][2] = k
      BY <1>2, <2>1
    <2>3. ASSUME r[j][1] \in Ending, r[j][2] \in found2
          PROVE  \E l \in DOMAIN r : l > j /\ r[l][1] = "close" /\ r[l][2] = r[j][2]
      <3>1. CASE \E l \in DOMAIN new : l > j /\ new[l][1] = "close" /\ new[l][2] = new[j][2]
        BY <1>1, <2>1, <3>1
      <3>2. CASE \E i \in DOMAIN s : i > 1 /\ s[i][1] = "close" /\ s[i][2] = new[j][2]
        <4>1. PICK i \in DOMAIN s : i > 1 /\ s[i][1] = "close" /\ s[i][2] = new[j][2]
          BY <3>2
        <4>2. i - 1 + n \in DOMAIN r /\ r[i - 1 + n] = s[i] /\ i - 1 + n > j
          BY <1>1, <1>2, <4>1
        <4> QED BY <2>1, <4>1, <4>2
      <3> QED BY <1>2, <2>1, <2>3, <3>1, <3>2
    <2> QED BY <2>2, <2>3
  <1>3. ASSUME NEW j \in DOMAIN r, j - n + 1 \in DOMAIN s, j - n + 1 # 1, r[j] = s[j - n + 1]
        PROVE  /\ r[j][1] \notin {"expire", "stop"} => r[j][2] \in made2
               /\ r[j][1] \in {"connect", "resend", "expire"} => g = Reader
               /\ (r[j][1] = "stop" \/ g = Stopper) => r[j] = Task("stop", 0)
               /\ r[j][1] # "connect"
               /\ \A k \in Conns : g = Pinger(k) => r[j][2] = k
               /\ r[j][1] \in Ending /\ r[j][2] \in found2 =>
                     \E l \in DOMAIN r : l > j /\ r[l][1] = "close" /\ r[l][2] = r[j][2]
    <2>1. PICK i \in DOMAIN s : i = j - n + 1 /\ i # 1 /\ r[j] = s[i] /\ j = i - 1 + n
      BY <1>1, <1>3
    <2>2. /\ s[i][1] \notin {"expire", "stop"} => s[i][2] \in made
          /\ s[i][1] \in {"connect", "resend", "expire"} => g = Reader
          /\ (s[i][1] = "stop" \/ g = Stopper) => s[i] = Task("stop", 0)
          /\ s[i][1] # "connect"
          /\ \A k \in Conns : g = Pinger(k) => s[i][2] = k
      BY <2>1 DEF InOrder
    <2>3. ASSUME s[i][1] \in Ending, s[i][2] \in found2
          PROVE  \E l \in DOMAIN r : l > j /\ r[l][1] = "close" /\ r[l][2] = s[i][2]
      <3>1. s[i][2] \in found
        BY <2>2, <2>3 DEF Ending
      <3>2. PICK m \in DOMAIN s : m > i /\ s[m][1] = "close" /\ s[m][2] = s[i][2]
        BY <2>3, <3>1 DEF InOrder
      <3>3. m # 1 /\ m - 1 + n > j
        BY <1>1, <2>1, <3>2
      <3> QED BY <1>1, <3>2, <3>3
    <2> QED BY <2>1, <2>2, <2>3
  <1>4. InOrder(g, r, made2, found2)
    BY <1>1, <1>2, <1>3 DEF InOrder
  <1> QED BY <1>4 DEF r

(* A list that stays as it is stays in order. *)
LEMMA ListSame ==
    ASSUME NEW g, NEW s \in Seq(AllTasks), NEW made, NEW found, NEW made2, NEW found2,
           InOrder(g, s, made, found), made \subseteq made2, found2 \cap made \subseteq found
    PROVE  InOrder(g, s, made2, found2)
  BY DEF InOrder, Ending


-----------------------------------------------------------------------------
(* Steps of a goroutine *)

(* The names of goroutines. *)
LEMMA Names ==
    /\ {Reader, Ticker, Stopper} \subseteq Goroutines /\ Reader # Ticker /\ Reader # Stopper
    /\ Nobody # Stopper /\ Ticker # Stopper
    /\ \A k \in Conns : /\ Pinger(k) \in Goroutines /\ Timer("ack", k) \in Goroutines
                        /\ Pinger(k) \notin {Reader, Ticker, Stopper}
                        /\ Timer("ack", k) \notin {Reader, Ticker, Stopper}
                        /\ \A l \in Conns :
                               Timer("ack", k) # Pinger(l) /\ (k # l => Pinger(k) # Pinger(l))
    /\ \A k \in Conns : Pinger(k) # Reader
  BY DEF Reader, Ticker, Stopper, Nobody, Pinger, Timer, Goroutines

(* What the invariant says of connections that were made and of the ones found. *)
LEMMA ServerFacts ==
    ASSUME ServerTyped
    PROVE  /\ \A k \in DOMAIN address : k \in Nat /\ k # 0 /\ k \in Conns /\ address[k] \in Addrs
           /\ Found \subseteq DOMAIN address /\ stab \subseteq DOMAIN address
           /\ \A g \in Goroutines : work[g] \in Seq(AllTasks)
           /\ \A g \in Goroutines : \A i \in DOMAIN work[g] :
                 i \in Nat /\ work[g][i] = <<work[g][i][1], work[g][i][2]>>
           /\ \A g \in Goroutines : work[g] # <<>> => 1 \in DOMAIN work[g] /\ Head(work[g]) = work[g][1]
  <1>1. \A k \in DOMAIN address : k \in Nat /\ k # 0 /\ k \in Conns /\ address[k] \in Addrs
    BY DEF ServerTyped
  <1>2. \A g \in Goroutines : work[g] \in Seq(AllTasks)
    BY DEF ServerTyped
  <1>3. ASSUME NEW g \in Goroutines
        PROVE  /\ \A i \in DOMAIN work[g] : i \in Nat /\ work[g][i] = <<work[g][i][1], work[g][i][2]>>
               /\ work[g] # <<>> => 1 \in DOMAIN work[g] /\ Head(work[g]) = work[g][1]
    <2>1. PICK s \in Seq(AllTasks) : s = work[g]
      BY <1>2
    <2>2. \A i \in DOMAIN s : i \in Nat /\ s[i] \in AllTasks
      OBVIOUS
    <2>3. s # <<>> => 1 \in DOMAIN s /\ Head(s) = s[1]
      OBVIOUS
    <2>4. \A t \in AllTasks : t = <<t[1], t[2]>>
      BY DEF AllTasks
    <2> QED BY <2>1, <2>2, <2>3, <2>4
  <1> QED BY <1>1, <1>2, <1>3 DEF Found, ServerTyped

(* A goroutine does the head of its list, a task op about k, and goes on with  *)
(* new ones about k.  Of what the maps hold, only k may be lost, and k is lost *)
(* from the stabilizer's only by "delete".                                     *)
StepOf(g, op, k, new) ==
    /\ work[g] # <<>> /\ work[g][1][1] = op /\ work[g][1][2] = k
    /\ op \notin {"connect", "expire", "stop"}
    /\ new \in Seq(AllTasks)
    /\ work' = [work EXCEPT ![g] = new \o Tail(@)]
    /\ address' = address /\ stopping' = stopping
    /\ stab' \subseteq stab /\ robbed \subseteq robbed' /\ Found' \subseteq Found
    /\ \A l \in Found \ Found' : l \in robbed' \/ (l = k /\ op = "close")
    /\ \A l \in stab \ stab' : l = k /\ op = "delete"
    /\ op = "close" => k \notin Found'
    /\ \A i \in DOMAIN new :
          new[i][2] = k /\ new[i][1] \notin {"connect", "resend", "expire", "stop"}
    /\ \A i \in DOMAIN new : new[i][1] \in Ending /\ k \in Found' =>
          op \in Ending \/ \E j \in DOMAIN new : j > i /\ new[j][1] = "close"
    /\ k \in stab' /\ op \in Pending =>
          k \in Found' \union robbed' \/ \E i \in DOMAIN new : new[i][1] \in Pending

(* Such a step keeps the lists in order and the maps in agreement. *)
LEMMA StepKeeps ==
    ASSUME ServerInv, NEW g \in Goroutines, NEW op, NEW k, NEW new, StepOf(g, op, k, new)
    PROVE  Orderly' /\ NewIsUnknown' /\ FoundIsStable' /\ StableIsFound'
  <1> USE DEF StepOf
  <1>1. /\ k \in DOMAIN address /\ 1 \in DOMAIN work[g] /\ DOMAIN work[g] \subseteq Nat
        /\ work[g] \in Seq(AllTasks) /\ InOrder(g, work[g], DOMAIN address, Found)
    BY ServerFacts DEF ServerInv, Orderly, InOrder
  <1>2. /\ work'[g] = new \o Tail(work[g])
        /\ \A h \in Goroutines : h # g => work'[h] = work[h]
    BY DEF ServerInv, ServerTyped
  <1> DEFINE s == work[g]
             r == new \o Tail(s)
             n == Len(new)
  <1>3. /\ \A i \in DOMAIN new : i \in DOMAIN r /\ r[i] = new[i]
        /\ \A i \in DOMAIN s : i # 1 => i - 1 + n \in DOMAIN r /\ r[i - 1 + n] = s[i]
        /\ \A j \in DOMAIN r : \/ j \in DOMAIN new
                               \/ j - n + 1 \in DOMAIN s /\ j - n + 1 # 1 /\ r[j] = s[j - n + 1]
    <2>1. s \in Seq(AllTasks) /\ s # <<>>
      BY <1>1
    <2> HIDE DEF s
    <2> QED BY ONLY <2>1, new \in Seq(AllTasks), Placed DEF r, n
  <1>4. Orderly'
    <2>1. op \in Ending /\ k \in Found => \E j \in DOMAIN s : j > 1 /\ s[j][1] = "close" /\ s[j][2] = k
      BY <1>1 DEF InOrder
    <2>2. InOrder(g, r, DOMAIN address, Found')
      <3>1. \A l \in Conns : g = Pinger(l) => k = l
        BY <1>1 DEF InOrder
      <3>2. \A i \in DOMAIN new :
                /\ new[i][1] \notin {"expire", "stop"} => new[i][2] \in DOMAIN address
                /\ new[i][1] \in {"resend", "expire"} => g = Reader
                /\ new[i][1] \notin {"connect", "stop"} /\ g # Stopper
                /\ \A l \in Conns : g = Pinger(l) => new[i][2] = l
                /\ new[i][1] \in Ending /\ new[i][2] \in Found' =>
                     \/ \E j \in DOMAIN new : j > i /\ new[j][1] = "close" /\ new[j][2] = new[i][2]
                     \/ \E j \in DOMAIN s : j > 1 /\ s[j][1] = "close" /\ s[j][2] = new[i][2]
        <4>1. g # Stopper
          BY <1>1 DEF InOrder, Task
        <4> QED BY <1>1, <2>1, <3>1, <4>1
      <3>3. s \in Seq(AllTasks) /\ s # <<>> /\ InOrder(g, s, DOMAIN address, Found)
        BY <1>1
      <3>4. Found' \cap DOMAIN address \subseteq Found
        OBVIOUS
      <3> HIDE DEF s
      <3> QED BY ONLY <3>2, <3>3, <3>4, new \in Seq(AllTasks), ListKept DEF r
    <2>3. \A h \in Goroutines : h # g => InOrder(h, work[h], DOMAIN address, Found')
      BY ServerFacts, ListSame DEF ServerInv, Orderly
    <2> HIDE DEF r
    <2>4. \A h \in Goroutines : InOrder(h, work'[h], DOMAIN address', Found')
      BY <1>2, <2>2, <2>3 DEF r
    <2> QED BY <2>4 DEF Orderly
  (* what is not done yet is still to be done *)
  <1>5. ASSUME NEW h \in Goroutines, NEW i \in DOMAIN work[h], ~(h = g /\ i = 1)
        PROVE  \E j \in DOMAIN work'[h] : work'[h][j] = work[h][i]
    <2>1. CASE h = g
      <3> HIDE DEF r, n
      <3>1. i \in DOMAIN s /\ i # 1 /\ work[h][i] = s[i] /\ work'[h] = r
        BY <1>2, <1>5, <2>1 DEF r
      <3>2. PICK j \in DOMAIN r : r[j] = s[i]
        BY ONLY <1>3, <3>1
      <3> QED BY ONLY <3>1, <3>2
    <2>2. CASE h # g
      BY <1>2, <2>2
    <2> QED BY <2>1, <2>2
  <1> HIDE DEF r, n
  <1>6. \A ops, l : (~(op \in ops /\ l = k) /\ Todo(ops, l)) => Todo(ops, l)'
    <2> SUFFICES ASSUME NEW ops, NEW l, ~(op \in ops /\ l = k), Todo(ops, l) PROVE Todo(ops, l)'
      OBVIOUS
    <2>0. PICK h \in Goroutines : \E i \in DOMAIN work[h] : work[h][i][1] \in ops /\ work[h][i][2] = l
      BY DEF Todo
    <2>1. PICK i \in DOMAIN work[h] : work[h][i][1] \in ops /\ work[h][i][2] = l
      BY <2>0
    <2>2. ~(h = g /\ i = 1)
      BY <2>1
    <2>3. PICK j \in DOMAIN work'[h] : work'[h][j] = work[h][i]
      BY <1>5, <2>2
    <2> QED BY <2>1, <2>3 DEF Todo
  <1>7. \A i \in DOMAIN new : i \in DOMAIN work'[g] /\ work'[g][i] = new[i]
    BY <1>2, <1>3 DEF r
  <1>8. NewIsUnknown'
    <2> SUFFICES ASSUME NEW l \in DOMAIN address, Entering(l)'
                 PROVE  /\ l \notin stab' /\ l \in Found' \union robbed'
                        /\ \A h \in Goroutines \ {Reader} : \A i \in DOMAIN work'[h] : work'[h][i][2] # l
      BY DEF NewIsUnknown
    <2>1. g # Reader
      <3> SUFFICES ASSUME g = Reader PROVE FALSE
        OBVIOUS
      <3>1. r # <<>> /\ r[1][1] = "connect"
        BY <1>2 DEF Entering, r
      <3>2. r \in Seq(AllTasks)
        BY <1>1, Placed DEF r
      <3>3. 1 \in DOMAIN r
        BY ONLY <3>1, <3>2
      <3>4. 1 \notin DOMAIN new
        BY <1>3, <3>1
      <3>5. 1 - n + 1 \in DOMAIN s /\ 1 - n + 1 # 1 /\ r[1] = s[1 - n + 1]
        BY <1>3, <3>3, <3>4
      <3> QED BY <1>1, <3>1, <3>5 DEF InOrder
    <2>2. Entering(l)
      BY <1>2, <2>1, Names DEF Entering
    <2>3. /\ l \notin stab /\ l \in Found \union robbed
          /\ \A h \in Goroutines \ {Reader} : \A i \in DOMAIN work[h] : work[h][i][2] # l
      BY <2>2 DEF ServerInv, NewIsUnknown
    <2>4. l # k
      BY <1>1, <2>1, <2>3
    <2>5. ASSUME NEW h \in Goroutines \ {Reader}, NEW i \in DOMAIN work'[h] PROVE work'[h][i][2] # l
      <3>1. CASE h # g
        BY <1>2, <2>3, <3>1
      <3>2. CASE h = g /\ i \in DOMAIN new
        BY <1>7, <2>4, <3>2
      <3>3. CASE h = g /\ i \notin DOMAIN new
        BY <1>2, <1>3, <2>1, <2>3, <3>3 DEF r
      <3> QED BY <3>1, <3>2, <3>3
    <2> QED BY <2>3, <2>4, <2>5
  <1>9. FoundIsStable'
    <2> SUFFICES ASSUME ~stopping, NEW l \in Found'
                 PROVE  l \in stab' \/ Todo({"connect", "close"}, l)'
      BY DEF FoundIsStable
    <2>1. l \in stab \/ Todo({"connect", "close"}, l)
      BY DEF ServerInv, FoundIsStable
    <2>2. CASE Todo({"connect", "close"}, l)
      BY <1>6, <2>2
    <2>3. CASE l \in stab \ stab'
      <3>1. l = k /\ op = "delete"
        BY <2>3
      <3>2. PICK j \in DOMAIN work[g] : j > 1 /\ work[g][j][1] = "close" /\ work[g][j][2] = k
        BY <1>1, <3>1 DEF InOrder, Ending
      <3>3. Todo({"connect", "close"}, l)
        BY <3>1, <3>2 DEF Todo
      <3> QED BY <1>6, <3>1, <3>3
    <2> QED BY <2>1, <2>2, <2>3
  <1>10. StableIsFound'
    <2> SUFFICES ASSUME NEW l \in stab', l \notin Found' \union robbed'
                 PROVE  Todo(Pending, l)'
      BY DEF StableIsFound
    <2>1. CASE l = k /\ op \in Pending
      <3>1. PICK i \in DOMAIN new : new[i][1] \in Pending /\ new[i][2] = l
        BY <2>1
      <3> QED BY <1>7, <3>1 DEF Todo
    <2>2. CASE ~(l = k /\ op \in Pending)
      <3>1. l \in Found => l = k /\ op = "close"
        OBVIOUS
      <3>2. Todo(Pending, l)
        BY <2>2, <3>1 DEF ServerInv, StableIsFound, Pending
      <3> QED BY <1>6, <2>2, <3>2
    <2> QED BY <2>1, <2>2
  <1> QED BY <1>4, <1>8, <1>9, <1>10


(* The tasks that replace one. *)
LEMMA TasksType ==
    ASSUME NEW k \in Nat, NEW ops \in Seq(OpNames)
    PROVE  /\ Tasks(ops, k) \in Seq(AllTasks) /\ DOMAIN Tasks(ops, k) = DOMAIN ops
           /\ \A i \in DOMAIN ops : Tasks(ops, k)[i][1] = ops[i] /\ Tasks(ops, k)[i][2] = k
  <1>1. DOMAIN ops = 1 .. Len(ops) /\ Len(ops) \in Nat /\ \A i \in DOMAIN ops : ops[i] \in OpNames
    OBVIOUS
  <1>2. \A i \in DOMAIN ops : <<ops[i], k>> \in AllTasks
    BY <1>1 DEF AllTasks
  <1>3. Tasks(ops, k) = [i \in 1 .. Len(ops) |-> <<ops[i], k>>]
    BY <1>1 DEF Tasks, Task
  <1> QED BY <1>1, <1>2, <1>3

(* The types of the lists. *)
LEMMA WorkTyped ==
    ASSUME ServerTyped, NEW g \in Goroutines, work[g] # <<>>, NEW new \in Seq(AllTasks),
           work' = [work EXCEPT ![g] = new \o Tail(@)]
    PROVE  /\ work' \in [Goroutines -> Seq(AllTasks)] /\ (~ticked => work'[Ticker] = <<>>)
           /\ ~stopping => work'[Stopper] = <<>>
  <1>1. work \in [Goroutines -> Seq(AllTasks)] /\ (~ticked => work[Ticker] = <<>>)
        /\ (~stopping => work[Stopper] = <<>>)
    BY DEF ServerTyped
  <1>2. PICK s \in Seq(AllTasks) : s = work[g]
    BY <1>1
  <1>3. new \o Tail(s) \in Seq(AllTasks)
    BY <1>2, Placed
  <1>4. work' = [work EXCEPT ![g] = new \o Tail(s)]
    BY <1>2
  <1> DEFINE r == new \o Tail(s)
  <1> HIDE DEF r
  <1>5. work' = [work EXCEPT ![g] = r] /\ r \in Seq(AllTasks)
    BY <1>3, <1>4 DEF r
  <1> QED BY <1>1, <1>5, Names

(* A step that leaves the maps alone. *)
LEMMA GoesOn ==
    ASSUME ServerInv, NEW g \in Goroutines, NEW op, NEW k \in Conns, NEW ops \in Seq(OpNames),
           Does(g, op, k), GoOn(g, ops, k), op \notin {"connect", "expire", "stop", "close"},
           UNCHANGED <<udpConns, stab, environment, silent, locks, robbed>>,
           \A i \in DOMAIN ops : ops[i] \notin {"connect", "resend", "expire", "stop"},
           \A i \in DOMAIN ops : ops[i] \in Ending =>
               op \in Ending \/ \E j \in DOMAIN ops : j > i /\ ops[j] = "close",
           k \in stab /\ op \in Pending => \E i \in DOMAIN ops : ops[i] \in Pending
    PROVE  ServerInv'
  <1>1. /\ work[g] # <<>> /\ work[g][1][1] = op /\ work[g][1][2] = k
        /\ work' = [work EXCEPT ![g] = Tasks(ops, k) \o Tail(@)]
    BY ServerFacts DEF ServerInv, Does, GoOn, Task
  <1>2. k \in Nat
    <2>1. InOrder(g, work[g], DOMAIN address, Found) /\ 1 \in DOMAIN work[g]
      BY <1>1, ServerFacts DEF ServerInv, Orderly
    <2>2. k \in DOMAIN address
      BY <1>1, <2>1 DEF InOrder
    <2> QED BY <2>2, ServerFacts DEF ServerInv
  <1> DEFINE new == Tasks(ops, k)
  <1>3. /\ new \in Seq(AllTasks) /\ DOMAIN new = DOMAIN ops
        /\ \A i \in DOMAIN ops : new[i][1] = ops[i] /\ new[i][2] = k
    BY <1>2, TasksType
  <1> HIDE DEF new
  <1>4. /\ udpConns' = udpConns /\ stab' = stab /\ robbed' = robbed /\ address' = address
        /\ stopping' = stopping /\ ticked' = ticked /\ lock' = lock /\ silent' = silent
    BY DEF environment, locks
  <1>5. Found' = Found
    BY <1>4 DEF Found
  <1>6. work' = [work EXCEPT ![g] = new \o Tail(@)]
    BY <1>1 DEF new
  <1>7. ServerTyped'
    BY <1>1, <1>3, <1>4, <1>6, WorkTyped DEF ServerInv, ServerTyped
  <1>8. /\ \A i \in DOMAIN new :
              new[i][2] = k /\ new[i][1] \notin {"connect", "resend", "expire", "stop"}
        /\ \A i \in DOMAIN new : new[i][1] \in Ending /\ k \in Found' =>
              op \in Ending \/ \E j \in DOMAIN new : j > i /\ new[j][1] = "close"
        /\ k \in stab' /\ op \in Pending =>
              k \in Found' \union robbed' \/ \E i \in DOMAIN new : new[i][1] \in Pending
    BY <1>3, <1>4
  <1>9. /\ stab' \subseteq stab /\ robbed \subseteq robbed' /\ Found' \subseteq Found
        /\ \A l \in Found \ Found' : l \in robbed' \/ (l = k /\ op = "close")
        /\ \A l \in stab \ stab' : l = k /\ op = "delete"
        /\ op = "close" => k \notin Found'
        /\ op \notin {"connect", "expire", "stop"}
    BY <1>4, <1>5
  <1>10. StepOf(g, op, k, new)
    BY ONLY <1>1, <1>3, <1>4, <1>6, <1>8, <1>9 DEF StepOf
  <1>11. Orderly' /\ NewIsUnknown' /\ FoundIsStable' /\ StableIsFound'
    BY <1>10, StepKeeps
  <1> QED BY <1>7, <1>11 DEF ServerInv


(* Short lists of operations. *)
LEMMA OneOp ==
    ASSUME NEW x \in OpNames
    PROVE  <<x>> \in Seq(OpNames) /\ DOMAIN <<x>> = {1} /\ <<x>>[1] = x
  OBVIOUS

LEMMA TwoOps ==
    ASSUME NEW x \in OpNames, NEW y \in OpNames
    PROVE  /\ <<x, y>> \in Seq(OpNames) /\ DOMAIN <<x, y>> = {1, 2}
           /\ <<x, y>>[1] = x /\ <<x, y>>[2] = y
  OBVIOUS

LEMMA ThreeOps ==
    ASSUME NEW x \in OpNames, NEW y \in OpNames, NEW z \in OpNames
    PROVE  /\ <<x, y, z>> \in Seq(OpNames) /\ DOMAIN <<x, y, z>> = {1, 2, 3}
           /\ <<x, y, z>>[1] = x /\ <<x, y, z>>[2] = y /\ <<x, y, z>>[3] = z
  OBVIOUS

(* Steps that have no effect on the maps by address and of the stabilizer. *)
LEMMA QuietKeeps ==
    ASSUME ServerInv, NEW g \in Goroutines, NEW k \in Conns,
           \/ ReadData(g, k) \/ ReadPing(g, k) \/ ReadDisconnect(g, k)
           \/ Does(g, "resend", k) /\ GoOn(g, <<"ack">>, k)
           \/ ReadPong(g, k) \/ Write(g, k) \/ SendReport(g, k) \/ SendPing(g, k)
           \/ GetConn(g, k) \/ FindConn(g, k) \/ ForgetConn(g, k) \/ Report(g, k)
           \/ CleanupConnection(g, k),
           UNCHANGED <<udpConns, stab, environment, silent, locks, robbed>>
    PROVE  ServerInv'
  <1>1. ASSUME NEW op \in {"data", "pong", "ping", "write", "send", "ack", "send-ping", "forget",
                           "report", "report-nil", "cleanup"},
               op = "cleanup" => k \notin stab, Does(g, op, k), GoOn(g, <<>>, k)
        PROVE  ServerInv'
    <2> DEFINE ops == <<>>
    <2>1. ops \in Seq(OpNames) /\ DOMAIN ops = {}
      BY ONLY TRUE DEF ops
    <2>2. GoOn(g, ops, k) /\ op \notin {"connect", "expire", "stop", "close", "lookup", "delete"}
      BY <1>1 DEF ops
    <2> HIDE DEF ops
    <2> QED BY <1>1, <2>1, <2>2, GoesOn DEF Ending, Pending
  <1>2. ASSUME NEW op \in {"ping-frame", "resend", "ping", "write", "send-ping", "cleanup"},
               NEW x \in {"write", "ack", "send-ping", "send", "close", "delete"},
               op = "cleanup" <=> x = "delete", Does(g, op, k), GoOn(g, <<x>>, k)
        PROVE  ServerInv'
    <2> DEFINE ops == <<x>>
    <2>1. x \in OpNames
      BY DEF OpNames, Ending
    <2>2. ops \in Seq(OpNames) /\ DOMAIN ops = {1} /\ ops[1] = x
      BY <2>1, OneOp DEF ops
    <2>3. GoOn(g, ops, k) /\ op \notin {"connect", "expire", "stop", "close", "lookup", "delete"}
      BY <1>2 DEF ops
    <2> HIDE DEF ops
    <2> QED BY <1>2, <2>2, <2>3, GoesOn DEF Ending, Pending
  <1>3. ASSUME NEW op, NEW y,
               \/ op = "disconnect" /\ y = "close"
               \/ op = "lookup" /\ y = "report-nil",
               Does(g, op, k), GoOn(g, <<"cleanup", y>>, k)
        PROVE  ServerInv'
    <2> DEFINE ops == <<"cleanup", y>>
    <2>1. "cleanup" \in OpNames /\ y \in OpNames
      BY <1>3 DEF OpNames, Ending
    <2>2. ops \in Seq(OpNames) /\ DOMAIN ops = {1, 2} /\ ops[1] = "cleanup" /\ ops[2] = y
      BY <2>1, TwoOps DEF ops
    <2>3. GoOn(g, ops, k) /\ op \notin {"connect", "expire", "stop", "close", "delete"}
      BY <1>3 DEF ops
    <2> HIDE DEF ops
    <2>4. \A i \in DOMAIN ops : ops[i] \notin {"connect", "resend", "expire", "stop"}
      BY <1>3, <2>2
    <2>5. \A i \in DOMAIN ops : ops[i] \in Ending =>
             op \in Ending \/ \E j \in DOMAIN ops : j > i /\ ops[j] = "close"
      BY <1>3, <2>2 DEF Ending
    <2>6. \E i \in DOMAIN ops : ops[i] \in Pending
      BY <2>2 DEF Ending, Pending
    <2> QED BY <1>3, <2>2, <2>3, <2>4, <2>5, <2>6, GoesOn
  <1>4. CASE ReadData(g, k)
    BY <1>1, <1>4 DEF ReadData
  <1>5. CASE ReadPing(g, k)
    BY <1>2, <1>5 DEF ReadPing
  <1>6. CASE ReadDisconnect(g, k)
    <2>1. Does(g, "disconnect", k) /\ GoOn(g, <<"cleanup", "close">>, k)
      BY <1>6 DEF ReadDisconnect
    <2>2. PICK op, y : op = "disconnect" /\ y = "close"
      OBVIOUS
    <2>3. Does(g, op, k) /\ GoOn(g, <<"cleanup", y>>, k)
      BY <2>1, <2>2
    <2> QED BY <1>3, <2>2, <2>3
  <1>7. CASE Does(g, "resend", k) /\ GoOn(g, <<"ack">>, k)
    BY <1>2, <1>7
  <1>8. CASE ReadPong(g, k)
    BY <1>1, <1>8 DEF ReadPong
  <1>9. CASE Write(g, k)
    BY <1>1, <1>2, <1>9 DEF Write
  <1>10. CASE SendReport(g, k)
    BY <1>1, <1>10 DEF SendReport
  <1>11. CASE SendPing(g, k)
    BY <1>1, <1>2, <1>11 DEF SendPing
  <1>12. CASE GetConn(g, k)
    <2>1. CASE k \in stab
      <3> DEFINE ops == <<"find">>
      <3>1. "find" \in OpNames
        BY DEF OpNames, Ending
      <3>2. ops \in Seq(OpNames) /\ DOMAIN ops = {1} /\ ops[1] = "find"
        BY <3>1, OneOp DEF ops
      <3>3. Does(g, "lookup", k) /\ GoOn(g, ops, k)
        BY <1>12, <2>1 DEF GetConn
      <3> HIDE DEF ops
      <3> QED BY <3>2, <3>3, GoesOn DEF Ending, Pending
    <2>2. CASE k \notin stab
      <3>1. Does(g, "lookup", k) /\ GoOn(g, <<"cleanup", "report-nil">>, k)
        BY <1>12, <2>2 DEF GetConn
      <3>2. PICK op, y : op = "lookup" /\ y = "report-nil"
        OBVIOUS
      <3>3. Does(g, op, k) /\ GoOn(g, <<"cleanup", y>>, k)
        BY <3>1, <3>2
      <3> QED BY <1>3, <3>2, <3>3
    <2> QED BY <2>1, <2>2
  <1>15. CASE FindConn(g, k)
    <2>1. PICK y \in {"report", "report-nil"} : GoOn(g, <<"forget", "cleanup", y>>, k)
      BY <1>15 DEF FindConn
    <2> DEFINE ops == <<"forget", "cleanup", y>>
    <2>2. "forget" \in OpNames /\ "cleanup" \in OpNames /\ y \in OpNames
      BY DEF OpNames, Ending
    <2>3. ops \in Seq(OpNames) /\ DOMAIN ops = {1, 2, 3}
          /\ ops[1] = "forget" /\ ops[2] = "cleanup" /\ ops[3] = y
      BY <2>2, ThreeOps DEF ops
    <2>4. Does(g, "find", k) /\ GoOn(g, ops, k)
      BY <1>15, <2>1 DEF FindConn
    <2> HIDE DEF ops
    <2> QED BY <2>3, <2>4, GoesOn DEF Ending, Pending
  <1>13. CASE ForgetConn(g, k) \/ Report(g, k)
    BY <1>1, <1>13 DEF ForgetConn, Report
  <1>14. CASE CleanupConnection(g, k)
    BY <1>1, <1>2, <1>14 DEF CleanupConnection
  <1> QED BY <1>4, <1>5, <1>6, <1>7, <1>8, <1>9, <1>10, <1>11, <1>12, <1>13, <1>14, <1>15

(* Taking a connection out of the stabilizer's map. *)
LEMMA DeleteKeeps ==
    ASSUME ServerInv, NEW g \in Goroutines, NEW k \in Conns, DeleteConn(g, k)
    PROVE  ServerInv'
  <1>1. /\ work[g] # <<>> /\ work[g][1][1] = "delete" /\ work[g][1][2] = k
        /\ GoOn(g, <<>>, k)
    BY ServerFacts DEF ServerInv, Does, Task, DeleteConn
  <1>2. Tasks(<<>>, k) = <<>>
    <2>1. DOMAIN <<>> = {} /\ <<>> = [i \in {} |-> Task(<<>>[i], k)]
      BY ONLY TRUE
    <2> QED BY <2>1 DEF Tasks
  <1>3. work' = [work EXCEPT ![g] = <<>> \o Tail(@)]
    BY <1>1, <1>2 DEF GoOn
  <1>4. /\ stab' = stab \ {k} /\ udpConns' = udpConns /\ address' = address /\ silent' = silent
        /\ stopping' = stopping /\ ticked' = ticked /\ lock' = lock /\ robbed' = robbed
    BY DEF DeleteConn, environment, history
  <1>5. Found' = Found
    BY <1>4 DEF Found
  <1>6. <<>> \in Seq(AllTasks) /\ DOMAIN <<>> = {}
    BY ONLY TRUE
  <1>7. StepOf(g, "delete", k, <<>>)
    BY <1>1, <1>3, <1>4, <1>5, <1>6 DEF StepOf
  <1>8. ServerTyped'
    BY <1>1, <1>3, <1>4, <1>6, WorkTyped DEF ServerInv, ServerTyped
  <1> QED BY <1>7, <1>8, StepKeeps DEF ServerInv

(* Close takes the entry of whoever has the address now. *)
LEMMA CloseKeeps ==
    ASSUME ServerInv, NEW g \in Goroutines, NEW k \in Conns, Close(g, k)
    PROVE  ServerInv'
  <1>1. /\ work[g] # <<>> /\ work[g][1][1] = "close" /\ work[g][1][2] = k
        /\ GoOn(g, <<"lookup">>, k)
    BY ServerFacts DEF ServerInv, Does, Task, Close
  <1>2. k \in DOMAIN address
    <2>1. InOrder(g, work[g], DOMAIN address, Found) /\ 1 \in DOMAIN work[g]
      BY <1>1, ServerFacts DEF ServerInv, Orderly
    <2> QED BY <1>1, <2>1 DEF InOrder
  <1> DEFINE new == Tasks(<<"lookup">>, k)
             a == address[k]
  <1>3. new \in Seq(AllTasks) /\ DOMAIN new = {1} /\ new[1][1] = "lookup" /\ new[1][2] = k
    <2> DEFINE ops == <<"lookup">>
    <2>1. "lookup" \in OpNames
      BY DEF OpNames, Ending
    <2>2. ops \in Seq(OpNames) /\ DOMAIN ops = {1} /\ ops[1] = "lookup"
      BY <2>1, OneOp DEF ops
    <2>3. k \in Nat
      BY <1>2, ServerFacts DEF ServerInv
    <2> HIDE DEF ops
    <2>4. Tasks(ops, k) \in Seq(AllTasks) /\ DOMAIN Tasks(ops, k) = {1}
          /\ Tasks(ops, k)[1][1] = "lookup" /\ Tasks(ops, k)[1][2] = k
      BY <2>2, <2>3, TasksType
    <2> QED BY <2>4 DEF new, ops
  <1>4. work' = [work EXCEPT ![g] = new \o Tail(@)]
    BY <1>1 DEF GoOn
  <1> HIDE DEF new
  <1>5. /\ udpConns' = [udpConns EXCEPT ![a] = 0] /\ robbed' = robbed \union ({udpConns[a]} \ {0, k})
        /\ silent' \subseteq silent /\ stab' = stab /\ address' = address
        /\ stopping' = stopping /\ ticked' = ticked /\ lock' = lock
    BY DEF Close, environment, locks
  <1>6. /\ a \in Addrs /\ udpConns \in [Addrs -> Nat]
        /\ \A l \in DOMAIN address : l # 0 /\ address[l] \in Addrs
    BY <1>2, ServerFacts DEF ServerInv, ServerTyped
  <1>7. /\ udpConns' \in [Addrs -> Nat] /\ udpConns'[a] = 0
        /\ \A b \in Addrs : b # a => udpConns'[b] = udpConns[b]
    BY <1>5, <1>6
  <1> HIDE DEF a
  <1>8. Found' \subseteq Found /\ k \notin Found'
    BY <1>2, <1>5, <1>6, <1>7 DEF Found, a
  <1>9. \A l \in Found \ Found' : l \in robbed' \/ l = k
    BY <1>5, <1>6, <1>7 DEF Found
  <1>10. StepOf(g, "close", k, new)
    BY <1>1, <1>3, <1>4, <1>5, <1>8, <1>9 DEF StepOf, Ending, Pending
  <1>11. ServerTyped'
    BY <1>1, <1>3, <1>4, <1>5, <1>7, WorkTyped DEF ServerInv, ServerTyped
  <1> QED BY <1>10, <1>11, StepKeeps DEF ServerInv

(* A list that loses its head. *)
LEMMA Dropped ==
    ASSUME NEW g, NEW s \in Seq(AllTasks), s # <<>>, NEW made, NEW found, InOrder(g, s, made, found)
    PROVE  /\ Tail(s) \in Seq(AllTasks) /\ InOrder(g, Tail(s), made, found)
           /\ \A i \in DOMAIN s : i # 1 => \E j \in DOMAIN Tail(s) : Tail(s)[j] = s[i]
           /\ \A j \in DOMAIN Tail(s) : \E i \in DOMAIN s : i # 1 /\ Tail(s)[j] = s[i]
  <1> DEFINE t == Tail(s)
  <1>1. /\ t \in Seq(AllTasks) /\ Len(t) = Len(s) - 1 /\ Len(s) \in Nat
        /\ DOMAIN t = 1 .. Len(s) - 1 /\ DOMAIN s = 1 .. Len(s)
        /\ \A i \in 1 .. Len(s) - 1 : t[i] = s[i + 1]
    OBVIOUS
  <1> HIDE DEF t
  <1>2. \A i \in DOMAIN s : i # 1 => i - 1 \in DOMAIN t /\ t[i - 1] = s[i]
    BY <1>1
  <1>3. \A j \in DOMAIN t : j + 1 \in DOMAIN s /\ j + 1 # 1 /\ t[j] = s[j + 1]
    BY <1>1
  <1>4. ASSUME NEW j \in DOMAIN t, t[j][1] \in Ending, t[j][2] \in found
        PROVE  \E l \in DOMAIN t : l > j /\ t[l][1] = "close" /\ t[l][2] = t[j][2]
    <2>1. PICK m \in DOMAIN s : m > j + 1 /\ s[m][1] = "close" /\ s[m][2] = t[j][2]
      BY <1>3, <1>4 DEF InOrder
    <2>2. m # 1 /\ m - 1 > j
      BY <1>1, <1>4, <2>1
    <2> QED BY <1>2, <2>1, <2>2
  <1>5. InOrder(g, t, made, found)
    BY <1>3, <1>4 DEF InOrder
  <1> QED BY <1>1, <1>2, <1>3, <1>5 DEF t

(* The read loop that is done with its first task enters nobody. *)
LEMMA NoneEnters ==
    ASSUME ServerInv, work[Reader] # <<>>, work'[Reader] = Tail(work[Reader])
    PROVE  \A l : ~Entering(l)'
  <1> DEFINE s == work[Reader]
  <1>1. s \in Seq(AllTasks) /\ s # <<>> /\ InOrder(Reader, s, DOMAIN address, Found)
    BY ServerFacts, Names DEF ServerInv, Orderly
  <1>2. work'[Reader] = Tail(s)
    OBVIOUS
  <1> HIDE DEF s
  <1>3. Tail(s) # <<>> => 1 \in DOMAIN Tail(s)
    BY <1>1
  <1>4. \A j \in DOMAIN Tail(s) : \E i \in DOMAIN s : i # 1 /\ Tail(s)[j] = s[i]
    BY <1>1, Dropped
  <1>5. \A i \in DOMAIN s : i # 1 => s[i][1] # "connect"
    BY <1>1 DEF InOrder
  <1> QED BY <1>2, <1>3, <1>4, <1>5 DEF Entering

(* Steps that add tasks or do some that are of no importance to the maps. *)
Rearranged ==
    /\ address' = address /\ udpConns' = udpConns /\ robbed' = robbed
    /\ stab' \subseteq stab /\ (stopping => stopping') /\ (stab' = stab \/ stopping')
    /\ \A h \in Goroutines : \A i \in DOMAIN work[h] :
          work[h][i][1] \in Pending => \E j \in DOMAIN work'[h] : work'[h][j] = work[h][i]
    /\ \A l : Entering(l)' =>
          /\ Entering(l)
          /\ \A h \in Goroutines \ {Reader} : \A j \in DOMAIN work'[h] :
                work'[h][j][2] # l \/ \E i \in DOMAIN work[h] : work'[h][j] = work[h][i]

(* They keep what the invariant says of new, found and stable connections. *)
LEMMA RearrangedKeeps ==
    ASSUME ServerInv, Rearranged
    PROVE  NewIsUnknown' /\ FoundIsStable' /\ StableIsFound' /\ Found' = Found
  <1>1. Found' = Found
    BY DEF Rearranged, Found
  <1>2. ASSUME NEW ops, ops \subseteq Pending, NEW l, Todo(ops, l)
        PROVE  Todo(ops, l)'
    <2>1. PICK h \in Goroutines : \E i \in DOMAIN work[h] : work[h][i][1] \in ops /\ work[h][i][2] = l
      BY <1>2 DEF Todo
    <2>2. PICK i \in DOMAIN work[h] : work[h][i][1] \in ops /\ work[h][i][2] = l
      BY <2>1
    <2>3. PICK j \in DOMAIN work'[h] : work'[h][j] = work[h][i]
      BY <1>2, <2>2 DEF Rearranged
    <2> QED BY <2>2, <2>3 DEF Todo
  <1>3. NewIsUnknown'
    BY <1>1 DEF ServerInv, NewIsUnknown, Rearranged
  <1>4. FoundIsStable'
    <2> SUFFICES ASSUME ~stopping', NEW k \in Found
                 PROVE  k \in stab' \/ Todo({"connect", "close"}, k)'
      BY <1>1 DEF FoundIsStable
    <2>1. k \in stab \/ Todo({"connect", "close"}, k)
      BY DEF Rearranged, ServerInv, FoundIsStable
    <2>2. {"connect", "close"} \subseteq Pending
      BY DEF Pending
    <2> QED BY <1>2, <2>1, <2>2 DEF Rearranged
  <1>5. StableIsFound'
    <2>1. \A k \in stab' : k \in Found' \union robbed' \/ Todo(Pending, k)
      BY <1>1 DEF Rearranged, ServerInv, StableIsFound
    <2>2. \A k : Todo(Pending, k) => Todo(Pending, k)'
      BY <1>2
    <2> QED BY <2>1, <2>2 DEF StableIsFound
  <1> QED BY <1>1, <1>3, <1>4, <1>5

(* Steps that change no list. *)
LEMMA ListsSame ==
    ASSUME ServerInv, work' = work, udpConns' = udpConns, address' = address, robbed' = robbed,
           UNCHANGED <<stopping, ticked>>, stab' \subseteq stab, stab' = stab \/ stopping,
           silent' \subseteq DOMAIN address, lock' = Stopper => lock = Stopper
    PROVE  ServerInv'
  <1>1. Rearranged
    BY DEF Rearranged, Entering
  <1>2. Found' = Found
    BY <1>1, RearrangedKeeps
  <1>3. Orderly'
    BY <1>2 DEF ServerInv, Orderly
  <1>4. ServerTyped'
    BY DEF ServerInv, ServerTyped
  <1> QED BY <1>1, <1>3, <1>4, RearrangedKeeps DEF ServerInv

(* Steps on locks, time and the map of the stabilizer that leave the lists alone. *)
LEMMA StillKeeps ==
    ASSUME ServerInv,
           \/ \E g \in Goroutines, k \in Conns : UsesNil(g, k)
           \/ \E g \in Goroutines : WaitForWrite(g)
           \/ \E k \in Conns : Drop(k) \/ Age(k)
           \/ TickEnd \/ Stopped \/ UNCHANGED serverVars
    PROVE  ServerInv'
  <1>1. CASE \E g \in Goroutines, k \in Conns : UsesNil(g, k)
    BY <1>1, ListsSame DEF UsesNil, maps, environment, traffic, locks, history, ServerInv, ServerTyped
  <1>2. CASE \E g \in Goroutines : WaitForWrite(g)
    BY <1>2, ListsSame DEF WaitForWrite, maps, environment, traffic, history, ServerInv, ServerTyped
  <1>3. ASSUME NEW k \in Conns, Drop(k) PROVE ServerInv'
    <2>1. stopping
      BY <1>3 DEF Drop, ServerInv, ServerTyped
    <2> QED BY <1>3, <2>1, ListsSame DEF Drop, environment, locks, history, ServerInv, ServerTyped
  <1>4. ASSUME NEW k \in Conns, Age(k) PROVE ServerInv'
    <2>1. k \in DOMAIN address
      BY <1>4 DEF Age, Range, ServerInv, ServerTyped, Conns
    <2> QED BY <1>4, <2>1, ListsSame DEF Age, maps, environment, locks, history, ServerInv, ServerTyped
  <1>5. CASE TickEnd \/ Stopped
    BY <1>5, ListsSame, Names DEF TickEnd, Stopped, maps, environment, traffic, history, ServerInv,
                                       ServerTyped
  <1>6. CASE UNCHANGED serverVars
    BY <1>6, ListsSame DEF serverVars, maps, environment, traffic, locks, history, ServerInv, ServerTyped
  <1> QED BY <1>1, <1>2, <1>3, <1>4, <1>5, <1>6

(* The stabilizer learns of a connection, and its pings begin. *)
LEMMA ConnectKeeps ==
    ASSUME ServerInv, NEW g \in Goroutines, NEW k \in Conns, Connect(g, k)
    PROVE  ServerInv'
  <1>1. /\ work[g] # <<>> /\ work[g][1][1] = "connect" /\ work[g][1][2] = k
        /\ work[g] \in Seq(AllTasks) /\ 1 \in DOMAIN work[g]
        /\ \A h \in Goroutines : InOrder(h, work[h], DOMAIN address, Found)
    BY ServerFacts DEF ServerInv, Does, Task, Connect, Orderly
  <1>2. g = Reader /\ k \in DOMAIN address
    BY <1>1 DEF InOrder
  <1>3. /\ Entering(k) /\ k \notin stab /\ k \in Found \union robbed
        /\ \A h \in Goroutines \ {Reader} : \A i \in DOMAIN work[h] : work[h][i][2] # k
    BY <1>1, <1>2 DEF Entering, ServerInv, NewIsUnknown
  <1> DEFINE ops == <<"ping", "ping", "ping">>
             pings == Tasks(ops, k)
             rest == Tail(work[g])
  <1>4. /\ ops \in Seq(OpNames) /\ \A i \in DOMAIN ops : ops[i] = "ping"
    <2>1. "ping" \in OpNames
      BY DEF OpNames
    <2> QED BY <2>1
  <1>5. work' = [work EXCEPT ![g] = rest, ![Pinger(k)] = pings]
    BY DEF Connect
  <1> HIDE DEF ops
  <1>6. pings \in Seq(AllTasks) /\ \A i \in DOMAIN pings : pings[i][1] = "ping" /\ pings[i][2] = k
    BY <1>2, <1>4, ServerFacts, TasksType DEF ServerInv
  <1>7. /\ rest \in Seq(AllTasks) /\ InOrder(g, rest, DOMAIN address, Found)
        /\ \A i \in DOMAIN work[g] : i # 1 => \E j \in DOMAIN rest : rest[j] = work[g][i]
        /\ \A j \in DOMAIN rest : \E i \in DOMAIN work[g] : i # 1 /\ rest[j] = work[g][i]
    BY <1>1, Dropped
  <1> HIDE DEF pings, rest
  <1>8. /\ work'[g] = rest /\ work'[Pinger(k)] = pings
        /\ \A h \in Goroutines : h \notin {g, Pinger(k)} => work'[h] = work[h]
        /\ work' \in [Goroutines -> Seq(AllTasks)]
    BY <1>2, <1>5, <1>6, <1>7, Names DEF ServerInv, ServerTyped
  <1>9. /\ udpConns' = udpConns /\ address' = address /\ robbed' = robbed /\ stab' = stab \union {k}
        /\ silent' = silent /\ lock' = lock /\ stopping' = stopping /\ ticked' = ticked
    BY DEF Connect, environment, traffic, history
  <1>10. Found' = Found
    BY <1>9 DEF Found
  <1>11. ServerTyped'
    BY <1>2, <1>8, <1>9, Names DEF ServerInv, ServerTyped
  <1>12. InOrder(Pinger(k), pings, DOMAIN address, Found)
    BY <1>2, <1>6, Names DEF InOrder, Ending, Pinger
  <1>13. Orderly'
    <2>1. \A h \in Goroutines : InOrder(h, work'[h], DOMAIN address, Found)
      BY <1>1, <1>7, <1>8, <1>12
    <2> QED BY <1>9, <1>10, <2>1 DEF Orderly
  <1>14. ASSUME NEW ops2, NEW l, l # k, Todo(ops2, l) PROVE Todo(ops2, l)'
    <2>1. PICK h \in Goroutines : \E i \in DOMAIN work[h] : work[h][i][1] \in ops2 /\ work[h][i][2] = l
      BY <1>14 DEF Todo
    <2>2. PICK i \in DOMAIN work[h] : work[h][i][1] \in ops2 /\ work[h][i][2] = l
      BY <2>1
    <2>3. h # Pinger(k)
      BY <1>1, <1>14, <2>2 DEF InOrder
    <2>4. \E j \in DOMAIN work'[h] : work'[h][j] = work[h][i]
      <3>1. CASE h = g
        <4>1. i # 1 /\ i \in DOMAIN work[g]
          BY <1>1, <1>14, <2>2, <3>1
        <4>2. PICK j \in DOMAIN rest : rest[j] = work[g][i]
          BY <1>7, <4>1
        <4> QED BY <1>8, <3>1, <4>2
      <3>2. CASE h # g
        BY <1>8, <2>3, <3>2
      <3> QED BY <3>1, <3>2
    <2> QED BY <2>2, <2>4 DEF Todo
  <1>15. NewIsUnknown'
    BY <1>1, <1>2, <1>8, NoneEnters DEF NewIsUnknown, rest
  <1>16. FoundIsStable'
    BY <1>9, <1>10, <1>14 DEF FoundIsStable, ServerInv
  <1>17. StableIsFound'
    BY <1>3, <1>9, <1>10, <1>14 DEF StableIsFound, ServerInv
  <1> QED BY <1>11, <1>13, <1>15, <1>16, <1>17 DEF ServerInv

(* What sets the list of one goroutine, whose own list was done. *)
LEMMA ListSet ==
    ASSUME ServerInv, NEW g \in Goroutines, work[g] = <<>>, NEW new \in Seq(AllTasks),
           work' = [work EXCEPT ![g] = new],
           InOrder(g, new, DOMAIN address, Found), udpConns' = udpConns, address' = address,
           robbed' = robbed, stab' = stab, stopping => stopping', \A l : Entering(l)' => Entering(l),
           g # Reader => \A i \in DOMAIN new : ~Entering(new[i][2])
    PROVE  Orderly' /\ NewIsUnknown' /\ FoundIsStable' /\ StableIsFound'
  <1>1. work'[g] = new /\ \A h \in Goroutines : h # g => work'[h] = work[h]
    BY DEF ServerInv, ServerTyped
  <1>2. DOMAIN work[g] = {}
    BY ONLY work[g] = <<>>
  <1>3. Rearranged
    BY <1>1, <1>2 DEF Rearranged
  <1>4. Found' = Found
    BY <1>3, RearrangedKeeps
  <1>5. Orderly'
    BY <1>1, <1>4 DEF ServerInv, Orderly
  <1> QED BY <1>3, <1>5, RearrangedKeeps

(* A report that a timer sends later. *)
LEMMA LaterKeeps ==
    ASSUME ServerInv, NEW g \in Goroutines, NEW k \in Conns, Does(g, "resend", k), k \in stab,
           GoOnLater(g, "ack", k), UNCHANGED <<udpConns, stab, environment, silent, locks, robbed>>
    PROVE  ServerInv'
  <1> DEFINE T == Timer("ack", k)
             task == Task("ack", k)
             rest == Tail(work[g])
             more == Append(work[T], task)
  <1>1. /\ work[g] # <<>> /\ work[g][1][1] = "resend" /\ work[g][1][2] = k
        /\ work[g] \in Seq(AllTasks) /\ 1 \in DOMAIN work[g]
        /\ \A h \in Goroutines : InOrder(h, work[h], DOMAIN address, Found)
        /\ T \in Goroutines /\ work[T] \in Seq(AllTasks)
    BY ServerFacts, Names DEF ServerInv, Does, Task, Orderly
  <1>2. g = Reader /\ k \in DOMAIN address /\ k \in Nat
    BY <1>1, ServerFacts DEF InOrder, ServerInv
  <1>3. T \notin {Reader, Ticker, Stopper} /\ \A l \in Conns : T # Pinger(l)
    BY Names
  <1>4. task \in AllTasks /\ task[1] = "ack" /\ task[2] = k
    BY <1>2 DEF AllTasks, Task, OpNames
  <1>5. work' = [work EXCEPT ![g] = rest, ![T] = more]
    BY <1>2, <1>3 DEF GoOnLater
  <1>6. /\ rest \in Seq(AllTasks) /\ InOrder(g, rest, DOMAIN address, Found)
        /\ \A i \in DOMAIN work[g] : i # 1 => \E j \in DOMAIN rest : rest[j] = work[g][i]
    BY <1>1, Dropped
  <1>7. /\ more \in Seq(AllTasks)
        /\ \A i \in DOMAIN work[T] : i \in DOMAIN more /\ more[i] = work[T][i]
        /\ \A j \in DOMAIN more : j \in DOMAIN work[T] \/ more[j] = task
    <2> DEFINE t == work[T]
    <2>1. t \in Seq(AllTasks) /\ task \in AllTasks
      BY <1>1, <1>4
    <2> HIDE DEF t, task
    <2>2. /\ Append(t, task) \in Seq(AllTasks)
          /\ \A i \in DOMAIN t : i \in DOMAIN Append(t, task) /\ Append(t, task)[i] = t[i]
          /\ \A j \in DOMAIN Append(t, task) : j \in DOMAIN t \/ Append(t, task)[j] = task
      BY ONLY <2>1
    <2> QED BY <2>2 DEF t
  <1> HIDE DEF T, task, rest, more
  <1>8. /\ work'[g] = rest /\ work'[T] = more
        /\ \A h \in Goroutines : h \notin {g, T} => work'[h] = work[h]
        /\ work' \in [Goroutines -> Seq(AllTasks)]
    BY <1>1, <1>2, <1>3, <1>5, <1>6, <1>7 DEF ServerInv, ServerTyped
  <1>9. InOrder(T, more, DOMAIN address, Found)
    BY <1>1, <1>2, <1>3, <1>4, <1>7 DEF InOrder, Ending
  <1>10. /\ udpConns' = udpConns /\ address' = address /\ robbed' = robbed /\ stab' = stab
         /\ silent' = silent /\ lock' = lock /\ stopping' = stopping /\ ticked' = ticked
    BY DEF environment, locks
  <1>11. \A h \in Goroutines : \A i \in DOMAIN work[h] :
            work[h][i][1] \in Pending => \E j \in DOMAIN work'[h] : work'[h][j] = work[h][i]
    <2> SUFFICES ASSUME NEW h \in Goroutines, NEW i \in DOMAIN work[h], work[h][i][1] \in Pending
                 PROVE  \E j \in DOMAIN work'[h] : work'[h][j] = work[h][i]
      OBVIOUS
    <2>1. CASE h = g
      <3>1. i # 1
        BY <1>1, <2>1 DEF Pending, Ending
      <3> QED BY <1>6, <1>8, <2>1, <3>1
    <2>2. CASE h = T
      BY <1>7, <1>8, <2>2
    <2>3. CASE h \notin {g, T}
      BY <1>8, <2>3
    <2> QED BY <2>1, <2>2, <2>3
  <1>12. Rearranged
    BY <1>1, <1>2, <1>8, <1>10, <1>11, NoneEnters DEF Rearranged, rest
  <1>13. Found' = Found
    BY <1>12, RearrangedKeeps
  <1>14. Orderly'
    BY <1>1, <1>6, <1>8, <1>9, <1>10, <1>13 DEF Orderly
  <1>15. ServerTyped'
    BY <1>2, <1>3, <1>8, <1>10, Names DEF ServerInv, ServerTyped
  <1> QED BY <1>12, <1>14, <1>15, RearrangedKeeps DEF ServerInv

(* A datagram of a known connection. *)
LEMMA ReceiveKeeps ==
    ASSUME ServerInv, NEW a \in Addrs, NEW kind \in Kinds, Receive(a, kind), udpConns[a] # 0
    PROVE  ServerInv'
  <1> DEFINE k == udpConns[a]
             ops == <<kind, "expire">>
             new == Tasks(ops, k)
  <1>1. k \in DOMAIN address /\ k \in Nat
    BY DEF ServerInv, ServerTyped
  <1>2. kind \in OpNames /\ "expire" \in OpNames
    BY DEF OpNames
  <1>3. ops \in Seq(OpNames) /\ DOMAIN ops = {1, 2} /\ ops[1] = kind /\ ops[2] = "expire"
    BY <1>2, TwoOps
  <1>4. /\ work[Reader] = <<>> /\ work' = [work EXCEPT ![Reader] = new]
        /\ silent' \subseteq silent /\ address' = address /\ udpConns' = udpConns /\ stab' = stab
        /\ stopping' = stopping /\ ticked' = ticked /\ lock' = lock /\ robbed' = robbed
    BY DEF Receive, locks, history
  <1> HIDE DEF ops
  <1>5. /\ new \in Seq(AllTasks) /\ DOMAIN new = {1, 2} /\ new[1][1] = kind /\ new[1][2] = k
        /\ new[2][1] = "expire" /\ new[2][2] = k
    BY <1>1, <1>3, TasksType
  <1> HIDE DEF new, k
  <1>6. InOrder(Reader, new, DOMAIN address, Found)
    BY <1>1, <1>5, Names DEF InOrder, Ending, Kinds
  <1>7. work'[Reader] = new /\ \A h \in Goroutines : h # Reader => work'[h] = work[h]
    BY <1>4, Names DEF ServerInv, ServerTyped
  <1>8. \A l : ~Entering(l)'
    BY <1>5, <1>7 DEF Entering, Kinds
  <1>9. Orderly' /\ NewIsUnknown' /\ FoundIsStable' /\ StableIsFound'
    BY <1>4, <1>5, <1>6, <1>8, Names, ListSet
  <1>10. ServerTyped'
    BY <1>4, <1>5, <1>7, Names DEF ServerInv, ServerTyped
  <1> QED BY <1>9, <1>10 DEF ServerInv

(* The first datagram of a new one. *)
LEMMA EnterKeeps ==
    ASSUME ServerInv, NEW a \in Addrs, NEW kind \in Kinds, Receive(a, kind), udpConns[a] = 0
    PROVE  ServerInv'
  <1>0. PICK k \in Conns : k = Len(address) + 1
    BY DEF Receive
  <1> DEFINE ops == <<"connect", kind, "expire">>
             new == Tasks(ops, k)
  <1>1. /\ work[Reader] = <<>> /\ work' = [work EXCEPT ![Reader] = new]
        /\ silent' = silent /\ address' = Append(address, a)
        /\ udpConns' = [udpConns EXCEPT ![a] = k] /\ stab' = stab
        /\ stopping' = stopping /\ ticked' = ticked /\ lock' = lock /\ robbed' = robbed
    BY <1>0 DEF Receive, locks, history
  <1>2. kind \in OpNames /\ "expire" \in OpNames /\ "connect" \in OpNames
    BY DEF OpNames
  <1>3. /\ ops \in Seq(OpNames) /\ DOMAIN ops = {1, 2, 3}
        /\ ops[1] = "connect" /\ ops[2] = kind /\ ops[3] = "expire"
    BY <1>2, ThreeOps
  <1> HIDE DEF ops
  <1>4. /\ address' \in Seq(Addrs) /\ DOMAIN address' = DOMAIN address \union {k}
        /\ k \in Nat /\ k # 0 /\ k \notin DOMAIN address /\ address'[k] = a
        /\ \A l \in DOMAIN address : address'[l] = address[l] /\ l # 0
    <2>1. address \in Seq(Addrs)
      BY DEF ServerInv, ServerTyped
    <2> QED BY <1>0, <1>1, <2>1
  <1>5. /\ new \in Seq(AllTasks) /\ DOMAIN new = {1, 2, 3}
        /\ new[1][1] = "connect" /\ new[2][1] = kind /\ new[3][1] = "expire"
        /\ \A i \in 1 .. 3 : new[i][2] = k
    BY <1>3, <1>4, TasksType
  <1> HIDE DEF new
  <1>6. work'[Reader] = new /\ \A h \in Goroutines : h # Reader => work'[h] = work[h]
    BY <1>1, Names DEF ServerInv, ServerTyped
  <1>7. /\ udpConns' \in [Addrs -> Nat] /\ udpConns'[a] = k
        /\ \A b \in Addrs : b # a => udpConns'[b] = udpConns[b]
    BY <1>1, <1>4 DEF ServerInv, ServerTyped
  <1>8. Found' = Found \union {k}
    BY <1>4, <1>7, ServerFacts DEF Found, ServerInv
  <1>9. ServerTyped'
    <2>1. \A b \in Addrs : udpConns'[b] # 0 =>
              udpConns'[b] \in DOMAIN address' /\ address'[udpConns'[b]] = b
      BY <1>4, <1>7 DEF ServerInv, ServerTyped
    <2>2. work' \in [Goroutines -> Seq(AllTasks)] /\ (~ticked' => work'[Ticker] = <<>>)
          /\ (~stopping' => work'[Stopper] = <<>>)
      BY <1>1, <1>5, Names DEF ServerInv, ServerTyped
    <2>3. DOMAIN address' \subseteq Conns /\ stab' \subseteq DOMAIN address'
          /\ silent' \subseteq DOMAIN address' /\ (lock' = Stopper => stopping')
      BY <1>1, <1>4 DEF ServerInv, ServerTyped
    <2> QED BY <1>4, <1>7, <2>1, <2>2, <2>3 DEF ServerTyped
  <1>10. Orderly'
    <2>1. InOrder(Reader, new, DOMAIN address', Found')
      BY <1>4, <1>5, Names DEF InOrder, Ending, Kinds
    <2>2. ASSUME NEW h \in Goroutines, h # Reader
          PROVE  InOrder(h, work[h], DOMAIN address', Found')
      <3>1. work[h] \in Seq(AllTasks) /\ InOrder(h, work[h], DOMAIN address, Found)
        BY ServerFacts DEF ServerInv, Orderly
      <3>2. DOMAIN address \subseteq DOMAIN address' /\ Found' \cap DOMAIN address \subseteq Found
        BY <1>4, <1>8
      <3> QED BY <3>1, <3>2, ListSame
    <2> QED BY <1>6, <2>1, <2>2 DEF Orderly
  <1>11. ASSUME NEW h \in Goroutines \ {Reader}, NEW i \in DOMAIN work[h]
         PROVE  work[h][i][2] # k
    <2>1. InOrder(h, work[h], DOMAIN address, Found)
      BY DEF ServerInv, Orderly
    <2>2. \/ work[h][i][2] \in DOMAIN address
          \/ work[h][i] = <<"stop", 0>>
      BY <2>1 DEF InOrder, Task
    <2> QED BY <1>4, <2>2
  <1>12. NewIsUnknown'
    <2>1. \A l : Entering(l)' => l = k
      BY <1>5, <1>6 DEF Entering
    <2>2. k \notin stab' /\ k \in Found'
      BY <1>1, <1>4, <1>8 DEF ServerInv, ServerTyped
    <2> QED BY <1>6, <1>11, <2>1, <2>2 DEF NewIsUnknown
  <1>13. \A opset, l : Todo(opset, l) => Todo(opset, l)'
    <2>1. DOMAIN work[Reader] = {}
      BY ONLY <1>1
    <2> QED BY <1>6, <2>1 DEF Todo
  <1>14. Todo({"connect", "close"}, k)'
    <2>1. 1 \in DOMAIN work'[Reader] /\ work'[Reader][1][1] \in {"connect", "close"}
          /\ work'[Reader][1][2] = k /\ Reader \in Goroutines
      BY <1>5, <1>6, Names
    <2> QED BY <2>1 DEF Todo
  <1>15. FoundIsStable'
    BY <1>1, <1>8, <1>13, <1>14 DEF FoundIsStable, ServerInv
  <1>16. StableIsFound'
    BY <1>1, <1>8, <1>13 DEF StableIsFound, ServerInv
  <1> QED BY <1>9, <1>10, <1>12, <1>15, <1>16 DEF ServerInv

(* The tasks that expire connections: a Close follows every cleanup. *)
LEMMA EachExpired ==
    ASSUME NEW S, IsFiniteSet(S), S \subseteq Nat, NEW expired \in SetToSeqs(S)
    PROVE  LET r == ExpireEach(expired) IN
           /\ r \in Seq(AllTasks)
           /\ \A i \in DOMAIN r : r[i][1] \in {"write", "cleanup", "close"} /\ r[i][2] \in S
           /\ \A i \in DOMAIN r : r[i][1] = "cleanup" =>
                 \E j \in DOMAIN r : j > i /\ r[j][1] = "close" /\ r[j][2] = r[i][2]
  <1> DEFINE n == Cardinality(S)
             ops == <<"write", "cleanup", "close", "close">>
             r == ExpireEach(expired)
  <1>1. n \in Nat
    BY FS_CardinalityType
  <1>2. expired \in [1 .. n -> S]
    BY DEF SetToSeqs
  <1> HIDE DEF n
  <1>3. Len(expired) = n
    BY <1>1, <1>2
  <1>4. ops[1] = "write" /\ ops[2] = "cleanup" /\ ops[3] = "close" /\ ops[4] = "close"
    BY ONLY TRUE DEF ops
  <1> HIDE DEF ops
  <1>5. r = [i \in 1 .. 4 * n |-> <<ops[1 + ((i - 1) % 4)], expired[1 + ((i - 1) \div 4)]>>]
    BY <1>3 DEF ExpireEach, Task, ops
  <1> HIDE DEF r
  <1>6. \A i \in 1 .. 4 * n : 1 + ((i - 1) % 4) \in 1 .. 4 /\ 1 + ((i - 1) \div 4) \in 1 .. n
    BY <1>1
  <1>7. \A m \in 1 .. 4 : ops[m] \in {"write", "cleanup", "close"} /\ (ops[m] = "cleanup" => m = 2)
    BY <1>4
  <1>8. DOMAIN r = 1 .. 4 * n /\ \A i \in 1 .. 4 * n :
            r[i][1] = ops[1 + ((i - 1) % 4)] /\ r[i][2] = expired[1 + ((i - 1) \div 4)]
    BY <1>5
  <1>9. \A i \in DOMAIN r : r[i][1] \in {"write", "cleanup", "close"} /\ r[i][2] \in S
    BY <1>2, <1>6, <1>7, <1>8
  <1>10. r \in Seq(AllTasks)
    <2>1. \A i \in 1 .. 4 * n :
              <<ops[1 + ((i - 1) % 4)], expired[1 + ((i - 1) \div 4)]>> \in AllTasks
      BY <1>8, <1>9 DEF AllTasks, OpNames, Ending
    <2>2. PICK m \in Nat : m = 4 * n
      BY <1>1
    <2>3. r \in [1 .. m -> AllTasks]
      BY <1>5, <2>1, <2>2
    <2> QED BY ONLY <2>2, <2>3
  <1>11. ASSUME NEW i \in DOMAIN r, r[i][1] = "cleanup"
         PROVE  \E j \in DOMAIN r : j > i /\ r[j][1] = "close" /\ r[j][2] = r[i][2]
    <2>1. i \in 1 .. 4 * n
      BY <1>8
    <2>2. 1 + ((i - 1) % 4) = 2
      BY <1>6, <1>7, <1>8, <1>11, <2>1
    <2>3. i + 1 \in 1 .. 4 * n /\ (i + 1 - 1) \div 4 = (i - 1) \div 4 /\ 1 + ((i + 1 - 1) % 4) = 3
      BY <1>1, <2>1, <2>2
    <2>4. r[i + 1][1] = "close" /\ r[i + 1][2] = r[i][2]
      BY <1>4, <1>8, <2>1, <2>3
    <2> QED BY <1>8, <2>1, <2>3, <2>4
  <1> QED BY <1>9, <1>10, <1>11 DEF r

(* The connections that expire are some of those made. *)
LEMMA SilentFinite ==
    ASSUME ServerTyped
    PROVE  LET S == Range(udpConns) \intersect silent IN
           S \subseteq DOMAIN address /\ S \subseteq Nat /\ IsFiniteSet(S)
  <1> DEFINE S == Range(udpConns) \intersect silent
  <1>1. DOMAIN address = 1 .. Len(address) /\ Len(address) \in Int /\ 1 \in Int
    BY DEF ServerTyped
  <1>2. IsFiniteSet(1 .. Len(address))
    BY <1>1, FS_Interval
  <1>3. S \subseteq DOMAIN address
    BY DEF ServerTyped
  <1> QED BY <1>1, <1>2, <1>3, FS_Subset

(* The read loop turns to the connections that have been silent too long. *)
LEMMA ExpireKeeps ==
    ASSUME ServerInv, NEW k \in Conns \union {0}, Expire(k)
    PROVE  ServerInv'
  <1> DEFINE S == Range(udpConns) \intersect silent
             s == work[Reader]
  <1>1. /\ s # <<>> /\ s[1][1] = "expire" /\ s \in Seq(AllTasks) /\ 1 \in DOMAIN s
        /\ InOrder(Reader, s, DOMAIN address, Found)
    BY ServerFacts, Names DEF ServerInv, Does, Task, Expire, Orderly
  <1>2. S \subseteq DOMAIN address /\ S \subseteq Nat /\ IsFiniteSet(S)
    BY SilentFinite DEF ServerInv
  <1>3. PICK expired \in SetToSeqs(S) :
            work' = [work EXCEPT ![Reader] = ExpireEach(expired) \o Tail(@)]
    BY DEF Expire
  <1> HIDE DEF S
  <1>4. PICK new \in Seq(AllTasks) :
            /\ new = ExpireEach(expired)
            /\ \A i \in DOMAIN new : new[i][1] \in {"write", "cleanup", "close"} /\ new[i][2] \in S
            /\ \A i \in DOMAIN new : new[i][1] = "cleanup" =>
                  \E j \in DOMAIN new : j > i /\ new[j][1] = "close" /\ new[j][2] = new[i][2]
    BY <1>2, EachExpired
  <1>5. /\ udpConns' = udpConns /\ address' = address /\ robbed' = robbed /\ stab' = stab
        /\ silent' = silent /\ lock' = lock /\ stopping' = stopping /\ ticked' = ticked
    BY DEF Expire, maps, environment, traffic, locks, history
  <1> DEFINE r == new \o Tail(s)
  <1>6. work' = [work EXCEPT ![Reader] = r]
    BY <1>3, <1>4
  <1>7. /\ r \in Seq(AllTasks)
        /\ \A i \in DOMAIN s : i # 1 => i - 1 + Len(new) \in DOMAIN r /\ r[i - 1 + Len(new)] = s[i]
        /\ \A j \in DOMAIN r : \/ j \in DOMAIN new
                               \/ j - Len(new) + 1 \in DOMAIN s /\ j - Len(new) + 1 # 1
                                     /\ r[j] = s[j - Len(new) + 1]
        /\ \A i \in DOMAIN new : i \in DOMAIN r /\ r[i] = new[i]
    <2> HIDE DEF s
    <2> QED BY <1>1, Placed
  <1>8. InOrder(Reader, r, DOMAIN address, Found)
    <2>1. \A i \in DOMAIN new :
              /\ new[i][1] \notin {"expire", "stop"} => new[i][2] \in DOMAIN address
              /\ new[i][1] \in {"resend", "expire"} => Reader = Reader
              /\ new[i][1] \notin {"connect", "stop"} /\ Reader # Stopper
              /\ \A l \in Conns : Reader = Pinger(l) => new[i][2] = l
              /\ new[i][1] \in Ending /\ new[i][2] \in Found =>
                    \/ \E j \in DOMAIN new : j > i /\ new[j][1] = "close" /\ new[j][2] = new[i][2]
                    \/ \E j \in DOMAIN s : j > 1 /\ s[j][1] = "close" /\ s[j][2] = new[i][2]
      BY <1>2, <1>4, Names DEF Ending
    <2>2. Found \cap DOMAIN address \subseteq Found
      OBVIOUS
    <2> HIDE DEF s
    <2> QED BY ONLY <1>1, <1>4, <2>1, <2>2, ListKept DEF r
  <1> HIDE DEF r, s
  <1>9. work'[Reader] = r /\ \A h \in Goroutines : h # Reader => work'[h] = work[h]
    BY <1>6, Names DEF ServerInv, ServerTyped
  <1>10. \A l : ~Entering(l)'
    <2>1. ASSUME NEW j \in DOMAIN r PROVE r[j][1] # "connect"
      <3>1. CASE j \in DOMAIN new
        BY <1>4, <1>7, <3>1
      <3>2. CASE j \notin DOMAIN new
        <4>1. PICK i \in DOMAIN s : i # 1 /\ r[j] = s[i]
          BY <1>7, <3>2
        <4> QED BY <1>1, <4>1 DEF InOrder
      <3> QED BY <3>1, <3>2
    <2>2. r # <<>> => 1 \in DOMAIN r
      BY <1>7
    <2> QED BY <1>9, <2>1, <2>2 DEF Entering
  <1>11. Rearranged
    <2>1. \A i \in DOMAIN s : s[i][1] \in Pending => \E j \in DOMAIN r : r[j] = s[i]
      BY <1>1, <1>7 DEF Pending, Ending
    <2> QED BY <1>5, <1>9, <1>10, <2>1 DEF Rearranged, s
  <1>12. Found' = Found
    BY <1>11, RearrangedKeeps
  <1>13. Orderly'
    BY <1>5, <1>8, <1>9, <1>12 DEF Orderly, ServerInv
  <1>14. ServerTyped'
    BY <1>5, <1>6, <1>7, <1>9, Names DEF ServerInv, ServerTyped
  <1> QED BY <1>11, <1>13, <1>14, RearrangedKeeps DEF ServerInv

(* The ticker pings every connection of the stabilizer. *)
LEMMA TickKeeps ==
    ASSUME ServerInv, Tick
    PROVE  ServerInv'
  <1>1. PICK order \in SetToSeqs(stab) :
            work' = [work EXCEPT ![Ticker] = [i \in DOMAIN order |-> Task("ping", order[i])]]
    BY DEF Tick
  <1>2. PICK n \in Nat : n = Cardinality(stab)
    <2>1. /\ DOMAIN address = 1 .. Len(address) /\ Len(address) \in Int /\ 1 \in Int
          /\ stab \subseteq DOMAIN address
      BY DEF ServerInv, ServerTyped
    <2>2. IsFiniteSet(1 .. Len(address))
      BY <2>1, FS_Interval
    <2> QED BY <2>1, <2>2, FS_Subset, FS_CardinalityType
  <1>3. order \in [1 .. n -> stab]
    BY <1>2 DEF SetToSeqs
  <1>4. \A l \in stab : l \in DOMAIN address /\ l \in Nat
    BY ServerFacts DEF ServerInv
  <1> DEFINE new == [i \in 1 .. n |-> <<"ping", order[i]>>]
  <1>5. /\ new \in Seq(AllTasks) /\ DOMAIN new = 1 .. n
        /\ \A i \in DOMAIN new : new[i][1] = "ping" /\ new[i][2] \in stab
    <2>1. \A i \in 1 .. n : <<"ping", order[i]>> \in AllTasks
      BY <1>3, <1>4 DEF AllTasks, OpNames
    <2>2. new \in [1 .. n -> AllTasks]
      BY <2>1
    <2>3. DOMAIN new = 1 .. n /\ \A i \in DOMAIN new : new[i][1] = "ping" /\ new[i][2] \in stab
      BY <1>3
    <2> HIDE DEF new
    <2>4. new \in Seq(AllTasks)
      BY ONLY <1>2, <2>2
    <2> QED BY <2>3, <2>4
  <1>6. /\ work' = [work EXCEPT ![Ticker] = new] /\ work[Ticker] = <<>>
        /\ udpConns' = udpConns /\ address' = address /\ robbed' = robbed /\ stab' = stab
        /\ silent' = silent /\ lock' = Ticker /\ stopping' = stopping /\ ticked'
    BY <1>1, <1>3 DEF Tick, maps, traffic, history, Task, ServerInv, ServerTyped
  <1> HIDE DEF new
  <1>7. InOrder(Ticker, new, DOMAIN address, Found)
    BY <1>4, <1>5, Names DEF InOrder, Ending
  <1>8. \A i \in DOMAIN new : ~Entering(new[i][2])
    BY <1>4, <1>5 DEF ServerInv, NewIsUnknown
  <1>9. \A l : Entering(l)' => Entering(l)
    BY <1>6, Names DEF Entering, ServerInv, ServerTyped
  <1>10. Orderly' /\ NewIsUnknown' /\ FoundIsStable' /\ StableIsFound'
    BY <1>5, <1>6, <1>7, <1>8, <1>9, Names, ListSet
  <1>11. ServerTyped'
    BY <1>5, <1>6, Names DEF ServerInv, ServerTyped
  <1> QED BY <1>10, <1>11 DEF ServerInv

(* Stop starts two lists; the second empties the map of the stabilizer. *)
LEMMA StopKeeps ==
    ASSUME ServerInv, Stop \/ StopStabilizer
    PROVE  ServerInv'
  <1>1. CASE Stop
    <2> DEFINE expire == IF work[Reader] = <<>> THEN <<Task("expire", 0)>> ELSE work[Reader]
               stop == <<Task("stop", 0)>>
    <2>1. /\ stop \in Seq(AllTasks) /\ DOMAIN stop = {1} /\ stop[1] = Task("stop", 0)
          /\ DOMAIN <<Task("expire", 0)>> = {1} /\ <<Task("expire", 0)>>[1] = Task("expire", 0)
          /\ <<Task("expire", 0)>> \in Seq(AllTasks)
      <3>1. Task("expire", 0) \in AllTasks /\ Task("stop", 0) \in AllTasks
        BY DEF Task, AllTasks, OpNames
      <3> QED BY <3>1
    <2>2. /\ work[Stopper] = <<>>
          /\ work' = [work EXCEPT ![Reader] = expire, ![Stopper] = stop]
          /\ udpConns' = udpConns /\ address' = address /\ robbed' = robbed /\ stab' = stab
          /\ silent' = silent /\ lock' = lock /\ stopping' /\ ticked' = ticked
      BY <1>1, Names DEF Stop, maps, traffic, locks, history, ServerInv, ServerTyped
    <2>3. \/ expire = work[Reader]
          \/ work[Reader] = <<>> /\ expire = <<Task("expire", 0)>>
      OBVIOUS
    <2>4. /\ expire \in Seq(AllTasks) /\ InOrder(Reader, expire, DOMAIN address, Found)
          /\ \A i \in DOMAIN work[Reader] : i \in DOMAIN expire /\ expire[i] = work[Reader][i]
          /\ expire # <<>> /\ expire[1][1] = "connect" => expire = work[Reader]
      <3>1. CASE expire = work[Reader]
        BY <3>1, Names, ServerFacts DEF ServerInv, Orderly
      <3>2. CASE work[Reader] = <<>> /\ expire = <<Task("expire", 0)>>
        <4>1. DOMAIN work[Reader] = {}
          BY ONLY <3>2
        <4>2. DOMAIN expire = {1} /\ expire[1] = Task("expire", 0) /\ expire \in Seq(AllTasks)
          BY ONLY <2>1, <3>2
        <4> HIDE DEF expire
        <4>3. InOrder(Reader, expire, DOMAIN address, Found)
          BY <4>2, Names DEF InOrder, Task, Ending
        <4>4. expire[1][1] # "connect"
          BY <4>2 DEF Task
        <4> QED BY <4>1, <4>2, <4>3, <4>4
      <3> QED BY <2>3, <3>1, <3>2
    <2> HIDE DEF expire, stop
    <2>5. /\ work'[Reader] = expire /\ work'[Stopper] = stop
          /\ \A h \in Goroutines : h \notin {Reader, Stopper} => work'[h] = work[h]
          /\ work' \in [Goroutines -> Seq(AllTasks)]
      BY <2>1, <2>2, <2>4, Names DEF ServerInv, ServerTyped
    <2>6. DOMAIN work[Stopper] = {}
      BY ONLY <2>2
    <2>7. \A l : Entering(l)' => Entering(l) /\ l \in DOMAIN address
      <3>1. \A l : Entering(l)' => expire # <<>> /\ expire[1][1] = "connect" /\ expire[1][2] = l
        BY <2>5 DEF Entering
      <3>2. \A l : Entering(l)' => Entering(l)
        BY <2>4, <3>1 DEF Entering
      <3>3. work[Reader] # <<>> => 1 \in DOMAIN work[Reader]
        BY ServerFacts, Names DEF ServerInv
      <3>4. \A l : Entering(l) => l \in DOMAIN address
        BY <3>3, Names DEF Entering, ServerInv, Orderly, InOrder
      <3> QED BY <3>2, <3>4
    <2>8. Rearranged
      <3>1. \A h \in Goroutines : \A i \in DOMAIN work[h] : i \in DOMAIN work'[h] /\ work'[h][i] = work[h][i]
        BY <2>4, <2>5, <2>6
      <3>2. \A l : Entering(l)' => \A h \in Goroutines \ {Reader} : \A j \in DOMAIN work'[h] :
                work'[h][j][2] # l \/ \E i \in DOMAIN work[h] : work'[h][j] = work[h][i]
        <4> SUFFICES ASSUME NEW l, Entering(l)', NEW h \in Goroutines \ {Reader}, NEW j \in DOMAIN work'[h]
                     PROVE  work'[h][j][2] # l \/ \E i \in DOMAIN work[h] : work'[h][j] = work[h][i]
          OBVIOUS
        <4>1. CASE h = Stopper
          <5>1. work'[h][j][2] = 0
            BY <2>1, <2>5, <4>1 DEF Task
          <5> QED BY <2>7, <5>1, ServerFacts DEF ServerInv
        <4>2. CASE h # Stopper
          BY <2>5, <4>2
        <4> QED BY <4>1, <4>2
      <3>3. \A h \in Goroutines : \A i \in DOMAIN work[h] : \E j \in DOMAIN work'[h] : work'[h][j] = work[h][i]
        BY <3>1
      <3>4. /\ address' = address /\ udpConns' = udpConns /\ robbed' = robbed
            /\ stab' \subseteq stab /\ (stopping => stopping') /\ (stab' = stab \/ stopping')
        BY <2>2
      <3>5. \A l : Entering(l)' =>
                /\ Entering(l)
                /\ \A h \in Goroutines \ {Reader} : \A j \in DOMAIN work'[h] :
                      work'[h][j][2] # l \/ \E i \in DOMAIN work[h] : work'[h][j] = work[h][i]
        <4> SUFFICES ASSUME NEW l, Entering(l)'
                     PROVE  /\ Entering(l)
                            /\ \A h \in Goroutines \ {Reader} : \A j \in DOMAIN work'[h] :
                                  work'[h][j][2] # l \/ \E i \in DOMAIN work[h] : work'[h][j] = work[h][i]
          OBVIOUS
        <4>1. Entering(l)
          BY <2>7
        <4> QED BY <3>2, <4>1
      <3>6. \A h \in Goroutines : \A i \in DOMAIN work[h] :
               work[h][i][1] \in Pending => \E j \in DOMAIN work'[h] : work'[h][j] = work[h][i]
        BY <3>3
      <3> QED BY <3>4, <3>5, <3>6 DEF Rearranged
    <2>9. Found' = Found
      BY <2>8, RearrangedKeeps
    <2>10. InOrder(Stopper, stop, DOMAIN address, Found)
      BY <2>1, Names DEF InOrder, Task, Ending
    <2>11. Orderly'
      BY <2>2, <2>4, <2>5, <2>9, <2>10 DEF Orderly, ServerInv
    <2>12. ServerTyped'
      BY <2>2, <2>5, Names DEF ServerInv, ServerTyped
    <2> QED BY <2>8, <2>11, <2>12, RearrangedKeeps DEF ServerInv
  <1>2. CASE StopStabilizer
    <2>1. work[Stopper] # <<>>
      BY <1>2 DEF StopStabilizer, Does
    <2>2. /\ stopping /\ work' = [work EXCEPT ![Stopper] = <<>>]
          /\ udpConns' = udpConns /\ address' = address /\ robbed' = robbed /\ stab' = stab
          /\ silent' = silent /\ stopping' = stopping /\ ticked' = ticked
      BY <1>2, <2>1 DEF StopStabilizer, maps, environment, traffic, history, ServerInv, ServerTyped
    <2>3. <<>> \in Seq(AllTasks) /\ DOMAIN <<>> = {}
      BY ONLY TRUE
    <2>4. /\ work'[Stopper] = <<>> /\ work' \in [Goroutines -> Seq(AllTasks)]
          /\ \A h \in Goroutines : h # Stopper => work'[h] = work[h]
      BY <2>2, <2>3, Names DEF ServerInv, ServerTyped
    <2>5. \A i \in DOMAIN work[Stopper] : work[Stopper][i][1] \notin Pending
      BY Names DEF ServerInv, Orderly, InOrder, Pending, Ending, Task
    <2>6. Rearranged
      BY <2>2, <2>3, <2>4, <2>5, Names DEF Rearranged, Entering
    <2>7. Found' = Found
      BY <2>6, RearrangedKeeps
    <2>8. InOrder(Stopper, <<>>, DOMAIN address, Found)
      BY <2>3 DEF InOrder
    <2>9. Orderly'
      BY <2>2, <2>4, <2>7, <2>8 DEF Orderly, ServerInv
    <2>10. ServerTyped'
      BY <2>2, <2>4, Names DEF ServerInv, ServerTyped
    <2> QED BY <2>6, <2>9, <2>10, RearrangedKeeps DEF ServerInv
  <1> QED BY <1>1, <1>2

(* A new server. *)
LEMMA InitServer == ServerInit => ServerInv
  <1> SUFFICES ASSUME ServerInit PROVE ServerInv
    OBVIOUS
  <1> USE DEF ServerInit
  <1>1. address \in Seq(Addrs) /\ DOMAIN address = {}
    <2>1. <<>> \in Seq(Addrs) /\ DOMAIN <<>> = {}
      BY ONLY TRUE
    <2> QED BY <2>1
  <1>2. \A g \in Goroutines : work[g] = <<>> /\ DOMAIN work[g] = {}
    <2>1. DOMAIN <<>> = {}
      BY ONLY TRUE
    <2> QED BY <2>1
  <1>3. <<>> \in Seq(AllTasks)
    BY ONLY TRUE
  <1>4. ServerTyped
    BY <1>1, <1>2, <1>3, Names DEF ServerTyped
  <1>5. Orderly
    BY <1>2 DEF Orderly, InOrder
  <1> QED BY <1>1, <1>4, <1>5 DEF ServerInv, NewIsUnknown, FoundIsStable, StableIsFound, Found

(* Every step of a goroutine keeps the invariant. *)
LEMMA StepServer ==
    ASSUME ServerInv, NEW g \in Goroutines, NEW k \in Conns, Step(g, k)
    PROVE  ServerInv'
  <1> USE DEF maps, environment, traffic, locks, history
  <1>1. CASE HandleRead(g, k)
    <2>1. UNCHANGED <<udpConns, stab, environment, silent, locks, robbed>>
      BY <1>1 DEF HandleRead, ReadData, ReadResend, ReadPing, ReadDisconnect
    <2>2. CASE ReadResend(g, k)
      <3>1. Does(g, "resend", k) /\ k \in stab
            /\ (GoOn(g, <<"ack">>, k) \/ GoOnLater(g, "ack", k))
        BY <2>2 DEF ReadResend
      <3> QED BY <2>1, <3>1, QuietKeeps, LaterKeeps
    <2>3. CASE ReadData(g, k) \/ ReadPing(g, k) \/ ReadDisconnect(g, k)
      BY <2>1, <2>3, QuietKeeps
    <2> QED BY <1>1, <2>2, <2>3 DEF HandleRead
  <1>2. CASE ReadPong(g, k)
    <2>1. UNCHANGED <<udpConns, stab, environment, silent, locks, robbed>>
      BY <1>2 DEF ReadPong
    <2> QED BY <1>2, <2>1, QuietKeeps
  <1>3. CASE Write(g, k) \/ SendReport(g, k) \/ CleanupConnection(g, k)
    <2>1. UNCHANGED <<udpConns, stab, environment, silent, locks, robbed>>
      BY <1>3 DEF Write, SendReport, CleanupConnection
    <2> QED BY <1>3, <2>1, QuietKeeps
  <1>4. CASE SendPing(g, k)
    <2>1. UNCHANGED <<udpConns, stab, environment, silent, locks, robbed>>
      BY <1>4 DEF SendPing
    <2> QED BY <1>4, <2>1, QuietKeeps
  <1>5. CASE GetConn(g, k) \/ FindConn(g, k) \/ ForgetConn(g, k) \/ Report(g, k)
    <2>1. UNCHANGED <<udpConns, stab, environment, silent, locks, robbed>>
      BY <1>5 DEF GetConn, FindConn, ForgetConn, Report
    <2> QED BY <1>5, <2>1, QuietKeeps
  <1>6. CASE Connect(g, k) \/ Close(g, k) \/ DeleteConn(g, k) \/ UsesNil(g, k)
    BY <1>6, ConnectKeeps, CloseKeeps, DeleteKeeps, StillKeeps
  <1> QED BY <1>1, <1>2, <1>3, <1>4, <1>5, <1>6 DEF Step

(* And so does every step there is. *)
LEMMA NextServer == ServerInv /\ [ServerNext]_serverVars => ServerInv'
  <1> SUFFICES ASSUME ServerInv, [ServerNext]_serverVars PROVE ServerInv'
    OBVIOUS
  <1>1. CASE Progress
    BY <1>1, StepServer, StillKeeps, ExpireKeeps, StopKeeps DEF Progress
  <1>2. ASSUME NEW a \in Addrs, NEW kind \in Kinds, Receive(a, kind) PROVE ServerInv'
    BY <1>2, ReceiveKeeps, EnterKeeps
  <1>3. CASE (\E k \in Conns : Age(k)) \/ UNCHANGED serverVars
    BY <1>3, StillKeeps
  <1>4. CASE Tick \/ Stop
    BY <1>4, TickKeeps, StopKeeps
  <1> QED BY <1>1, <1>2, <1>3, <1>4 DEF ServerNext

(* The map by address and the map of the stabilizer agree on every connection  *)
(* for which nothing is pending, for any number of connections: Close comes     *)
(* after every cleanup of one that is still found, and a new one is unknown to  *)
(* all other goroutines until both maps have it.                                *)
THEOREM MapsAgreeWhenNothingPends == ServerSpec => []MapsAgree
  <1>1. ServerInv => MapsAgree
    <2> SUFFICES ASSUME ServerInv, ~stopping, NEW k \in DOMAIN address,
                        ~PendingFor(k), k \notin robbed
                 PROVE  (udpConns[address[k]] = k) = (k \in stab)
      BY DEF MapsAgree
    <2>1. ~Todo(Pending, k)
      <3> SUFFICES ASSUME Todo(Pending, k) PROVE FALSE
        OBVIOUS
      <3>1. PICK g \in Goroutines :
                \E i \in DOMAIN work[g] : work[g][i][1] \in Pending /\ work[g][i][2] = k
        BY DEF Todo
      <3>2. PICK i \in DOMAIN work[g] : work[g][i][1] \in Pending /\ work[g][i][2] = k
        BY <3>1
      <3>3. work[g][i] = <<work[g][i][1], k>>
        BY <3>2, ServerFacts DEF ServerInv
      <3> QED BY <3>2, <3>3 DEF PendingFor, Task, Pending, Ending
    <2>2. ~Todo({"connect", "close"}, k)
      BY <2>1 DEF Todo, Pending
    <2>3. udpConns[address[k]] = k <=> k \in Found
      BY DEF Found
    <2>4. k \in Found <=> k \in stab
      BY <2>1, <2>2 DEF ServerInv, FoundIsStable, StableIsFound
    <2> QED BY <2>3, <2>4
  <1> QED BY <1>1, InitServer, NextServer, PTL DEF ServerSpec

-----------------------------------------------------------------------------
(* What becomes of a task *)

(* Tasks that go on with others, or end what the invariants speak of. *)
Lasting == {"report"} \union Pending

(* A step of a goroutine puts tasks in place of its first one, or is one of three. *)
LEMMA StepShape ==
    ASSUME ServerInv, NEW g \in Goroutines, NEW k \in Conns, Step(g, k)
    PROVE  \/ Connect(g, k) \/ UsesNil(g, k)
           \/ Does(g, "resend", k) /\ GoOnLater(g, "ack", k)
           \/ \E ops \in Seq(OpNames) : GoOn(g, ops, k) /\ work[g] # <<>>
  <1>1. <<>> \in Seq(OpNames)
    BY ONLY TRUE
  <1>2. \A x \in OpNames : <<x>> \in Seq(OpNames)
    BY OneOp
  <1>3. \A x, y \in OpNames : <<x, y>> \in Seq(OpNames)
    BY TwoOps
  <1>4. {"ack", "write", "send", "send-ping", "close", "lookup", "find", "forget", "cleanup",
         "report", "report-nil", "delete"} \subseteq OpNames
    BY DEF OpNames, Ending
  <1>9. \A x, y, z \in OpNames : <<x, y, z>> \in Seq(OpNames)
    BY ThreeOps
  <1>5. CASE HandleRead(g, k)
    BY <1>1, <1>2, <1>3, <1>4, <1>5
       DEF HandleRead, ReadData, ReadResend, ReadPing, ReadDisconnect, Does
  <1>6. CASE ReadPong(g, k) \/ Write(g, k) \/ SendReport(g, k)
    BY <1>1, <1>2, <1>4, <1>6 DEF ReadPong, Write, SendReport, Does
  <1>7. CASE SendPing(g, k) \/ CleanupConnection(g, k) \/ DeleteConn(g, k)
    BY <1>1, <1>2, <1>4, <1>7 DEF SendPing, CleanupConnection, DeleteConn, Does
  <1>10. CASE ForgetConn(g, k) \/ Report(g, k)
    BY <1>1, <1>10 DEF ForgetConn, Report, Does
  <1>8. CASE Close(g, k) \/ GetConn(g, k)
    BY <1>2, <1>3, <1>4, <1>8 DEF Close, GetConn, Does
  <1>11. CASE FindConn(g, k)
    BY <1>4, <1>9, <1>11 DEF FindConn, Does
  <1> QED BY <1>5, <1>6, <1>7, <1>8, <1>10, <1>11 DEF Step

(* A task that is still on the list of its goroutine after the step. *)
Kept(h, i) == \E j \in DOMAIN work'[h] : work'[h][j] = work[h][i]

(* What lasts is done in this step or stays on a list. *)
LEMMA Survives ==
    ASSUME ServerInv, ServerNext, NEW h \in Goroutines, NEW i \in DOMAIN work[h],
           work[h][i][1] \in Lasting
    PROVE  Kept(h, i) \/ (i = 1 /\ \E k \in Conns : Step(h, k) /\ Does(h, work[h][1][1], k))
  <1>1. /\ \A g \in Goroutines : work[g] \in Seq(AllTasks)
        /\ \A g \in Goroutines : InOrder(g, work[g], DOMAIN address, Found)
        /\ work \in [Goroutines -> Seq(AllTasks)] /\ DOMAIN <<>> = {}
    <2>1. DOMAIN <<>> = {}
      BY ONLY TRUE
    <2> QED BY <2>1, ServerFacts DEF ServerInv, ServerTyped, Orderly
  <1>2. i = 1 \/ \A g \in Goroutines, new \in Seq(AllTasks) :
                    work[g] # <<>> /\ work' = [work EXCEPT ![g] = new \o Tail(@)] => Kept(h, i)
    <2> SUFFICES ASSUME i # 1, NEW g \in Goroutines, NEW new \in Seq(AllTasks), work[g] # <<>>,
                        work' = [work EXCEPT ![g] = new \o Tail(@)]
                 PROVE  Kept(h, i)
      OBVIOUS
    <2>1. CASE g # h
      BY <1>1, <2>1 DEF Kept
    <2>2. CASE g = h
      <3> DEFINE s == work[h]
      <3>1. s \in Seq(AllTasks) /\ s # <<>> /\ i \in DOMAIN s /\ i # 1
        BY <1>1, <2>2
      <3>2. work'[h] = new \o Tail(s)
        BY <1>1, <2>2
      <3> HIDE DEF s
      <3>3. /\ i - 1 + Len(new) \in DOMAIN (new \o Tail(s))
            /\ (new \o Tail(s))[i - 1 + Len(new)] = s[i]
        BY <3>1, Placed
      <3> QED BY <3>2, <3>3 DEF Kept, s
    <2> QED BY <2>1, <2>2
  <1>3. \A g \in Goroutines, new \in Seq(AllTasks) :
            g # h /\ work' = [work EXCEPT ![g] = new \o Tail(@)] => Kept(h, i)
    BY <1>1 DEF Kept
  <1>4. ASSUME NEW g \in Goroutines, NEW k \in Conns, Step(g, k)
        PROVE  Kept(h, i) \/ (i = 1 /\ Step(h, k) /\ Does(h, work[h][1][1], k))
    <2>1. CASE UsesNil(g, k)
      BY <2>1 DEF UsesNil, Kept
    <2>2. CASE Connect(g, k)
      <3>1. /\ work[g] # <<>> /\ work[g][1][1] = "connect" /\ work[g][1][2] = k /\ 1 \in DOMAIN work[g]
            /\ work' = [work EXCEPT ![g] = Tail(@), ![Pinger(k)] = Tasks(<<"ping", "ping", "ping">>, k)]
        BY <2>2, ServerFacts DEF ServerInv, Does, Task, Connect
      <3>2. g = Reader /\ k \in DOMAIN address /\ Entering(k)
        BY <1>1, <3>1 DEF InOrder, Entering
      <3>3. \A l \in Goroutines \ {Reader} : \A j \in DOMAIN work[l] : work[l][j][2] # k
        BY <3>2 DEF ServerInv, NewIsUnknown
      <3>4. CASE h = Reader
        <4>1. i = 1
          BY <1>1, <3>1, <3>2, <3>4 DEF InOrder, Lasting, Pending, Ending, Kinds
        <4>2. Does(h, work[h][1][1], k)
          BY <2>2, <3>1, <3>2, <3>4 DEF Connect
        <4> QED BY <1>4, <3>2, <3>4, <4>1, <4>2
      <3>5. CASE h # Reader
        <4>1. h # Pinger(k)
          BY <1>1, <3>3, <3>5 DEF InOrder
        <4> QED BY <1>1, <3>1, <3>2, <3>5, <4>1, Names DEF Kept
      <3> QED BY <3>4, <3>5
    <2>3. CASE Does(g, "resend", k) /\ GoOnLater(g, "ack", k)
      <3> DEFINE T == Timer("ack", k)
                 t == work[T]
                 task == Task("ack", k)
      <3>1. /\ work[g] # <<>> /\ work[g][1][1] = "resend" /\ 1 \in DOMAIN work[g]
            /\ work' = [work EXCEPT ![g] = Tail(@), ![T] = Append(@, task)]
        BY <2>3, ServerFacts DEF ServerInv, Does, Task, GoOnLater
      <3>2. g = Reader /\ T # g /\ T \in Goroutines /\ t \in Seq(AllTasks)
        BY <1>1, <3>1, Names DEF InOrder
      <3> HIDE DEF T, task, t
      <3>3. \A j \in DOMAIN t : j \in DOMAIN Append(t, task) /\ Append(t, task)[j] = t[j]
        BY ONLY <3>2
      <3>4. CASE h = T
        BY <1>1, <3>1, <3>2, <3>3, <3>4 DEF Kept, t
      <3>5. CASE h = g
        <4>1. i # 1 /\ work'[h] = Tail(work[h])
          BY <1>1, <3>1, <3>2, <3>5 DEF Lasting, Pending, Ending
        <4>2. work[h] \in Seq(AllTasks) /\ work[h] # <<>>
          BY <1>1, <3>1, <3>5
        <4>3. \E j \in DOMAIN Tail(work[h]) : Tail(work[h])[j] = work[h][i]
          BY <1>1, <4>1, <4>2, Dropped
        <4> QED BY <4>1, <4>3 DEF Kept
      <3>6. CASE h \notin {g, T}
        BY <1>1, <3>1, <3>6 DEF Kept
      <3> QED BY <3>4, <3>5, <3>6
    <2>4. ASSUME NEW ops \in Seq(OpNames), GoOn(g, ops, k), work[g] # <<>>, Step(g, k)
          PROVE  Kept(h, i) \/ (i = 1 /\ Step(h, k) /\ Does(h, work[h][1][1], k))
      <3>1. k \in Nat
        BY DEF Conns
      <3>2. Tasks(ops, k) \in Seq(AllTasks) /\ work' = [work EXCEPT ![g] = Tasks(ops, k) \o Tail(@)]
        BY <2>4, <3>1, TasksType DEF GoOn
      <3>3. CASE g # h \/ i # 1
        BY <1>2, <1>3, <2>4, <3>2, <3>3
      <3>4. CASE g = h /\ i = 1
        <4>1. PICK op : Does(g, op, k)
          BY <2>4 DEF Step, Connect, HandleRead, ReadData, ReadResend, ReadPing, ReadDisconnect,
                      ReadPong, Write, SendReport, SendPing, UsesNil, Close, GetConn, FindConn, ForgetConn,
                      Report, CleanupConnection, DeleteConn
        <4>2. work[g][1][1] = op
          BY <4>1, ServerFacts DEF ServerInv, Does, Task
        <4> QED BY <2>4, <3>4, <4>1, <4>2
      <3> QED BY <3>3, <3>4
    <2> QED BY <1>4, <2>1, <2>2, <2>3, <2>4, StepShape
  <1>5. (\E g \in Goroutines : WaitForWrite(g)) \/ (\E k \in Conns : Drop(k) \/ Age(k))
            \/ TickEnd \/ Stopped => Kept(h, i)
    BY DEF WaitForWrite, Drop, Age, TickEnd, Stopped, Kept
  <1>6. ASSUME NEW k \in Conns \union {0}, Expire(k) PROVE Kept(h, i)
    <2> DEFINE S == Range(udpConns) \intersect silent
    <2>1. work[Reader] # <<>> /\ work[Reader][1][1] = "expire"
      BY <1>6, ServerFacts, Names DEF ServerInv, Does, Task, Expire
    <2>2. h = Reader => i # 1
      BY <2>1 DEF Lasting, Pending, Ending
    <2>3. PICK expired \in SetToSeqs(S) :
              work' = [work EXCEPT ![Reader] = ExpireEach(expired) \o Tail(@)]
      BY <1>6 DEF Expire
    <2>4. S \subseteq Nat /\ IsFiniteSet(S)
      BY SilentFinite DEF ServerInv
    <2> HIDE DEF S
    <2>5. ExpireEach(expired) \in Seq(AllTasks)
      BY <2>4, EachExpired
    <2> QED BY <1>2, <1>3, <2>1, <2>2, <2>3, <2>5, Names
  <1>7. ASSUME NEW a \in Addrs, NEW kind \in Kinds, Receive(a, kind) PROVE Kept(h, i)
    <2>1. work[Reader] = <<>>
      BY <1>7 DEF Receive
    <2>2. h # Reader
      BY <1>1, <2>1
    <2> QED BY <1>1, <1>7, <2>2 DEF Receive, Kept
  <1>8. ASSUME Tick PROVE Kept(h, i)
    <2>1. h # Ticker
      BY <1>1, <1>8 DEF Tick, ServerInv, ServerTyped
    <2> QED BY <1>1, <1>8, <2>1 DEF Tick, Kept
  <1>9. ASSUME Stop PROVE Kept(h, i)
    <2>1. h # Stopper
      BY <1>1, <1>9 DEF Stop, ServerInv, ServerTyped
    <2>2. h = Reader => work[Reader] # <<>>
      BY <1>1
    <2>3. work'[h] = work[h]
      BY <1>1, <1>9, <2>1, <2>2 DEF Stop
    <2> QED BY <2>3 DEF Kept
  <1>10. ASSUME StopStabilizer PROVE Kept(h, i)
    <2>1. h # Stopper
      BY <1>1 DEF InOrder, Task, Lasting, Pending, Ending
    <2> QED BY <1>1, <1>10, <2>1 DEF StopStabilizer, Kept
  <1> QED BY <1>4, <1>5, <1>6, <1>7, <1>8, <1>9, <1>10 DEF ServerNext, Progress

(* A goroutine goes on with operations on k, and has not done them yet. *)
GoesTo(g, ops, k) == GoOn(g, ops, k) /\ work[g] # <<>>

(* Then they are to be done. *)
LEMMA Goes ==
    ASSUME ServerInv, NEW g \in Goroutines, NEW k \in Conns, NEW ops \in Seq(OpNames),
           GoesTo(g, ops, k)
    PROVE  \A opset : \A i \in DOMAIN ops : ops[i] \in opset => Todo(opset, k)'
  <1>1. k \in Nat
    BY DEF Conns
  <1> DEFINE new == Tasks(ops, k)
             s == work[g]
  <1>2. new \in Seq(AllTasks) /\ DOMAIN new = DOMAIN ops
        /\ \A i \in DOMAIN ops : new[i][1] = ops[i] /\ new[i][2] = k
    BY <1>1, TasksType
  <1>3. s \in Seq(AllTasks) /\ s # <<>>
    BY ServerFacts DEF ServerInv, GoesTo
  <1>4. work'[g] = new \o Tail(s)
    BY DEF GoesTo, GoOn, ServerInv, ServerTyped
  <1> HIDE DEF new, s
  <1>5. \A i \in DOMAIN new : i \in DOMAIN work'[g] /\ work'[g][i] = new[i]
    BY <1>2, <1>3, <1>4, Placed
  <1> QED BY <1>2, <1>5 DEF Todo

(* What a step of a goroutine does is what the goroutine has to do first. *)
LEMMA StepHeads ==
    ASSUME NEW h \in Goroutines, NEW k \in Conns, Step(h, k)
    PROVE  \/ Connect(h, k) /\ Head(work[h])[1] = "connect"
           \/ Close(h, k) /\ Head(work[h])[1] = "close"
           \/ GetConn(h, k) /\ Head(work[h])[1] = "lookup"
           \/ FindConn(h, k) /\ Head(work[h])[1] = "find"
           \/ ForgetConn(h, k) /\ Head(work[h])[1] = "forget"
           \/ Report(h, k) /\ Head(work[h])[1] \in {"report", "report-nil"}
           \/ CleanupConnection(h, k) /\ Head(work[h])[1] = "cleanup"
           \/ DeleteConn(h, k) /\ Head(work[h])[1] = "delete"
           \/ Head(work[h])[1] \in {"data", "resend", "ping-frame", "disconnect", "pong", "ping",
                                    "write", "send", "ack", "send-ping"}
  <1>0. ASSUME NEW op, Does(h, op, k) PROVE Head(work[h])[1] = op
    BY <1>0 DEF Does, Task
  <1>1. CASE HandleRead(h, k)
    BY <1>0, <1>1 DEF HandleRead, ReadData, ReadResend, ReadPing, ReadDisconnect
  <1>2. CASE ReadPong(h, k) \/ SendReport(h, k) \/ SendPing(h, k)
    BY <1>0, <1>2 DEF ReadPong, SendReport, SendPing
  <1>3. CASE Write(h, k) \/ UsesNil(h, k)
    BY <1>0, <1>3 DEF Write, UsesNil
  <1>4. CASE Connect(h, k) \/ Close(h, k)
    BY <1>0, <1>4 DEF Connect, Close
  <1>5. CASE GetConn(h, k) \/ FindConn(h, k)
    BY <1>0, <1>5 DEF GetConn, FindConn
  <1>7. CASE ForgetConn(h, k) \/ Report(h, k)
    BY <1>0, <1>7 DEF ForgetConn, Report
  <1>6. CASE CleanupConnection(h, k) \/ DeleteConn(h, k)
    BY <1>0, <1>6 DEF CleanupConnection, DeleteConn
  <1> QED BY <1>1, <1>2, <1>3, <1>4, <1>5, <1>6, <1>7 DEF Step

-----------------------------------------------------------------------------
(* What becomes of a connection that answers no ping *)

(* The pings on connect of k that were sent and not answered, and those its     *)
(* goroutine still has to send, are three.                                      *)
PingsLeft(k) ==
    /\ \A i \in DOMAIN work[Pinger(k)] : work[Pinger(k)][i][1] \in {"ping", "send-ping"}
    /\ missing[k] + Len(work[Pinger(k)]) >= 3

CountsTyped == missing \in [Conns -> 0 .. Tries]

SilentEnd == \A k \in stab \ answered : Todo(Pending, k) \/ PingsLeft(k)

(* What is pending for a connection of the stabilizer stays so until it is gone. *)
LEMMA PendingLasts ==
    ASSUME ServerInv, ServerNext, NEW k \in stab, k \in stab', NEW opset \in {Pending, Ending},
           Todo(opset, k)
    PROVE  Todo(opset, k)'
  <1>1. PICK h \in Goroutines :
            \E i \in DOMAIN work[h] : work[h][i][1] \in opset /\ work[h][i][2] = k
    BY DEF Todo
  <1>2. PICK i \in DOMAIN work[h] : work[h][i][1] \in opset /\ work[h][i][2] = k
    BY <1>1
  <1>3. CASE Kept(h, i)
    BY <1>2, <1>3 DEF Kept, Todo
  <1>4. CASE i = 1 /\ \E l \in Conns : Step(h, l) /\ Does(h, work[h][1][1], l)
    <2>1. PICK l \in Conns : Step(h, l) /\ Does(h, work[h][1][1], l)
      BY <1>4
    <2>2. l = k
      BY <1>2, <1>4, <2>1, ServerFacts DEF ServerInv, Does, Task
    <2>3. \/ Connect(h, k) \/ Close(h, k) \/ GetConn(h, k) \/ FindConn(h, k)
          \/ CleanupConnection(h, k) \/ DeleteConn(h, k)
      <3>1. Head(work[h])[1] \in {"connect", "close", "lookup", "find", "cleanup", "delete"}
        BY <1>2, <1>4, <2>1 DEF Pending, Ending, Does, Task
      <3> QED BY <2>1, <2>2, <3>1, StepHeads
    <2>4. ASSUME Connect(h, k) PROVE FALSE
      <3>1. work[h] # <<>> /\ work[h][1][1] = "connect" /\ work[h][1][2] = k /\ 1 \in DOMAIN work[h]
        BY <2>4, ServerFacts DEF ServerInv, Does, Task, Connect
      <3>2. h = Reader
        BY <3>1 DEF ServerInv, Orderly, InOrder
      <3> QED BY <3>1, <3>2, ServerFacts DEF ServerInv, NewIsUnknown, Entering
    <2>5. ASSUME NEW x \in {"lookup", "find", "delete"}, GoOn(h, <<x>>, k), work[h] # <<>>
          PROVE  Todo(opset, k)'
      <3> DEFINE ops == <<x>>
      <3>1. x \in OpNames
        BY DEF OpNames, Ending
      <3>2. ops \in Seq(OpNames) /\ 1 \in DOMAIN ops /\ ops[1] \in opset
        BY <3>1, OneOp DEF Pending, Ending
      <3>3. GoesTo(h, ops, k)
        BY <2>5 DEF GoesTo
      <3> HIDE DEF ops
      <3> QED BY <2>1, <2>2, <3>2, <3>3, Goes
    <2>6. CASE Close(h, k)
      BY <2>5, <2>6 DEF Close, Does
    <2>7. CASE GetConn(h, k)
      BY <2>5, <2>7 DEF GetConn, Does
    <2>10. CASE FindConn(h, k)
      <3>1. PICK y \in {"report", "report-nil"} : GoOn(h, <<"forget", "cleanup", y>>, k)
        BY <2>10 DEF FindConn
      <3> DEFINE ops == <<"forget", "cleanup", y>>
      <3>2. "forget" \in OpNames /\ "cleanup" \in OpNames /\ y \in OpNames
        BY DEF OpNames, Ending
      <3>3. ops \in Seq(OpNames) /\ 2 \in DOMAIN ops /\ ops[2] = "cleanup"
        BY <3>2, ThreeOps
      <3>4. GoesTo(h, ops, k)
        BY <2>10, <3>1 DEF GoesTo, FindConn, Does
      <3> HIDE DEF ops
      <3>5. ops[2] \in opset
        BY <3>3 DEF Pending, Ending
      <3> QED BY <2>1, <2>2, <3>3, <3>4, <3>5, Goes
    <2>8. CASE CleanupConnection(h, k)
      BY <2>5, <2>8 DEF CleanupConnection, Does
    <2>9. CASE DeleteConn(h, k)
      BY <2>9 DEF DeleteConn
    <2> QED BY <2>3, <2>4, <2>6, <2>7, <2>8, <2>9, <2>10
  <1>5. work[h][i][1] \in Lasting
    BY <1>2 DEF Lasting, Pending
  <1> QED BY <1>1, <1>3, <1>4, <1>5, Survives

(* A ping that is counted is counted for the connection it goes to. *)
LEMMA CountsKept ==
    ASSUME Tries \in Nat, ServerInv, CountsTyped, ServerNext
    PROVE  /\ CountsTyped'
           /\ answered \subseteq answered'
           /\ \A k \in stab' \ answered' : k \in stab =>
                 missing'[k] = missing[k] \/ \E g \in Goroutines :
                     SendPing(g, k) /\ missing'[k] = missing[k] + 1
  <1>1. \A k \in stab : k \in Conns
    BY ServerFacts DEF ServerInv
  <1>2. ASSUME NEW g \in Goroutines, NEW l \in Conns, Step(g, l)
        PROVE  \/ missing' = missing /\ answered \subseteq answered'
               \/ ReadPong(g, l) \/ SendPing(g, l) \/ DeleteConn(g, l)
    <2>1. CASE HandleRead(g, l) \/ Connect(g, l) \/ UsesNil(g, l)
      BY <2>1 DEF HandleRead, ReadData, ReadResend, ReadPing, ReadDisconnect, Connect, UsesNil,
                  history, traffic
    <2>2. CASE Write(g, l) \/ SendReport(g, l) \/ CleanupConnection(g, l)
      BY <2>2 DEF Write, SendReport, CleanupConnection, history, traffic
    <2>3. CASE Close(g, l) \/ GetConn(g, l) \/ FindConn(g, l) \/ ForgetConn(g, l) \/ Report(g, l)
      BY <2>3 DEF Close, GetConn, FindConn, ForgetConn, Report, history, traffic
    <2> QED BY <1>2, <2>1, <2>2, <2>3 DEF Step
  <1>3. CASE missing' = missing /\ answered \subseteq answered'
    BY <1>3 DEF CountsTyped
  <1>4. ASSUME NEW g \in Goroutines, NEW l \in Conns, ReadPong(g, l)
        PROVE  missing' = [missing EXCEPT ![l] = 0] /\ answered' = answered \union {l}
    BY <1>4 DEF ReadPong
  <1>5. ASSUME NEW l \in Conns, Drop(l) \/ \E g \in Goroutines : DeleteConn(g, l)
        PROVE  missing' = [missing EXCEPT ![l] = 0] /\ answered' = answered /\ stab' = stab \ {l}
    BY <1>5 DEF DeleteConn, Drop, history
  <1>6. ASSUME NEW g \in Goroutines, NEW l \in Conns, SendPing(g, l)
        PROVE  /\ answered' = answered
               /\ \/ missing' = missing
                  \/ missing[l] < Tries /\ missing' = [missing EXCEPT ![l] = @ + 1]
    BY <1>6 DEF SendPing, history
  <1>7. \/ missing' = missing /\ answered' = answered
        \/ \E l \in Conns : Drop(l)
        \/ \E g \in Goroutines, l \in Conns : Step(g, l)
    BY DEF ServerNext, Progress, WaitForWrite, Expire, TickEnd, StopStabilizer, Stopped,
           Receive, Age, Tick, Stop, traffic, history
  <1>8. CASE \E g \in Goroutines, l \in Conns : ReadPong(g, l)
    <2>1. PICK g \in Goroutines, l \in Conns : ReadPong(g, l)
      BY <1>8
    <2> QED BY <1>1, <1>4, <2>1 DEF CountsTyped
  <1>9. CASE \E l \in Conns : Drop(l) \/ \E g \in Goroutines : DeleteConn(g, l)
    <2>1. PICK l \in Conns : Drop(l) \/ \E g \in Goroutines : DeleteConn(g, l)
      BY <1>9
    <2> QED BY <1>1, <1>5, <2>1 DEF CountsTyped
  <1>10. CASE \E g \in Goroutines, l \in Conns : SendPing(g, l)
    <2>1. PICK g \in Goroutines, l \in Conns : SendPing(g, l)
      BY <1>10
    <2> QED BY <1>1, <1>6, <2>1 DEF CountsTyped
  <1> QED BY <1>2, <1>3, <1>7, <1>8, <1>9, <1>10

(* The goroutine that pings a connection has no other work. *)
LEMMA PingerKept ==
    ASSUME ServerInv, ServerNext, NEW k \in stab, NEW l \in Conns, l = k
    PROVE  work'[Pinger(l)] = work[Pinger(l)] \/ \E m \in Conns : Step(Pinger(l), m)
  <1>1. /\ \A g \in Goroutines : InOrder(g, work[g], DOMAIN address, Found)
        /\ work \in [Goroutines -> Seq(AllTasks)]
    BY DEF ServerInv, ServerTyped, Orderly
  <1>2. Pinger(l) \in Goroutines /\ Pinger(l) \notin {Reader, Ticker, Stopper}
    BY Names
  <1>3. ASSUME NEW g \in Goroutines, NEW m \in Conns, Step(g, m), g # Pinger(l)
        PROVE  work'[Pinger(l)] = work[Pinger(l)]
    <2>1. CASE UsesNil(g, m)
      BY <2>1 DEF UsesNil
    <2>2. CASE Connect(g, m)
      <3>1. /\ work[g] # <<>> /\ work[g][1][1] = "connect" /\ work[g][1][2] = m /\ 1 \in DOMAIN work[g]
            /\ work' = [work EXCEPT ![g] = Tail(@), ![Pinger(m)] = Tasks(<<"ping", "ping", "ping">>, m)]
        BY <2>2, ServerFacts DEF ServerInv, Does, Task, Connect
      <3>2. g = Reader /\ m \in DOMAIN address /\ Entering(m)
        BY <1>1, <3>1 DEF InOrder, Entering
      <3>3. m # l
        BY <3>2 DEF ServerInv, NewIsUnknown
      <3> QED BY <1>1, <1>2, <1>3, <3>1, <3>3, Names
    <2>3. CASE Does(g, "resend", m) /\ GoOnLater(g, "ack", m)
      <3>1. work' = [work EXCEPT ![g] = Tail(@), ![Timer("ack", m)] = Append(@, Task("ack", m))]
        BY <2>3 DEF GoOnLater
      <3> QED BY <1>1, <1>2, <1>3, <3>1, Names
    <2>4. CASE \E ops \in Seq(OpNames) : GoOn(g, ops, m)
      BY <1>1, <1>2, <1>3, <2>4 DEF GoOn
    <2> QED BY <1>3, <2>1, <2>2, <2>3, <2>4, StepShape
  <1>4. (\E g \in Goroutines : WaitForWrite(g)) \/ (\E m \in Conns : Drop(m) \/ Age(m))
            \/ TickEnd \/ Stopped => work' = work
    BY DEF WaitForWrite, Drop, Age, TickEnd, Stopped
  <1>5. (\E m \in Conns \union {0} : Expire(m)) => work'[Pinger(l)] = work[Pinger(l)]
    BY <1>1, <1>2 DEF Expire
  <1>6. (\E a \in Addrs, kind \in Kinds : Receive(a, kind)) => work'[Pinger(l)] = work[Pinger(l)]
    BY <1>1, <1>2 DEF Receive
  <1>7. Tick \/ Stop \/ StopStabilizer => work'[Pinger(l)] = work[Pinger(l)]
    BY <1>1, <1>2 DEF Tick, Stop, StopStabilizer
  <1> QED BY <1>3, <1>4, <1>5, <1>6, <1>7 DEF ServerNext, Progress

(* What it does with a ping. *)
LEMMA PingerSteps ==
    ASSUME Tries \in Nat, ServerInv, CountsTyped, NEW k \in Conns, NEW m \in Conns,
           PingsLeft(k), k \in stab, Step(Pinger(k), m)
    PROVE  PingsLeft(k)' \/ Todo(Pending, k)'
  <1> DEFINE g == Pinger(k)
             s == work[g]
  <1>1. g \in Goroutines /\ s \in Seq(AllTasks) /\ work \in [Goroutines -> Seq(AllTasks)]
    BY Names, ServerFacts DEF ServerInv, ServerTyped
  <1>2. InOrder(g, s, DOMAIN address, Found)
    BY <1>1 DEF ServerInv, Orderly
  <1>3. PICK op : Does(g, op, m)
    BY DEF Step, Connect, HandleRead, ReadData, ReadResend, ReadPing, ReadDisconnect,
           ReadPong, Write, SendReport, SendPing, UsesNil, Close, GetConn, FindConn, ForgetConn,
           Report, CleanupConnection, DeleteConn
  <1>4. s # <<>> /\ s[1][1] = op /\ s[1][2] = m /\ 1 \in DOMAIN s
    BY <1>1, <1>3, ServerFacts DEF ServerInv, Does, Task
  <1>5. m = k /\ op \in {"ping", "send-ping"}
    BY <1>2, <1>4 DEF InOrder, PingsLeft
  <1>6. Write(g, k) \/ SendPing(g, k) \/ UsesNil(g, k)
    BY <1>3, <1>4, <1>5
       DEF Step, Does, Task, Connect, HandleRead, ReadData, ReadResend, ReadPing,
           ReadDisconnect, ReadPong, Write, SendReport, SendPing, UsesNil, Close, GetConn, FindConn,
           ForgetConn, Report, CleanupConnection, DeleteConn
  <1>7. k \in Nat /\ missing[k] \in Nat
    BY DEF Conns, CountsTyped
  <1>8. /\ \A i \in DOMAIN s : s[i][1] \in {"ping", "send-ping"}
        /\ missing[k] + Len(s) >= 3
    BY DEF PingsLeft
  <1>9. CASE UsesNil(g, k)
    BY <1>8, <1>9 DEF UsesNil, traffic, PingsLeft
  <1>10. CASE Write(g, k)
    <2> DEFINE ops == <<"send-ping">>
    <2>1. missing' = missing /\ GoOn(g, ops, k)
      <3>1. op = "ping"
        BY <1>3, <1>5, <1>10 DEF Write, Does, Task
      <3> QED BY <1>3, <1>10, <3>1 DEF Write, Does, Task, traffic
    <2>2. "send-ping" \in OpNames
      BY DEF OpNames
    <2>3. ops \in Seq(OpNames) /\ DOMAIN ops = {1} /\ ops[1] = "send-ping" /\ Len(ops) = 1
      BY <2>2
    <2> HIDE DEF ops
    <2> DEFINE new == Tasks(ops, k)
               r == new \o Tail(s)
    <2>4. new \in Seq(AllTasks) /\ DOMAIN new = {1} /\ new[1][1] = "send-ping"
      BY <1>7, <2>3, TasksType
    <2>5. work'[g] = r
      BY <1>1, <2>1 DEF GoOn
    <2> HIDE DEF new, s, g
    <2>61. s \in Seq(AllTasks) /\ s # <<>>
      BY <1>1, <1>4
    <2>6. Len(new) = 1
      BY ONLY <2>4
    <2>7. Len(r) = Len(s) /\ r \in Seq(AllTasks)
      <3> DEFINE t == Tail(s)
      <3>1. t \in Seq(AllTasks) /\ Len(t) = Len(s) - 1 /\ Len(s) \in Nat
        BY ONLY <2>61
      <3> HIDE DEF t
      <3>2. Len(new \o t) = Len(new) + Len(t) /\ new \o t \in Seq(AllTasks)
        BY ONLY <3>1, <2>4
      <3> QED BY <2>6, <3>1, <3>2 DEF t
    <2>8. \A j \in DOMAIN r : \/ j \in DOMAIN new /\ r[j] = new[j]
                              \/ j - Len(new) + 1 \in DOMAIN s /\ r[j] = s[j - Len(new) + 1]
      <3>1. /\ \A i \in DOMAIN new : r[i] = new[i]
            /\ \A j \in DOMAIN r : \/ j \in DOMAIN new
                                   \/ j - Len(new) + 1 \in DOMAIN s /\ r[j] = s[j - Len(new) + 1]
        <4>1. new \in Seq(AllTasks)
          BY ONLY <2>4
        <4> QED BY ONLY <2>61, <4>1, Placed DEF r
      <3> QED BY <3>1
    <2> HIDE DEF r
    <2>9. \A j \in DOMAIN r : r[j][1] \in {"ping", "send-ping"}
      BY <1>8, <2>4, <2>8
    <2> QED BY <1>8, <2>1, <2>5, <2>7, <2>9 DEF PingsLeft, g
  <1>11. CASE SendPing(g, k)
    <2>1. CASE missing[k] < Tries
      <3>1. missing' = [missing EXCEPT ![k] = @ + 1] /\ GoOn(g, <<>>, k)
        BY <1>11, <2>1 DEF SendPing
      <3>2. missing'[k] = missing[k] + 1
        BY <3>1 DEF CountsTyped
      <3>3. work'[g] = Tasks(<<>>, k) \o Tail(s)
        BY <1>1, <3>1 DEF GoOn
      <3>4. Tasks(<<>>, k) = <<>>
        BY DEF Tasks
      <3>5. work'[g] = Tail(s)
        BY <1>1, <1>4, <3>3, <3>4
      <3> HIDE DEF s, g
      <3>6. Len(Tail(s)) = Len(s) - 1 /\ Len(s) \in Nat
            /\ \A i \in DOMAIN Tail(s) : i + 1 \in DOMAIN s /\ Tail(s)[i] = s[i + 1]
        BY ONLY <1>1, <1>4
      <3>7. \A i \in DOMAIN Tail(s) : Tail(s)[i][1] \in {"ping", "send-ping"}
        BY <1>8, <3>6
      <3>8. missing'[k] + Len(work'[g]) >= 3
        BY <1>7, <1>8, <3>2, <3>5, <3>6
      <3> QED BY <3>5, <3>7, <3>8 DEF PingsLeft, g
    <2>2. CASE ~(missing[k] < Tries)
      <3> DEFINE ops == <<"close">>
      <3>1. "close" \in OpNames
        BY DEF OpNames
      <3>2. ops \in Seq(OpNames) /\ 1 \in DOMAIN ops /\ ops[1] \in Pending
        BY <3>1, OneOp DEF Pending
      <3>3. GoesTo(g, ops, k)
        BY <1>4, <1>11, <2>2 DEF GoesTo, SendPing
      <3> HIDE DEF ops
      <3> QED BY <1>1, <3>2, <3>3, Goes
    <2> QED BY <2>1, <2>2
  <1> QED BY <1>6, <1>9, <1>10, <1>11

(* Every step keeps the count of pings. *)
LEMMA NextSilent ==
    ASSUME Tries \in Nat
    PROVE  ServerInv /\ CountsTyped /\ SilentEnd /\ [ServerNext]_serverVars
               => CountsTyped' /\ SilentEnd'
  <1> SUFFICES ASSUME ServerInv, CountsTyped, SilentEnd, [ServerNext]_serverVars
               PROVE  CountsTyped' /\ SilentEnd'
    OBVIOUS
  <1>1. CASE UNCHANGED serverVars
    BY <1>1 DEF serverVars, maps, traffic, history, CountsTyped, SilentEnd, Todo, PingsLeft
  <1>2. CASE ServerNext
    <2>1. CountsTyped' /\ answered \subseteq answered'
      BY <1>2, CountsKept
    <2>2. SUFFICES ASSUME NEW k \in stab' \ answered' PROVE Todo(Pending, k)' \/ PingsLeft(k)'
      BY <2>1 DEF SilentEnd
    <2>3. CASE k \in stab
      <3>1. k \in Conns
        BY <2>3, ServerFacts DEF ServerInv
      <3>2. CASE Todo(Pending, k)
        BY <1>2, <2>3, <3>2, PendingLasts
      <3>3. CASE PingsLeft(k)
        <4>1. CASE \E m \in Conns : Step(Pinger(k), m)
          BY <2>3, <3>1, <3>3, <4>1, PingerSteps
        <4>2. CASE work'[Pinger(k)] = work[Pinger(k)]
          <5>1. missing'[k] = missing[k] \/ missing'[k] = missing[k] + 1
            BY <1>2, <2>3, CountsKept
          <5>2. missing[k] \in Nat
            BY <3>1 DEF CountsTyped
          <5>3. PICK s \in Seq(AllTasks) : s = work[Pinger(k)]
            BY <3>1, Names, ServerFacts DEF ServerInv
          <5>4. Len(s) \in Nat
            BY <5>3
          <5>5. missing'[k] + Len(work'[Pinger(k)]) >= 3
            BY <3>3, <4>2, <5>1, <5>2, <5>3, <5>4 DEF PingsLeft
          <5> QED BY <3>3, <4>2, <5>5 DEF PingsLeft
        <4> QED BY <1>2, <2>3, <3>1, <4>1, <4>2, PingerKept
      <3> QED BY <2>1, <2>3, <3>2, <3>3 DEF SilentEnd
    <2>4. CASE k \notin stab
      <3>1. PICK g \in Goroutines, l \in Conns : Connect(g, l) /\ l = k
        <4>1. ASSUME NEW g \in Goroutines, NEW l \in Conns, Step(g, l), ~Connect(g, l)
              PROVE  stab' \subseteq stab
          <5>1. CASE HandleRead(g, l) \/ ReadPong(g, l) \/ UsesNil(g, l)
            BY <5>1 DEF HandleRead, ReadPong, UsesNil, maps
          <5>2. CASE Write(g, l) \/ SendReport(g, l) \/ SendPing(g, l) \/ CleanupConnection(g, l)
            BY <5>2 DEF Write, SendReport, SendPing, CleanupConnection, maps
          <5>3. CASE Close(g, l) \/ GetConn(g, l) \/ FindConn(g, l) \/ DeleteConn(g, l)
            BY <5>3 DEF Close, GetConn, FindConn, DeleteConn, maps
          <5>4. CASE ForgetConn(g, l) \/ Report(g, l)
            BY <5>4 DEF ForgetConn, Report, maps
          <5> QED BY <4>1, <5>1, <5>2, <5>3, <5>4 DEF Step
        <4>2. \/ \E g \in Goroutines, l \in Conns : Step(g, l)
              \/ stab' \subseteq stab
          BY <1>2 DEF ServerNext, Progress, WaitForWrite, Drop, Expire, TickEnd, StopStabilizer,
                      Stopped, Receive, Age, Tick, Stop, maps
        <4>3. PICK g \in Goroutines, l \in Conns : Connect(g, l)
          BY <2>4, <4>1, <4>2
        <4> QED BY <2>4, <4>3 DEF Connect
      <3>2. k \in Conns /\ missing' = missing /\ missing[k] \in Nat
            /\ work' = [work EXCEPT ![g] = Tail(@), ![Pinger(k)] = Tasks(<<"ping", "ping", "ping">>, k)]
        BY <3>1 DEF Connect, traffic, CountsTyped
      <3> DEFINE ops == <<"ping", "ping", "ping">>
                 pings == Tasks(ops, k)
      <3>3. "ping" \in OpNames /\ k \in Nat
        BY <3>2 DEF OpNames, Conns
      <3>4. ops \in Seq(OpNames) /\ DOMAIN ops = {1, 2, 3} /\ \A i \in DOMAIN ops : ops[i] = "ping"
        BY <3>3, ThreeOps
      <3> HIDE DEF ops
      <3>5. /\ pings \in Seq(AllTasks) /\ DOMAIN pings = {1, 2, 3}
            /\ \A i \in DOMAIN pings : pings[i][1] = "ping"
        <4>1. /\ pings \in Seq(AllTasks) /\ DOMAIN pings = DOMAIN ops
              /\ \A i \in DOMAIN ops : pings[i][1] = ops[i]
          BY <3>3, <3>4, TasksType
        <4> HIDE DEF pings
        <4> QED BY ONLY <3>4, <4>1
      <3>6. work'[Pinger(k)] = pings
        BY <3>2, Names DEF ServerInv, ServerTyped, ops
      <3> HIDE DEF pings
      <3>7. Len(pings) = 3
        BY ONLY <3>5
      <3>8. missing'[k] + Len(work'[Pinger(k)]) >= 3
        <4>1. Len(work'[Pinger(k)]) = 3
          BY ONLY <3>6, <3>7
        <4>2. missing'[k] \in Nat
          BY ONLY <3>2
        <4> QED BY ONLY <4>1, <4>2
      <3> QED BY <3>5, <3>6, <3>8 DEF PingsLeft
    <2> QED BY <2>3, <2>4
  <1> QED BY <1>1, <1>2

(* A connection that is kept and has answered no ping has had its three pings   *)
(* counted, within the tries allowed, when nothing is left to do: however the    *)
(* pings, the keep-alive ticker, other closes and Stop interleave, and however   *)
(* many tries there are. So with fewer tries than pings there is none.           *)
THEOREM SilentConnectionsEnd == ServerSpec => []SilentIsCounted
  <1>1. ServerInit => CountsTyped /\ SilentEnd
    BY TriesAssumption DEF ServerInit, CountsTyped, SilentEnd
  <1>2. CountsTyped /\ SilentEnd /\ ServerInv => SilentIsCounted
    <2> SUFFICES ASSUME CountsTyped, SilentEnd, ServerInv, AllDone, NEW k \in stab \ answered
                 PROVE  3 <= missing[k] /\ missing[k] <= Tries
      BY DEF SilentIsCounted
    <2>1. DOMAIN <<>> = {} /\ Len(<<>>) = 0
      BY ONLY TRUE
    <2>2. k \in Conns
      BY ServerFacts DEF ServerInv
    <2>3. work[Pinger(k)] = <<>>
      BY <2>2, Names DEF AllDone
    <2>4. ~Todo(Pending, k)
      BY <2>1 DEF AllDone, Todo
    <2>5. missing[k] \in 0 .. Tries
      BY <2>2 DEF CountsTyped
    <2>6. missing[k] + 0 >= 3
      BY <2>1, <2>3, <2>4 DEF SilentEnd, PingsLeft
    <2> QED BY <2>5, <2>6, TriesAssumption
  <1>3. ServerInv /\ CountsTyped /\ SilentEnd /\ [ServerNext]_serverVars => CountsTyped' /\ SilentEnd'
    BY NextSilent, TriesAssumption
  <1> QED BY <1>1, <1>2, <1>3, InitServer, NextServer, PTL DEF ServerSpec

-----------------------------------------------------------------------------
(* What the user is told *)

(* Nobody but the read loop knows of k yet. *)
Fresh(k) == k \notin DOMAIN address \/ Entering(k)

(* A list on which k is to be forgotten, or to be reported, forgets it first    *)
(* and reports it later.                                                        *)
InTurn(s, k) ==
    \A i \in DOMAIN s : s[i] \in {Task("forget", k), Task("report", k)} =>
        s[1] = Task("forget", k) /\ \E j \in DOMAIN s : s[j] = Task("report", k)

(* What the user has was not reported; what it has no more was, or will be.     *)
TellInv ==
    /\ endsTold \in [Conns -> Nat] /\ known \subseteq Conns
    /\ \A k \in Conns : Fresh(k) => endsTold[k] = 0 /\ k \notin closes
    /\ \A k \in known : endsTold[k] = 0
    /\ \A k \in known : \A g \in Goroutines : InTurn(work[g], k)
    /\ \A k \in DOMAIN address \ known : endsTold[k] = 0 => Todo({"connect", "report"}, k)
    /\ \A k \in closes \cap stab : Todo(Ending, k)

Plain(ops) == \A i \in DOMAIN ops : ops[i] \notin {"connect", "forget", "report"}

(* Only FindConn goes on with a task that forgets, or one that reports by name. *)
LEMMA TellShape ==
    ASSUME ServerInv, NEW g \in Goroutines, NEW k \in Conns, Step(g, k)
    PROVE  \/ Connect(g, k) \/ UsesNil(g, k) \/ FindConn(g, k)
           \/ Does(g, "resend", k) /\ GoOnLater(g, "ack", k)
           \/ \E ops \in Seq(OpNames) : GoOn(g, ops, k) /\ work[g] # <<>> /\ Plain(ops)
  <1> DEFINE Names2 == {"ack", "write", "send", "send-ping", "close", "lookup", "find", "cleanup",
                        "report-nil", "delete"}
  <1>1. <<>> \in Seq(OpNames) /\ Plain(<<>>)
    <2>1. <<>> \in Seq(OpNames) /\ DOMAIN <<>> = {}
      BY ONLY TRUE
    <2> QED BY <2>1 DEF Plain
  <1>2. \A x \in Names2 : x \in OpNames /\ x \notin {"connect", "forget", "report"}
    BY DEF OpNames, Ending
  <1>3. \A x \in Names2 : <<x>> \in Seq(OpNames) /\ Plain(<<x>>)
    <2> TAKE x \in Names2
    <2> DEFINE ops == <<x>>
    <2>1. ops \in Seq(OpNames) /\ DOMAIN ops = {1} /\ ops[1] = x
      BY <1>2, OneOp
    <2> HIDE DEF ops
    <2>2. Plain(ops)
      BY <1>2, <2>1 DEF Plain
    <2> QED BY <2>1, <2>2 DEF ops
  <1>4. \A x, y \in Names2 : <<x, y>> \in Seq(OpNames) /\ Plain(<<x, y>>)
    <2> TAKE x, y \in Names2
    <2> DEFINE ops == <<x, y>>
    <2>1. ops \in Seq(OpNames) /\ DOMAIN ops = {1, 2} /\ ops[1] = x /\ ops[2] = y
      BY <1>2, TwoOps
    <2> HIDE DEF ops
    <2>2. Plain(ops)
      BY <1>2, <2>1 DEF Plain
    <2> QED BY <2>1, <2>2 DEF ops
  <1>5. CASE HandleRead(g, k)
    BY <1>1, <1>3, <1>4, <1>5
       DEF HandleRead, ReadData, ReadResend, ReadPing, ReadDisconnect, Does
  <1>6. CASE ReadPong(g, k) \/ Write(g, k) \/ SendReport(g, k)
    BY <1>1, <1>3, <1>6 DEF ReadPong, Write, SendReport, Does
  <1>7. CASE SendPing(g, k) \/ CleanupConnection(g, k) \/ DeleteConn(g, k)
    BY <1>1, <1>3, <1>7 DEF SendPing, CleanupConnection, DeleteConn, Does
  <1>8. CASE ForgetConn(g, k) \/ Report(g, k)
    BY <1>1, <1>8 DEF ForgetConn, Report, Does
  <1>9. CASE Close(g, k) \/ GetConn(g, k)
    BY <1>3, <1>4, <1>9 DEF Close, GetConn, Does
  <1> QED BY <1>5, <1>6, <1>7, <1>8, <1>9 DEF Step

(* What is known of a connection changes where it should. *)
LEMMA TellFrame ==
    ASSUME ServerNext
    PROVE  \/ \E g \in Goroutines, k \in Conns : Step(g, k)
           \/ endsTold' = endsTold /\ closes' = closes /\ known' = known /\ stab' \subseteq stab
  BY DEF ServerNext, Progress, WaitForWrite, Drop, Expire, TickEnd, StopStabilizer, Stopped,
         Receive, Age, Tick, Stop, history, maps

LEMMA TellSteps ==
    ASSUME NEW g \in Goroutines, NEW k \in Conns, Step(g, k)
    PROVE  /\ endsTold' = endsTold \/ (Does(g, "report", k) /\ endsTold' = [endsTold EXCEPT ![k] = @ + 1])
           /\ closes' = closes \/ (Close(g, k) /\ closes' = closes \union {k})
           /\ \/ known' = known
              \/ Connect(g, k) /\ known' = known \union {k}
              \/ ForgetConn(g, k) /\ known' = known \ {k}
           /\ stab' \subseteq stab \/ (Connect(g, k) /\ stab' = stab \union {k})
  <1> USE DEF maps, history
  <1>1. CASE HandleRead(g, k) \/ ReadPong(g, k) \/ UsesNil(g, k)
    BY <1>1 DEF HandleRead, ReadPong, UsesNil
  <1>2. CASE Write(g, k) \/ SendReport(g, k) \/ SendPing(g, k) \/ CleanupConnection(g, k)
    BY <1>2 DEF Write, SendReport, SendPing, CleanupConnection
  <1>3. CASE Close(g, k) \/ GetConn(g, k) \/ FindConn(g, k) \/ DeleteConn(g, k)
    BY <1>3 DEF Close, GetConn, FindConn, DeleteConn
  <1>4. CASE ForgetConn(g, k) \/ Report(g, k) \/ Connect(g, k)
    BY <1>4 DEF ForgetConn, Report, Connect
  <1> QED BY <1>1, <1>2, <1>3, <1>4 DEF Step

(* A connection that is fresh is not closed and not reported, and stays the one *)
(* the read loop has made.                                                      *)
LEMMA FreshIdle ==
    ASSUME ServerInv, NEW k \in Conns, Fresh(k), NEW g \in Goroutines, NEW op,
           op \notin {"connect", "expire", "stop"}
    PROVE  ~Does(g, op, k)
  <1> SUFFICES ASSUME Does(g, op, k) PROVE FALSE
    OBVIOUS
  <1>1. work[g] # <<>> /\ work[g][1][1] = op /\ work[g][1][2] = k /\ 1 \in DOMAIN work[g]
    BY ServerFacts DEF ServerInv, Does, Task
  <1>2. k \in DOMAIN address
    BY <1>1 DEF ServerInv, Orderly, InOrder
  <1>3. Entering(k)
    BY <1>2 DEF Fresh
  <1>4. g = Reader
    BY <1>1, <1>2, <1>3 DEF ServerInv, NewIsUnknown
  <1> QED BY <1>1, <1>3, <1>4 DEF Entering

(* Connections are made by the read loop alone. *)
LEMMA AddressKept ==
    ASSUME ServerNext
    PROVE  address' = address \/ \E a \in Addrs, kind \in Kinds : Receive(a, kind)
  <1> USE DEF environment
  <1>1. ASSUME NEW g \in Goroutines, NEW l \in Conns, Step(g, l) PROVE address' = address
    <2>1. CASE HandleRead(g, l) \/ ReadPong(g, l) \/ UsesNil(g, l) \/ Connect(g, l)
      BY <2>1 DEF HandleRead, ReadPong, UsesNil, Connect
    <2>2. CASE Write(g, l) \/ SendReport(g, l) \/ SendPing(g, l) \/ CleanupConnection(g, l)
      BY <2>2 DEF Write, SendReport, SendPing, CleanupConnection
    <2>3. CASE Close(g, l) \/ GetConn(g, l) \/ FindConn(g, l) \/ DeleteConn(g, l)
      BY <2>3 DEF Close, GetConn, FindConn, DeleteConn
    <2>4. CASE ForgetConn(g, l) \/ Report(g, l)
      BY <2>4 DEF ForgetConn, Report
    <2> QED BY <1>1, <2>1, <2>2, <2>3, <2>4 DEF Step
  <1> QED BY <1>1 DEF ServerNext, Progress, WaitForWrite, Drop, Expire, TickEnd, StopStabilizer,
                      Stopped, Receive, Age, Tick, Stop

LEMMA FreshKept ==
    ASSUME ServerInv, ServerNext, NEW k \in Conns, Fresh(k)'
    PROVE  Fresh(k)
  <1>1. /\ work \in [Goroutines -> Seq(AllTasks)] /\ Reader \in Goroutines
        /\ \A g \in Goroutines : InOrder(g, work[g], DOMAIN address, Found)
    BY Names DEF ServerInv, ServerTyped, Orderly
  <1>2. \/ address' = address
        \/ \E a \in Addrs, kind \in Kinds : Receive(a, kind)
    BY AddressKept
  <1>3. ASSUME NEW a \in Addrs, NEW kind \in Kinds, Receive(a, kind) PROVE Fresh(k)
    <2>1. CASE udpConns[a] = 0
      <3>1. PICK n \in Conns : n = Len(address) + 1
        BY <1>3, <2>1 DEF Receive
      <3>2. address \in Seq(Addrs)
        BY DEF ServerInv, ServerTyped
      <3>3. n \notin DOMAIN address
        BY <3>1, <3>2
      <3>4. DOMAIN address \subseteq DOMAIN address'
        BY <1>3, <2>1, <3>2 DEF Receive
      <3> DEFINE ops == <<"connect", kind, "expire">>
      <3>5. work'[Reader] = Tasks(ops, n)
        BY <1>1, <1>3, <2>1, <3>1 DEF Receive
      <3>6. kind \in OpNames /\ "expire" \in OpNames /\ "connect" \in OpNames /\ n \in Nat
        BY DEF OpNames, Conns
      <3>7. ops \in Seq(OpNames) /\ DOMAIN ops = {1, 2, 3}
        BY <3>6, ThreeOps
      <3> HIDE DEF ops
      <3>8. work'[Reader][1][2] = n
        BY <3>5, <3>6, <3>7, TasksType
      <3>9. k \notin DOMAIN address' \/ k = n
        BY <3>8 DEF Fresh, Entering
      <3> QED BY <3>3, <3>4, <3>9 DEF Fresh
    <2>2. CASE udpConns[a] # 0
      <3> DEFINE l == udpConns[a]
                 ops == <<kind, "expire">>
      <3>1. work'[Reader] = Tasks(ops, l) /\ address' = address
        BY <1>1, <1>3, <2>2 DEF Receive
      <3>2. kind \in OpNames /\ "expire" \in OpNames /\ l \in Nat
        BY <1>3 DEF OpNames, ServerInv, ServerTyped
      <3>3. ops \in Seq(OpNames) /\ DOMAIN ops = {1, 2} /\ ops[1] = kind
        BY <3>2, TwoOps
      <3> HIDE DEF ops, l
      <3>4. work'[Reader][1][1] = kind
        BY <3>1, <3>2, <3>3, TasksType
      <3> QED BY <3>1, <3>4 DEF Fresh, Entering, Kinds
    <2> QED BY <2>1, <2>2
  <1>4. ASSUME address' = address, work'[Reader] = work[Reader] PROVE Fresh(k)
    BY <1>4 DEF Fresh, Entering
  <1>5. ASSUME address' = address, \A l : ~Entering(l)' PROVE Fresh(k)
    BY <1>5 DEF Fresh
  <1>6. ASSUME NEW g \in Goroutines, NEW l \in Conns, Step(g, l), address' = address
        PROVE  Fresh(k)
    <2>1. CASE UsesNil(g, l)
      BY <1>4, <1>6, <2>1 DEF UsesNil
    <2>2. CASE Connect(g, l)
      <3>1. /\ work[g] # <<>> /\ work[g][1][1] = "connect" /\ 1 \in DOMAIN work[g]
            /\ work' = [work EXCEPT ![g] = Tail(@), ![Pinger(l)] = Tasks(<<"ping", "ping", "ping">>, l)]
        BY <2>2, ServerFacts DEF ServerInv, Does, Task, Connect
      <3>2. g = Reader
        BY <1>1, <3>1 DEF InOrder
      <3>3. work'[Reader] = Tail(work[Reader])
        BY <1>1, <3>1, <3>2, Names
      <3> QED BY <1>5, <1>6, <3>1, <3>2, <3>3, NoneEnters
    <2>3. CASE Does(g, "resend", l) /\ GoOnLater(g, "ack", l)
      <3>1. /\ work[g] # <<>> /\ work[g][1][1] = "resend" /\ 1 \in DOMAIN work[g]
            /\ work' = [work EXCEPT ![g] = Tail(@), ![Timer("ack", l)] = Append(@, Task("ack", l))]
        BY <2>3, ServerFacts DEF ServerInv, Does, Task, GoOnLater
      <3>2. g = Reader
        BY <1>1, <3>1 DEF InOrder
      <3>3. work'[Reader] = Tail(work[Reader])
        BY <1>1, <3>1, <3>2, Names
      <3> QED BY <1>5, <1>6, <3>1, <3>2, <3>3, NoneEnters
    <2>4. ASSUME NEW ops \in Seq(OpNames), GoOn(g, ops, l), work[g] # <<>>,
                 \A i \in DOMAIN ops : ops[i] # "connect"
          PROVE  Fresh(k)
      <3>1. CASE g # Reader
        BY <1>1, <1>4, <1>6, <2>4, <3>1 DEF GoOn
      <3>2. CASE g = Reader
        <4> DEFINE new == Tasks(ops, l)
                   s == work[Reader]
                   q == new \o Tail(s)
        <4>1. l \in Nat
          BY DEF Conns
        <4>2. /\ new \in Seq(AllTasks) /\ DOMAIN new = DOMAIN ops
              /\ \A i \in DOMAIN ops : new[i][1] = ops[i]
          BY <2>4, <4>1, TasksType
        <4>3. work'[Reader] = q /\ s \in Seq(AllTasks) /\ s # <<>> /\ InOrder(Reader, s, DOMAIN address, Found)
          BY <1>1, <2>4, <3>2 DEF GoOn
        <4> HIDE DEF new, s
        <4>4. \A j \in DOMAIN q : \/ j \in DOMAIN new /\ q[j] = new[j]
                                  \/ \E i \in DOMAIN s : i # 1 /\ q[j] = s[i]
          BY <4>2, <4>3, Placed
        <4>5. \A i \in DOMAIN s : i # 1 => s[i][1] # "connect"
          BY <4>3 DEF InOrder
        <4>6. \A j \in DOMAIN q : q[j][1] # "connect"
          BY <2>4, <4>2, <4>4, <4>5
        <4>7. q # <<>> => 1 \in DOMAIN q
          <5>1. q \in Seq(AllTasks)
            BY <4>2, <4>3, Placed
          <5> HIDE DEF q
          <5> QED BY ONLY <5>1
        <4> QED BY <1>5, <1>6, <4>3, <4>6, <4>7 DEF Entering
      <3> QED BY <3>1, <3>2
    <2>5. CASE FindConn(g, l)
      <3>1. PICK y \in {"report", "report-nil"} : GoOn(g, <<"forget", "cleanup", y>>, l) /\ work[g] # <<>>
        BY <2>5 DEF FindConn, Does
      <3> DEFINE ops == <<"forget", "cleanup", y>>
      <3>2. "forget" \in OpNames /\ "cleanup" \in OpNames /\ y \in OpNames
        BY DEF OpNames, Ending
      <3>3. ops \in Seq(OpNames) /\ DOMAIN ops = {1, 2, 3}
            /\ ops[1] = "forget" /\ ops[2] = "cleanup" /\ ops[3] = y
        BY <3>2, ThreeOps
      <3>4. GoOn(g, ops, l)
        BY <3>1
      <3> HIDE DEF ops
      <3>5. \A i \in DOMAIN ops : ops[i] # "connect"
        BY <3>3
      <3> QED BY <2>4, <3>1, <3>3, <3>4, <3>5
    <2> QED BY <1>6, <2>1, <2>2, <2>3, <2>4, <2>5, TellShape DEF Plain
  <1>7. ASSUME NEW l \in Conns \union {0}, Expire(l), address' = address PROVE Fresh(k)
    <2> DEFINE S == Range(udpConns) \intersect silent
               s == work[Reader]
    <2>1. s # <<>> /\ s \in Seq(AllTasks) /\ InOrder(Reader, s, DOMAIN address, Found)
      BY <1>1, <1>7 DEF Expire, Does
    <2>2. PICK expired \in SetToSeqs(S) : work'[Reader] = ExpireEach(expired) \o Tail(s)
      BY <1>1, <1>7 DEF Expire
    <2>3. S \subseteq Nat /\ IsFiniteSet(S)
      BY SilentFinite DEF ServerInv
    <2> DEFINE new == ExpireEach(expired)
               q == new \o Tail(s)
    <2> HIDE DEF S
    <2>4. new \in Seq(AllTasks) /\ \A i \in DOMAIN new : new[i][1] # "connect"
      BY <2>3, EachExpired
    <2> HIDE DEF new, s
    <2>5. /\ q \in Seq(AllTasks)
          /\ \A j \in DOMAIN q : \/ j \in DOMAIN new /\ q[j] = new[j]
                                 \/ \E i \in DOMAIN s : i # 1 /\ q[j] = s[i]
      BY <2>1, <2>4, Placed
    <2>6. \A j \in DOMAIN q : q[j][1] # "connect"
      BY <2>1, <2>4, <2>5 DEF InOrder
    <2>7. work'[Reader] = q
      BY <2>2 DEF new
    <2> HIDE DEF q
    <2>8. q # <<>> => 1 \in DOMAIN q
      BY <2>5
    <2> QED BY <1>5, <1>7, <2>6, <2>7, <2>8 DEF Entering
  <1>8. ASSUME Stop, address' = address PROVE Fresh(k)
    <2>1. CASE work[Reader] # <<>>
      BY <1>1, <1>4, <1>8, <2>1, Names DEF Stop
    <2>2. CASE work[Reader] = <<>>
      <3>1. work'[Reader] = <<Task("expire", 0)>>
        BY <1>1, <1>8, <2>2, Names DEF Stop
      <3>2. work'[Reader][1][1] = "expire"
        BY <3>1 DEF Task
      <3> QED BY <1>5, <1>8, <3>2 DEF Entering
    <2> QED BY <2>1, <2>2
  <1>9. ASSUME address' = address,
               \/ \E g \in Goroutines : WaitForWrite(g)
               \/ \E l \in Conns : Drop(l) \/ Age(l)
               \/ TickEnd \/ Stopped \/ StopStabilizer \/ Tick
        PROVE  Fresh(k)
    <2>1. work'[Reader] = work[Reader]
      BY <1>1, <1>9, Names DEF WaitForWrite, Drop, Age, TickEnd, Stopped, StopStabilizer, Tick
    <2> QED BY <1>4, <1>9, <2>1
  <1> QED BY <1>2, <1>3, <1>6, <1>7, <1>8, <1>9 DEF ServerNext, Progress

(* The lists on which k is forgotten and reported stay in turn while it is known. *)
LEMMA TurnsKept ==
    ASSUME ServerInv, ServerNext, NEW k \in Conns, k \in known, k \in known',
           \A g \in Goroutines : InTurn(work[g], k), NEW h \in Goroutines
    PROVE  InTurn(work'[h], k)
  <1> DEFINE turns == {Task("forget", k), Task("report", k)}
             Rest(s) == \A i \in DOMAIN s : s[i] \notin turns
  <1>1. /\ work \in [Goroutines -> Seq(AllTasks)] /\ DOMAIN <<>> = {}
        /\ \A g \in Goroutines : InOrder(g, work[g], DOMAIN address, Found)
        /\ Task("forget", k)[1] = "forget" /\ Task("report", k)[1] = "report"
        /\ \A t \in turns : t[1] \in {"forget", "report"} /\ t[2] = k
    <2>1. DOMAIN <<>> = {}
      BY ONLY TRUE
    <2> QED BY <2>1 DEF ServerInv, ServerTyped, Orderly, Task
  <1>2. ASSUME NEW s, Rest(s) PROVE InTurn(s, k)
    BY <1>2 DEF InTurn
  <1>3. ASSUME work'[h] = work[h] PROVE InTurn(work'[h], k)
    BY <1>3
  <1>4. ASSUME NEW s \in Seq(AllTasks), s # <<>>, InTurn(s, k), s[1] # Task("forget", k),
               NEW new \in Seq(AllTasks), Rest(new)
        PROVE  InTurn(new \o Tail(s), k)
    <2> DEFINE q == new \o Tail(s)
    <2>1. \A j \in DOMAIN q : \/ j \in DOMAIN new /\ q[j] = new[j]
                              \/ \E i \in DOMAIN s : q[j] = s[i]
      BY <1>4, Placed
    <2>2. Rest(s)
      BY <1>4 DEF InTurn
    <2> HIDE DEF q
    <2>3. Rest(q)
      BY <1>4, <2>1, <2>2
    <2> QED BY <1>2, <2>3 DEF q
  <1>5. ASSUME NEW g \in Goroutines, NEW l \in Conns, Step(g, l)
        PROVE  InTurn(work'[h], k)
    <2>1. work[g] \in Seq(AllTasks) /\ InTurn(work[g], k) /\ l \in Nat
      BY <1>1 DEF Conns
    <2>2. work[g] # <<>> => work[g][1] # Task("forget", k)
      <3> SUFFICES ASSUME work[g] # <<>>, work[g][1] = Task("forget", k) PROVE FALSE
        OBVIOUS
      <3>1. Head(work[g]) = Task("forget", k)
        BY ServerFacts DEF ServerInv
      <3>2. Head(work[g])[1] = "forget"
        BY <1>1, <3>1
      <3>3. ForgetConn(g, l)
        BY <1>5, <3>2, StepHeads
      <3>4. l = k
        BY <3>1, <3>3 DEF ForgetConn, Does, Task
      <3> QED BY <3>3, <3>4 DEF ForgetConn
    <2>3. CASE UsesNil(g, l)
      BY <1>3, <2>3 DEF UsesNil
    <2>4. ASSUME NEW new \in Seq(AllTasks), work[g] # <<>>, Rest(new),
                 work' = [work EXCEPT ![g] = new \o Tail(@)]
          PROVE  InTurn(work'[h], k)
      <3>1. CASE h # g
        BY <1>1, <1>3, <2>4, <3>1
      <3>2. CASE h = g
        BY <1>1, <1>4, <2>1, <2>2, <2>4, <3>2
      <3> QED BY <3>1, <3>2
    <2>5. CASE Connect(g, l)
      <3> DEFINE ops == <<"ping", "ping", "ping">>
                 pings == Tasks(ops, l)
                 T == Pinger(l)
                 s == work[g]
                 rest == Tail(s)
      <3>1. s # <<>> /\ work' = [work EXCEPT ![g] = rest, ![T] = pings]
        BY <2>5 DEF Connect, Does
      <3>2. "ping" \in OpNames
        BY DEF OpNames
      <3>3. ops \in Seq(OpNames) /\ \A i \in DOMAIN ops : ops[i] = "ping"
        BY <3>2, ThreeOps
      <3> HIDE DEF ops
      <3>7. /\ DOMAIN Tasks(ops, l) = DOMAIN ops
            /\ \A i \in DOMAIN ops : Tasks(ops, l)[i][1] = ops[i] /\ Tasks(ops, l)[i][2] = l
        BY ONLY <2>1, <3>3, TasksType
      <3>6. DOMAIN pings = DOMAIN ops /\ \A i \in DOMAIN ops : pings[i][1] = ops[i]
        BY <3>7
      <3> HIDE DEF pings, T
      <3>4. Rest(pings)
        BY <1>1, <3>3, <3>6
      <3>5. InTurn(rest, k)
        <4>1. <<>> \in Seq(AllTasks) /\ Rest(<<>>) /\ <<>> \o Tail(s) = Tail(s)
          BY <2>1, <3>1, <1>1
        <4> QED BY <1>4, <2>1, <2>2, <3>1, <4>1
      <3> HIDE DEF rest, s
      <3> QED BY <1>1, <1>2, <1>3, <3>1, <3>4, <3>5
    <2>6. CASE Does(g, "resend", l) /\ GoOnLater(g, "ack", l)
      <3> DEFINE T == Timer("ack", l)
                 t == work[T]
                 task == Task("ack", l)
                 more == Append(t, task)
                 s == work[g]
                 rest == Tail(s)
      <3>1. s # <<>> /\ work' = [work EXCEPT ![g] = rest, ![T] = Append(@, task)]
        BY <2>6 DEF GoOnLater, Does
      <3>2. T \in Goroutines /\ T # g
        <4>1. g = Reader
          BY <1>1, <2>6, ServerFacts DEF InOrder, ServerInv, Does, Task
        <4> QED BY <4>1, Names
      <3>3. t \in Seq(AllTasks) /\ InTurn(t, k) /\ task \notin turns
        BY <1>1, <3>2 DEF Task
      <3>4. InTurn(rest, k)
        <4>1. <<>> \in Seq(AllTasks) /\ Rest(<<>>) /\ <<>> \o Tail(s) = Tail(s)
          BY <2>1, <3>1, <1>1
        <4> QED BY <1>4, <2>1, <2>2, <3>1, <4>1
      <3> HIDE DEF T, t, task, rest, s, turns
      <3>5. /\ \A i \in DOMAIN t : i \in DOMAIN more /\ more[i] = t[i]
            /\ \A j \in DOMAIN more : j \in DOMAIN t \/ more[j] = task
            /\ \A i \in DOMAIN t : 1 \in DOMAIN t
        BY ONLY <3>3
      <3>6. InTurn(more, k)
        BY <3>3, <3>5 DEF InTurn, turns
      <3>7. work'[T] = more
        BY <1>1, <3>1, <3>2 DEF t
      <3> QED BY <1>1, <1>3, <3>1, <3>4, <3>6, <3>7
    <2>7. ASSUME NEW ops \in Seq(OpNames), GoOn(g, ops, l), work[g] # <<>>, Plain(ops)
          PROVE  InTurn(work'[h], k)
      <3> DEFINE new == Tasks(ops, l)
      <3>1. /\ new \in Seq(AllTasks) /\ DOMAIN new = DOMAIN ops
            /\ \A i \in DOMAIN ops : new[i][1] = ops[i]
        BY <2>1, <2>7, TasksType
      <3>2. work' = [work EXCEPT ![g] = new \o Tail(@)]
        BY <2>7 DEF GoOn
      <3> HIDE DEF new
      <3>3. Rest(new)
        BY <1>1, <2>7, <3>1 DEF Plain
      <3> QED BY <2>4, <2>7, <3>1, <3>2, <3>3
    <2>8. CASE FindConn(g, l)
      <3>1. PICK y \in {"report", "report-nil"} :
                /\ GoOn(g, <<"forget", "cleanup", y>>, l) /\ work[g] # <<>>
                /\ l \in known => y = "report"
        BY <2>8 DEF FindConn, Does
      <3> DEFINE ops == <<"forget", "cleanup", y>>
                 new == Tasks(ops, l)
                 s == work[g]
                 q == new \o Tail(s)
      <3>2. "forget" \in OpNames /\ "cleanup" \in OpNames /\ y \in OpNames
        BY DEF OpNames, Ending
      <3>3. ops \in Seq(OpNames) /\ DOMAIN ops = {1, 2, 3}
            /\ ops[1] = "forget" /\ ops[2] = "cleanup" /\ ops[3] = y
        BY <3>2, ThreeOps
      <3>4. work' = [work EXCEPT ![g] = new \o Tail(@)]
        BY <3>1 DEF GoOn
      <3> HIDE DEF ops
      <3>5. /\ new \in Seq(AllTasks) /\ DOMAIN new = {1, 2, 3}
            /\ \A i \in {1, 2, 3} : new[i] = Task(ops[i], l)
        <4>1. new \in Seq(AllTasks)
          BY <2>1, <3>3, TasksType
        <4>2. DOMAIN new = {1, 2, 3} /\ \A i \in {1, 2, 3} : new[i] = Task(ops[i], l)
          BY <3>3 DEF Tasks
        <4> QED BY <4>1, <4>2
      <3> HIDE DEF new
      <3>6. CASE l # k
        <4>1. \A i \in DOMAIN new : new[i][2] = l
          BY <3>5 DEF Task
        <4>2. Rest(new)
          BY <1>1, <3>6, <4>1
        <4> QED BY <2>4, <3>1, <3>4, <3>5, <4>2
      <3>7. CASE l = k
        <4>1. new[1] = Task("forget", k) /\ new[3] = Task("report", k)
          BY <3>1, <3>3, <3>5, <3>7
        <4>2. s \in Seq(AllTasks) /\ s # <<>>
          BY <2>1, <3>1
        <4> HIDE DEF s
        <4>3. \A i \in DOMAIN new : i \in DOMAIN q /\ q[i] = new[i]
          BY <3>5, <4>2, Placed
        <4> HIDE DEF q
        <4>4. q[1] = Task("forget", k) /\ 3 \in DOMAIN q /\ q[3] = Task("report", k)
          BY <3>5, <4>1, <4>3
        <4>5. InTurn(q, k)
          BY <4>4 DEF InTurn
        <4>6. work'[g] = q /\ \A f \in Goroutines : f # g => work'[f] = work[f]
          BY <1>1, <3>4 DEF q, s
        <4> QED BY <1>3, <4>5, <4>6
      <3> QED BY <3>6, <3>7
    <2> QED BY <1>5, <2>3, <2>5, <2>6, <2>7, <2>8, TellShape
  <1>6. ASSUME NEW l \in Conns \union {0}, Expire(l) PROVE InTurn(work'[h], k)
    <2> DEFINE S == Range(udpConns) \intersect silent
               s == work[Reader]
    <2>1. /\ s # <<>> /\ s \in Seq(AllTasks) /\ InTurn(s, k) /\ s[1][1] = "expire"
          /\ Reader \in Goroutines
      BY <1>1, <1>6, Names, ServerFacts DEF Expire, Does, Task, ServerInv
    <2>2. PICK expired \in SetToSeqs(S) :
              work' = [work EXCEPT ![Reader] = ExpireEach(expired) \o Tail(@)]
      BY <1>6 DEF Expire
    <2>3. S \subseteq Nat /\ IsFiniteSet(S)
      BY SilentFinite DEF ServerInv
    <2> DEFINE new == ExpireEach(expired)
    <2> HIDE DEF S
    <2>4. new \in Seq(AllTasks) /\ \A i \in DOMAIN new : new[i][1] \in {"write", "cleanup", "close"}
      BY <2>3, EachExpired
    <2>5. work' = [work EXCEPT ![Reader] = new \o Tail(@)]
      BY <2>2
    <2> HIDE DEF new
    <2>6. Rest(new) /\ s[1] # Task("forget", k)
      BY <1>1, <2>1, <2>4
    <2>7. InTurn(new \o Tail(s), k)
      BY <1>4, <2>1, <2>4, <2>6
    <2> QED BY <1>1, <1>3, <2>1, <2>5, <2>7
  <1>7. ASSUME NEW a \in Addrs, NEW kind \in Kinds, Receive(a, kind) PROVE InTurn(work'[h], k)
    <2>1. PICK n \in Nat, ops \in {<<"connect", kind, "expire">>, <<kind, "expire">>} :
              work' = [work EXCEPT ![Reader] = Tasks(ops, n)]
      BY <1>7 DEF Receive, ServerInv, ServerTyped, Conns
    <2>2. kind \in OpNames /\ "expire" \in OpNames /\ "connect" \in OpNames
      BY DEF OpNames
    <2>3. ops \in Seq(OpNames) /\ \A i \in DOMAIN ops : ops[i] \notin {"forget", "report"}
      <3>1. CASE ops = <<"connect", kind, "expire">>
        BY <2>2, <3>1, ThreeOps DEF Kinds
      <3>2. CASE ops = <<kind, "expire">>
        BY <2>2, <3>2, TwoOps DEF Kinds
      <3> QED BY <2>1, <3>1, <3>2
    <2>4. Rest(Tasks(ops, n))
      BY <1>1, <2>1, <2>3, TasksType
    <2> QED BY <1>1, <1>2, <1>3, <2>1, <2>4, Names
  <1>8. ASSUME Tick PROVE InTurn(work'[h], k)
    <2>1. PICK order \in SetToSeqs(stab) :
              work' = [work EXCEPT ![Ticker] = [i \in DOMAIN order |-> Task("ping", order[i])]]
      BY <1>8 DEF Tick
    <2> DEFINE new == [i \in DOMAIN order |-> Task("ping", order[i])]
    <2>2. Rest(new)
      BY <1>1 DEF Task
    <2> HIDE DEF new
    <2>3. work' = [work EXCEPT ![Ticker] = new]
      BY <2>1 DEF new
    <2> QED BY <1>1, <1>2, <1>3, <2>2, <2>3, Names
  <1>9. ASSUME Stop PROVE InTurn(work'[h], k)
    <2>1. \A t \in {Task("expire", 0), Task("stop", 0)} : Rest(<<t>>)
      <3> TAKE t \in {Task("expire", 0), Task("stop", 0)}
      <3>1. DOMAIN <<t>> = {1} /\ <<t>>[1] = t
        OBVIOUS
      <3>2. t \notin turns
        BY <1>1 DEF Task
      <3> QED BY <3>1, <3>2
    <2>2. \/ work'[h] = work[h] \/ work'[h] = <<Task("expire", 0)>> \/ work'[h] = <<Task("stop", 0)>>
      BY <1>1, <1>9, Names DEF Stop
    <2> QED BY <1>2, <1>3, <2>1, <2>2
  <1>10. ASSUME StopStabilizer PROVE InTurn(work'[h], k)
    <2>1. work'[h] = work[h] \/ work'[h] = <<>>
      BY <1>1, <1>10, Names DEF StopStabilizer
    <2>2. Rest(<<>>)
      BY <1>1
    <2> QED BY <1>2, <1>3, <2>1, <2>2
  <1>11. (\E g \in Goroutines : WaitForWrite(g)) \/ (\E l \in Conns : Drop(l) \/ Age(l))
             \/ TickEnd \/ Stopped => work' = work
    BY DEF WaitForWrite, Drop, Age, TickEnd, Stopped
  <1> QED BY <1>3, <1>5, <1>6, <1>7, <1>8, <1>9, <1>10, <1>11 DEF ServerNext, Progress

(* Every step keeps what the user is told. *)
LEMMA NextTell == ServerInv /\ TellInv /\ [ServerNext]_serverVars => TellInv'
  <1> SUFFICES ASSUME ServerInv, TellInv, [ServerNext]_serverVars PROVE TellInv'
    OBVIOUS
  <1>1. CASE UNCHANGED serverVars
    <2>1. /\ work' = work /\ endsTold' = endsTold /\ known' = known /\ closes' = closes /\ stab' = stab
          /\ address' = address
      BY <1>1 DEF serverVars, maps, environment, history
    <2> QED BY <2>1 DEF TellInv, Fresh, Entering, Todo
  <1>2. CASE ServerNext
    <2>1. /\ endsTold \in [Conns -> Nat] /\ known \subseteq Conns
          /\ DOMAIN address \subseteq Conns
      BY DEF TellInv, ServerInv, ServerTyped
    <2>2. \/ \E g \in Goroutines, k \in Conns : Step(g, k)
          \/ endsTold' = endsTold /\ closes' = closes /\ known' = known /\ stab' \subseteq stab
      BY <1>2, TellFrame
    <2>3. endsTold' \in [Conns -> Nat] /\ known' \subseteq Conns
          /\ \A k \in Conns : endsTold[k] \in Nat /\ endsTold'[k] \in Nat /\ endsTold[k] <= endsTold'[k]
      <3>1. CASE endsTold' = endsTold /\ known' = known
        BY <2>1, <3>1
      <3>2. ASSUME NEW g \in Goroutines, NEW k \in Conns, Step(g, k)
            PROVE  /\ endsTold' \in [Conns -> Nat] /\ known' \subseteq Conns
                   /\ \A l \in Conns : endsTold[l] \in Nat /\ endsTold'[l] \in Nat /\ endsTold[l] <= endsTold'[l]
        <4>1. endsTold' = endsTold \/ endsTold' = [endsTold EXCEPT ![k] = @ + 1]
          BY <3>2, TellSteps
        <4>2. known' \subseteq Conns
          BY <2>1, <3>2, TellSteps
        <4> QED BY <2>1, <4>1, <4>2
      <3> QED BY <2>2, <3>1, <3>2
    <2>4. ASSUME NEW k \in Conns, Fresh(k)' PROVE endsTold'[k] = 0 /\ k \notin closes'
      <3>1. Fresh(k) /\ endsTold[k] = 0 /\ k \notin closes
        BY <1>2, <2>4, FreshKept DEF TellInv
      <3>2. ASSUME NEW g \in Goroutines, NEW l \in Conns, Step(g, l)
            PROVE  endsTold'[k] = 0 /\ k \notin closes'
        <4>1. CASE l # k
          BY <2>1, <3>1, <3>2, <4>1, TellSteps
        <4>2. CASE l = k
          <5>1. ~Does(g, "report", k) /\ ~Does(g, "close", k)
            BY <3>1, FreshIdle
          <5>2. endsTold' = endsTold /\ closes' = closes
            BY <3>2, <4>2, <5>1, TellSteps DEF Close
          <5> QED BY <3>1, <5>2
        <4> QED BY <4>1, <4>2
      <3> QED BY <2>2, <3>1, <3>2
    <2>5. ASSUME NEW k \in known', k \notin known
          PROVE  \E g \in Goroutines : Connect(g, k)
      <3>1. PICK g \in Goroutines, l \in Conns : Step(g, l)
        BY <2>2, <2>5
      <3> QED BY <2>5, <3>1, TellSteps
    <2>6. ASSUME NEW k \in Conns, NEW g \in Goroutines, Connect(g, k)
          PROVE  /\ g = Reader /\ work[g] # <<>> /\ work[g] \in Seq(AllTasks) /\ Fresh(k)
                 /\ k \in DOMAIN address
                 /\ InOrder(g, work[g], DOMAIN address, Found) /\ work[g][1][1] = "connect"
                 /\ \A h \in Goroutines \ {Reader} : \A i \in DOMAIN work[h] : work[h][i][2] # k
      <3>1. /\ work[g] # <<>> /\ work[g][1][1] = "connect" /\ work[g][1][2] = k
            /\ work[g] \in Seq(AllTasks) /\ 1 \in DOMAIN work[g]
            /\ InOrder(g, work[g], DOMAIN address, Found)
        BY <2>6, ServerFacts DEF ServerInv, Does, Task, Connect, Orderly
      <3>2. g = Reader /\ k \in DOMAIN address
        BY <3>1 DEF InOrder
      <3>3. Entering(k)
        BY <3>1, <3>2 DEF Entering
      <3> QED BY <3>1, <3>2, <3>3 DEF Fresh, ServerInv, NewIsUnknown
    <2>7. ASSUME NEW k \in known' PROVE endsTold'[k] = 0
      <3>0. k \in Conns
        BY <2>3, <2>7
      <3>1. CASE k \in known
        <4>1. endsTold[k] = 0 /\ \A g \in Goroutines : InTurn(work[g], k)
          BY <3>1 DEF TellInv
        <4>2. ASSUME NEW g \in Goroutines PROVE ~Does(g, "report", k)
          <5> SUFFICES ASSUME Does(g, "report", k) PROVE FALSE
            OBVIOUS
          <5>1. 1 \in DOMAIN work[g] /\ work[g][1] = Task("report", k)
            BY ServerFacts DEF ServerInv, Does
          <5>2. work[g][1] = Task("forget", k)
            BY <4>1, <5>1 DEF InTurn
          <5> QED BY <5>1, <5>2 DEF Task
        <4>3. ASSUME NEW g \in Goroutines, NEW l \in Conns, Step(g, l) PROVE endsTold'[k] = 0
          <5>1. endsTold' = endsTold \/ (Does(g, "report", l) /\ endsTold' = [endsTold EXCEPT ![l] = @ + 1])
            BY <4>3, TellSteps
          <5>2. CASE endsTold' = endsTold
            BY <4>1, <5>2
          <5>3. CASE Does(g, "report", l) /\ endsTold' = [endsTold EXCEPT ![l] = @ + 1]
            BY <2>1, <3>0, <4>1, <4>2, <5>3
          <5> QED BY <5>1, <5>2, <5>3
        <4> QED BY <2>2, <4>1, <4>3
      <3>2. CASE k \notin known
        <4>1. PICK g \in Goroutines : Connect(g, k)
          BY <2>5, <2>7, <3>2
        <4>2. endsTold[k] = 0
          BY <2>6, <3>0, <4>1 DEF TellInv
        <4> QED BY <4>1, <4>2 DEF Connect, history
      <3> QED BY <3>1, <3>2
    <2>8. ASSUME NEW k \in known', NEW h \in Goroutines PROVE InTurn(work'[h], k)
      <3>0. k \in Conns
        BY <2>3, <2>8
      <3>1. CASE k \in known
        BY <1>2, <2>8, <3>0, <3>1, TurnsKept DEF TellInv
      <3>2. CASE k \notin known
        <4>1. PICK g \in Goroutines : Connect(g, k)
          BY <2>5, <2>8, <3>2
        <4> DEFINE ops == <<"ping", "ping", "ping">>
                   pings == Tasks(ops, k)
                   s == work[g]
                   rest == Tail(s)
        <4>2. work' = [work EXCEPT ![g] = rest, ![Pinger(k)] = pings]
          BY <4>1 DEF Connect
        <4>3. "ping" \in OpNames /\ k \in Nat
          BY <3>0 DEF OpNames, Conns
        <4>4. ops \in Seq(OpNames) /\ \A i \in DOMAIN ops : ops[i] = "ping"
          BY <4>3, ThreeOps
        <4> HIDE DEF ops
        <4>5. DOMAIN pings = DOMAIN ops /\ \A i \in DOMAIN ops : pings[i][1] = ops[i]
          BY <4>3, <4>4, TasksType
        <4>6. \A i \in DOMAIN pings : pings[i][1] = "ping"
          BY <4>4, <4>5
        <4>7. /\ s \in Seq(AllTasks) /\ s # <<>> /\ s[1][1] = "connect" /\ g = Reader
              /\ InOrder(g, s, DOMAIN address, Found)
              /\ \A f \in Goroutines \ {Reader} : \A i \in DOMAIN work[f] : work[f][i][2] # k
          BY <2>6, <3>0, <4>1
        <4> HIDE DEF pings, s
        <4>8. \A j \in DOMAIN rest : \E i \in DOMAIN s : i # 1 /\ rest[j] = s[i]
          BY <4>7, Dropped
        <4>9. \A j \in DOMAIN rest : rest[j][1] \in Kinds \union {"expire"}
          <5>1. 1 \in DOMAIN s
            BY <4>7
          <5> QED BY <4>7, <4>8, <5>1 DEF InOrder
        <4>10. (work'[h] = work[h] /\ h # Reader) \/ work'[h] = rest \/ work'[h] = pings
          BY <4>2, <4>7, Names, <3>0 DEF ServerInv, ServerTyped
        <4> HIDE DEF rest
        <4>11. \A i \in DOMAIN work'[h] : work'[h][i] \notin {Task("forget", k), Task("report", k)}
          BY <4>6, <4>7, <4>9, <4>10 DEF Task, Kinds
        <4> QED BY <4>11 DEF InTurn
      <3> QED BY <3>1, <3>2
    <2>9. ASSUME NEW k \in DOMAIN address', k \notin known', endsTold'[k] = 0
          PROVE  Todo({"connect", "report"}, k)'
      <3>1. CASE k \notin DOMAIN address
        <4>2. PICK a \in Addrs, kind \in Kinds : Receive(a, kind) /\ address' # address
          <5>1. address' # address
            BY <2>9, <3>1
          <5> QED BY <1>2, <5>1, AddressKept
        <4>3. PICK n \in Conns : /\ n = Len(address) + 1 /\ address' = Append(address, a)
                                 /\ work' = [work EXCEPT ![Reader] = Tasks(<<"connect", kind, "expire">>, n)]
          BY <4>2 DEF Receive
        <4>4. address \in Seq(Addrs)
          BY DEF ServerInv, ServerTyped
        <4>5. k = n
          BY <2>9, <3>1, <4>3, <4>4
        <4> DEFINE ops == <<"connect", kind, "expire">>
        <4>6. kind \in OpNames /\ "expire" \in OpNames /\ "connect" \in OpNames /\ n \in Nat
          BY DEF OpNames, Conns
        <4>7. ops \in Seq(OpNames) /\ DOMAIN ops = {1, 2, 3} /\ ops[1] = "connect"
          BY <4>6, ThreeOps
        <4>8. work'[Reader] = Tasks(ops, n) /\ Reader \in Goroutines
          BY <4>3, Names DEF ServerInv, ServerTyped
        <4> HIDE DEF ops
        <4>10. /\ DOMAIN Tasks(ops, n) = DOMAIN ops
               /\ \A i \in DOMAIN ops : Tasks(ops, n)[i][1] = ops[i] /\ Tasks(ops, n)[i][2] = n
          BY ONLY <4>6, <4>7, TasksType
        <4>9. 1 \in DOMAIN work'[Reader] /\ work'[Reader][1][1] = "connect" /\ work'[Reader][1][2] = n
          BY <4>7, <4>8, <4>10
        <4> QED BY <4>5, <4>8, <4>9 DEF Todo
      <3>2. CASE k \in DOMAIN address /\ k \notin known
        <4>1. endsTold[k] = 0 /\ k \in Conns
          <5>1. k \in Conns
            BY <2>1, <3>2
          <5> QED BY <2>3, <2>9, <5>1
        <4>2. PICK h \in Goroutines :
                  \E i \in DOMAIN work[h] : work[h][i][1] \in {"connect", "report"} /\ work[h][i][2] = k
          BY <3>2, <4>1 DEF TellInv, Todo
        <4>3. PICK i \in DOMAIN work[h] : work[h][i][1] \in {"connect", "report"} /\ work[h][i][2] = k
          BY <4>2
        <4>4. CASE Kept(h, i)
          BY <4>3, <4>4 DEF Kept, Todo
        <4>5. CASE i = 1 /\ \E l \in Conns : Step(h, l) /\ Does(h, work[h][1][1], l)
          <5>1. PICK l \in Conns : Step(h, l) /\ Does(h, work[h][1][1], l)
            BY <4>5
          <5>2. l = k /\ Head(work[h])[1] = work[h][1][1]
            BY <4>3, <4>5, <5>1, ServerFacts DEF ServerInv, Does, Task
          <5>3. Connect(h, k) \/ (Report(h, k) /\ Head(work[h])[1] = "report")
            BY <4>3, <4>5, <5>1, <5>2, StepHeads
          <5>4. ~Connect(h, k)
            BY <2>9 DEF Connect
          <5>5. ASSUME Report(h, k), Head(work[h])[1] = "report" PROVE FALSE
            <6>1. endsTold' = [endsTold EXCEPT ![k] = @ + 1]
              BY <5>5 DEF Report, Does, Task
            <6> QED BY <2>1, <2>9, <4>1, <6>1
          <5> QED BY <5>3, <5>4, <5>5
        <4>6. work[h][i][1] \in Lasting
          BY <4>3 DEF Lasting, Pending
        <4> QED BY <1>2, <4>4, <4>5, <4>6, Survives
      <3>3. CASE k \in DOMAIN address /\ k \in known
        <4>1. PICK g \in Goroutines, l \in Conns : Step(g, l)
          BY <2>2, <2>9, <3>3
        <4>2. ForgetConn(g, k)
          BY <2>9, <3>3, <4>1, TellSteps
        <4> DEFINE s == work[g]
        <4>3. /\ s \in Seq(AllTasks) /\ s # <<>> /\ 1 \in DOMAIN s /\ s[1] = Task("forget", k)
              /\ k \in Conns
          BY <2>1, <3>3, <4>2, ServerFacts DEF ServerInv, ForgetConn, Does
        <4>4. PICK i \in DOMAIN s : s[i] = Task("report", k)
          BY <3>3, <4>3 DEF TellInv, InTurn
        <4>5. i # 1 /\ s[i][1] = "report" /\ s[i][2] = k
          BY <4>3, <4>4 DEF Task
        <4>6. work[g][i][1] \in Lasting
          BY <4>5 DEF Lasting
        <4>7. Kept(g, i)
          BY <1>2, <4>5, <4>6, Survives
        <4> QED BY <4>5, <4>7 DEF Kept, Todo
      <3> QED BY <3>1, <3>2, <3>3
    <2>10. ASSUME NEW k \in closes', k \in stab' PROVE Todo(Ending, k)'
      <3>1. CASE k \in closes /\ k \in stab
        <4>1. Todo(Ending, k)
          BY <3>1 DEF TellInv
        <4> QED BY <1>2, <2>10, <3>1, <4>1, PendingLasts
      <3>2. CASE k \notin closes
        <4>0. PICK g \in Goroutines, l \in Conns : Step(g, l)
          BY <2>2, <2>10, <3>2
        <4>1. Close(g, k) /\ k \in Conns
          BY <2>10, <3>2, <4>0, TellSteps
        <4> DEFINE ops == <<"lookup">>
        <4>2. "lookup" \in OpNames
          BY DEF OpNames, Ending
        <4>3. ops \in Seq(OpNames) /\ DOMAIN ops = {1} /\ ops[1] \in Ending
          BY <4>2, OneOp DEF Ending
        <4>4. GoesTo(g, ops, k)
          BY <4>1 DEF GoesTo, Close, Does
        <4> HIDE DEF ops
        <4> QED BY <4>1, <4>3, <4>4, Goes
      <3>3. CASE k \in closes /\ k \notin stab
        <4>0. PICK g \in Goroutines, l \in Conns : Step(g, l)
          BY <2>2, <2>10, <3>3
        <4>1. Connect(g, k) /\ k \in Conns
          BY <2>10, <3>3, <4>0, TellSteps
        <4>2. k \notin closes
          BY <2>6, <4>1 DEF TellInv
        <4> QED BY <3>3, <4>2
      <3> QED BY <3>1, <3>2, <3>3
    <2> QED BY <2>3, <2>4, <2>7, <2>8, <2>9, <2>10 DEF TellInv
  <1> QED BY <1>1, <1>2

(* A connection that was closed is gone from the stabilizer's map once nothing   *)
(* is left to do, and any connection is gone from the user's if and only if the  *)
(* user was told by its name: what each goroutine still has to do says who will  *)
(* take it out and who will tell, however many closes of it interleave.          *)
THEOREM ClosesAreTold == ServerSpec => []ClosedIsToldOrKept
  <1>1. ServerInit => TellInv
    <2> SUFFICES ASSUME ServerInit PROVE TellInv
      OBVIOUS
    <2>1. DOMAIN <<>> = {}
      BY ONLY TRUE
    <2>2. address = <<>> /\ known = {} /\ closes = {} /\ stab = {} /\ endsTold = [k \in Conns |-> 0]
      BY DEF ServerInit
    <2> QED BY <2>1, <2>2 DEF TellInv
  <1>2. ServerInv /\ TellInv => ClosedIsToldOrKept
    <2> SUFFICES ASSUME ServerInv, TellInv, AllDone PROVE ClosedIsToldOrKept
      BY DEF ClosedIsToldOrKept
    <2>1. DOMAIN <<>> = {}
      BY ONLY TRUE
    <2>2. \A ops, k : ~Todo(ops, k)
      BY <2>1 DEF AllDone, Todo
    <2> QED BY <2>2 DEF TellInv, ClosedIsToldOrKept
  <1> QED BY <1>1, <1>2, InitServer, NextServer, NextTell, PTL DEF ServerSpec

=============================================================================
