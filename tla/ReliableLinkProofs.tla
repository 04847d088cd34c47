---- MODULE ReliableLinkProofs ----
(***************************************************************************)
(* Retransmitted frames: proofs for every window, retry count, number of   *)
(* writers, of reports and of delayed calls, and every number of messages  *)
(* up to half the range of the counters.                                   *)
(***************************************************************************)
EXTENDS ReliableLink, SerialNumbersProofs, FiniteSetTheorems, SequenceTheorems

(* The messages of a connection stay within half the range of the counters, so *)
(* that comparing truncated numbers is comparing numbers.  What the window and *)
(* the orderer do across a wrap-around is proved about them alone.             *)
NoWrap == MaxSent <= HalfRange

-----------------------------------------------------------------------------
(* The invariant *)

(* Order numbers are taken once; a message has one, or a writer still holds it. *)
Sender ==
    /\ packets \in Seq([kind : {Resend, OrderResend}, order : Nat])
    /\ nextOrder \in Nat /\ writers \subseteq 0 .. nextOrder - 1
    /\ nextOrder <= Len(packets) + Cardinality(writers)
    /\ Len(packets) + Cardinality(writers) <= MaxSent
    /\ \A n \in Messages : IsOrderResend(n) =>
          /\ Packet(n).order < nextOrder /\ Packet(n).order \notin writers
          /\ \A m \in Messages : IsOrderResend(m) /\ Packet(m).order = Packet(n).order => m = n

(* Timers and datagrams are about messages. *)
Traffic ==
    /\ resending \in Seq(Int) /\ Len(resending) = Len(packets)
    /\ \A n \in Messages : resending[n + 1] \in GivenUp .. ResendRetries
    /\ data \subseteq Messages /\ ackDue \subseteq Messages /\ accepted \subseteq Messages

(* A window edge and bits that claim only what is in S. *)
Claims(w, S) ==
    /\ w.right \in 0 .. HalfRange - 1 /\ w.bits \subseteq Distances
    /\ \A d \in w.bits : w.right - d \in S

(* The receiver's window is exact: a message was let through if its bit is set. *)
Exact(w, S) ==
    /\ w \in Windows /\ Claims(w, S)
    /\ w.first => S = {}
    /\ ~w.first => w.right \in S /\ \A n \in S : n <= w.right
    /\ \A d \in Distances : w.right - d \in S => d \in w.bits

(* Reports in flight and the sender's mirror claim only what was let through. *)
Truthful ==
    /\ mirror \in Windows /\ Claims(mirror, accepted)
    /\ \A ack \in acks : Claims(ack, accepted)

Entries == [key : Numbers, data : Nat]

Held(o) == {o.heap[i] : i \in DOMAIN o.heap}

(* An orderer between two calls: what it holds is sorted and beyond `next`. *)
Drained(o) ==
    /\ o \in [first : BOOLEAN, next : Numbers, heap : Seq(Entries)]
    /\ \A i, j \in DOMAIN o.heap : i < j => o.heap[i].key < o.heap[j].key
    /\ \A i \in DOMAIN o.heap : o.heap[i].key \in o.next + 1 .. HalfRange - 1
    /\ o.next <= HalfRange
    /\ o.first => o.next = 0 /\ o.heap = <<>>

Strict(messages, n) == messages[n + 1].kind = OrderResend
Order(messages, n)  == messages[n + 1].order

(* What readFunc was given while the orderer expects e: nothing twice, and of   *)
(* the strictly ordered messages those below e, each behind all the lower ones. *)
Given(messages, s, e) ==
    /\ s \in Seq(Nat) /\ IsInjective(s)
    /\ \A i \in DOMAIN s : Strict(messages, s[i]) =>
          /\ Order(messages, s[i]) < e
          /\ \A j \in 1 .. i - 1 :
                Strict(messages, s[j]) => Order(messages, s[j]) < Order(messages, s[i])
          /\ \A k \in 0 .. Order(messages, s[i]) - 1 :
                \E j \in 1 .. i - 1 : Strict(messages, s[j]) /\ Order(messages, s[j]) = k
    /\ \A k \in 0 .. e - 1 :
          \E i \in DOMAIN s : Strict(messages, s[i]) /\ Order(messages, s[i]) = k

(* A message let through was given to readFunc or waits in the orderer under its number. *)
Accounted ==
    /\ \A n \in ToSet(received) : n \in accepted
    /\ \A p \in Held(orderer) :
          p.data \in accepted /\ Strict(packets, p.data) /\ p.key = Order(packets, p.data)
    /\ \A n \in accepted :
          n \in ToSet(received) \/ (Strict(packets, n) /\ \E p \in Held(orderer) : p.data = n)

IInv == /\ Sender
        /\ Traffic
        /\ Exact(window, accepted)
        /\ Truthful
        /\ Drained(orderer)
        /\ Given(packets, received, orderer.next)
        /\ Accounted
        /\ ConfirmedArrived

-----------------------------------------------------------------------------
(* Numbers and windows *)

Low == 0 .. HalfRange - 1

(* Numbers of the lower half are what they look like: truncated, compared or *)
(* subtracted.                                                               *)
LEMMA LowNumbers ==
    ASSUME NEW a \in 0 .. HalfRange, NEW b \in 0 .. HalfRange
    PROVE  /\ a \in Numbers /\ a \in Int /\ Wrap(a) = a
           /\ Jump(a, b) = IF b >= a THEN b - a ELSE b - a + Modulus
           /\ IsSequenceNumberInFuture(a, b) <=> b > a
  <1>1. a \in Numbers /\ a \in Int
    BY Half, ModulusAssumption DEF Numbers
  <1>2. Jump(a, b) = IF b >= a THEN b - a ELSE b - a + Modulus
    BY DEF Jump
  <1>3. IsSequenceNumberInFuture(a, b) <=> b > a
    BY <1>2, Half, ModulusAssumption DEF IsSequenceNumberInFuture
  <1> QED BY <1>1, <1>2, <1>3, WrapSame

(* The size of a window. *)
LEMMA SizeFacts == Size \in Nat /\ Size >= 1 /\ Size < Modulus /\ 0 \in Distances
  BY WindowAssumption DEF Distances

(* An exact window lets through only what it has not let through. *)
LEMMA AcceptsNew ==
    ASSUME NEW S \in SUBSET Nat, NEW w, Exact(w, S), NEW n \in Low, Accepts(w, n)
    PROVE  n \notin S
  <1>1. CASE w.first
    BY <1>1 DEF Exact
  <1>2. CASE ~w.first
    <2>1. w.right \in Low /\ \A m \in S : m <= w.right
      BY <1>2 DEF Exact, Claims, Low
    <2>2. \A d \in Distances : w.right - d \in S => d \in w.bits
      BY DEF Exact
    <2>3. /\ Jump(w.right, n) = IF n >= w.right THEN n - w.right ELSE n - w.right + Modulus
          /\ Jump(n, w.right) = IF w.right >= n THEN w.right - n ELSE w.right - n + Modulus
      BY <2>1, LowNumbers, Half DEF Low
    <2>4. CASE n > w.right
      BY <2>1, <2>4, Half DEF Low
    <2>5. CASE n <= w.right
      <3>1. ~IsForward(w, n)
        BY <2>1, <2>3, <2>5, Half, ModulusAssumption DEF Low, IsForward
      <3>2. w.right - n \in (1 .. Size - 1) \ w.bits
        BY <1>2, <2>1, <2>3, <2>5, <3>1, Half DEF Low, Accepts
      <3>3. w.right - n \in Distances /\ w.right - (w.right - n) = n
        BY <2>1, <3>2, SizeFacts, Half DEF Low, Distances
      <3> QED BY <2>2, <3>2, <3>3
    <2> QED BY <2>1, <2>4, <2>5, Half DEF Low
  <1> QED BY <1>1, <1>2

(* ApplyWindowCheck keeps a window exact. *)
LEMMA CheckKeepsExact ==
    ASSUME NEW S \in SUBSET Nat, NEW w, Exact(w, S), NEW n \in Low
    PROVE  Exact(AfterCheck(w, n), IF Accepts(w, n) THEN S \cup {n} ELSE S)
  <1>0. n \in Nat /\ n \in Numbers
    BY LowNumbers, Half DEF Low
  <1>w. /\ w = [first |-> w.first, right |-> w.right, bits |-> w.bits]
        /\ w.first \in BOOLEAN /\ w.right \in Numbers /\ w.bits \subseteq Distances
        /\ w.right \in Low /\ \A d \in w.bits : w.right - d \in S
        /\ \A d \in Distances : w.right - d \in S => d \in w.bits
    BY DEF Exact, Windows, Claims, Low
  <1>1. CASE w.first
    <2>1. AfterCheck(w, n) = [first |-> FALSE, right |-> n, bits |-> {0}]
      BY <1>1 DEF AfterCheck
    <2>2. S = {} /\ Accepts(w, n)
      BY <1>1 DEF Exact, Accepts
    <2>3. \A d \in Distances : n - d \in {n} => d \in {0}
      BY <1>0, SizeFacts DEF Distances
    <2>4. Exact([first |-> FALSE, right |-> n, bits |-> {0}], {n})
      BY <1>0, <2>3, SizeFacts DEF Exact, Windows, Claims, Low
    <2> QED BY <2>1, <2>2, <2>4
  <1>2. CASE ~w.first /\ IsForward(w, n)
    <2> DEFINE k == Jump(w.right, n)
               bits == {0} \cup {d \in Distances : d - k \in w.bits}
               T == S \cup {n}
    <2>1. k = n - w.right /\ k \in Nat /\ k > 0 /\ w.right \in Int
      BY <1>w, <1>2, LowNumbers, Half, ModulusAssumption DEF Low, IsForward
    <2>2. AfterCheck(w, n) = [first |-> FALSE, right |-> n, bits |-> bits] /\ Accepts(w, n)
      BY <1>w, <1>2 DEF AfterCheck, Accepts, Shift, ShiftWithin, Distances
    <2>3. \A d \in bits : d \in Distances /\ n - d \in T
      <3>1. ASSUME NEW d \in Distances, d - k \in w.bits PROVE n - d \in S
        <4>1. w.right - (d - k) \in S /\ d \in Int
          BY <1>w, <3>1 DEF Distances
        <4>2. w.right - (d - k) = n - d
          BY <1>0, <2>1, <4>1
        <4> QED BY <4>1, <4>2
      <3> QED BY <1>0, <3>1, SizeFacts
    <2>4. \A m \in T : m <= n
      <3>1. \A m \in S : m <= w.right /\ m \in Nat
        BY <1>2 DEF Exact
      <3>2. w.right <= n
        BY <1>0, <2>1
      <3> QED BY ONLY <1>0, <2>1, <3>1, <3>2 DEF T
    <2>5. ASSUME NEW d \in Distances, n - d \in T PROVE d \in bits
      <3>1. CASE d = 0
        BY <3>1
      <3>2. CASE d # 0
        <4>1. d \in Int /\ n - d \in S
          BY <1>0, <2>5, <3>2 DEF Distances
        <4>2. n - d <= w.right
          BY <1>2, <4>1 DEF Exact
        <4>3. d - k \in Distances /\ w.right - (d - k) = n - d
          BY <1>0, <2>1, <4>1, <4>2, SizeFacts DEF Distances
        <4> QED BY <1>w, <4>1, <4>3
      <3> QED BY <3>1, <3>2
    <2> HIDE DEF k, bits
    <2>6. Exact([first |-> FALSE, right |-> n, bits |-> bits], T)
      BY <1>0, <2>3, <2>4, <2>5 DEF Exact, Windows, Claims, Low
    <2> QED BY <2>2, <2>6
  <1>3. CASE ~w.first /\ ~IsForward(w, n) /\ Accepts(w, n)
    <2> DEFINE d0 == Jump(n, w.right)
               T == S \cup {n}
    <2>0. w.right \in Int /\ n <= w.right
      BY <1>0, <1>w, <1>3, LowNumbers, Half DEF Low, IsForward
    <2>1. d0 = w.right - n /\ d0 \in Distances
      <3>1. Jump(n, w.right) = w.right - n
        BY <1>0, <1>w, <2>0 DEF Jump
      <3> QED BY <1>3, <3>1, SizeFacts DEF Accepts, Distances
    <2>2. AfterCheck(w, n) = [first |-> FALSE, right |-> w.right, bits |-> w.bits \cup {d0}]
      BY <1>w, <1>3 DEF AfterCheck
    <2>3. \A d \in w.bits \cup {d0} : d \in Distances /\ w.right - d \in T
      BY <1>0, <1>w, <2>0, <2>1
    <2>4. w.right \in T /\ \A m \in T : m <= w.right
      BY <1>3, <2>0 DEF Exact
    <2>5. \A d \in Distances : w.right - d \in T => d \in w.bits \cup {d0}
      BY <1>0, <1>w, <2>0, <2>1 DEF Distances
    <2> HIDE DEF d0
    <2>6. Exact([first |-> FALSE, right |-> w.right, bits |-> w.bits \cup {d0}], T)
      BY <1>w, <2>3, <2>4, <2>5 DEF Exact, Windows, Claims, Low
    <2> QED BY <1>3, <2>2, <2>6
  <1>4. CASE ~w.first /\ ~IsForward(w, n) /\ ~Accepts(w, n)
    BY <1>4 DEF AfterCheck
  <1> QED BY <1>w, <1>1, <1>2, <1>3, <1>4 DEF Accepts

(* A report claims no more than the window it is taken from. *)
LEMMA ReportClaims ==
    ASSUME NEW S \in SUBSET Nat, NEW w, Exact(w, S), NEW limit
    PROVE  Claims(GetWindowData(w, limit), S)
  <1>1. /\ GetWindowData(w, limit).right = w.right
        /\ GetWindowData(w, limit).bits \subseteq w.bits
    BY DEF GetWindowData
  <1>2. Claims(w, S)
    BY DEF Exact
  <1> HIDE DEF GetWindowData
  <1> QED BY <1>1, <1>2 DEF Claims

(* Joining a report to the mirror adds no claim the report does not make. *)
LEMMA JoinClaims ==
    ASSUME NEW S \in SUBSET Nat, NEW w \in Windows, Claims(w, S), NEW ack, Claims(ack, S)
    PROVE  JoinWindowData(w, ack) \in Windows /\ Claims(JoinWindowData(w, ack), S)
  <1> DEFINE forward == Jump(w.right, ack.right)
             older == Jump(ack.right, w.right)
             size == ack.words * WordBits
  <1>w. /\ w = [first |-> w.first, right |-> w.right, bits |-> w.bits]
        /\ w.right \in Numbers /\ w.bits \subseteq Distances /\ ack.bits \subseteq Distances
        /\ w.right \in Low /\ ack.right \in Low /\ ack.right \in Numbers
        /\ w.right \in Int /\ ack.right \in Int
        /\ \A d \in w.bits : w.right - d \in S
        /\ \A d \in ack.bits : ack.right - d \in S
    BY Half, ModulusAssumption DEF Windows, Claims, Low, Numbers
  <1>1. CASE forward < HalfRange
    <2> DEFINE bits == {d \in Distances : d - forward \in w.bits} \cup ack.bits
    <2>1. JoinWindowData(w, ack) = [first |-> FALSE, right |-> ack.right, bits |-> bits]
      BY <1>1 DEF JoinWindowData, Shift, ShiftWithin, Distances
    <2>2. forward = ack.right - w.right
      BY <1>w, <1>1, LowNumbers, Half, ModulusAssumption DEF Low
    <2>3. \A d \in bits : d \in Distances /\ ack.right - d \in S
      <3>1. ASSUME NEW d \in Distances, d - forward \in w.bits PROVE ack.right - d \in S
        <4>1. w.right - (d - forward) \in S /\ d \in Int
          BY <1>w, <3>1 DEF Distances
        <4>2. w.right - (d - forward) = ack.right - d
          BY <1>w, <2>2, <4>1
        <4> QED BY <4>1, <4>2
      <3> QED BY <1>w, <3>1
    <2> HIDE DEF bits
    <2> QED BY <1>w, <2>1, <2>3 DEF Windows, Claims, Low
  <1>2. CASE ~(forward < HalfRange)
    <2> DEFINE shifted == {d \in 0 .. size - 1 : d - older \in ack.bits} \cap Distances
    <2>1. JoinWindowData(w, ack) = [first |-> FALSE, right |-> w.right, bits |-> w.bits \cup shifted]
      BY <1>w, <1>2 DEF JoinWindowData, ShiftWithin
    <2>2. older = w.right - ack.right
      BY <1>w, <1>2, LowNumbers, Half, ModulusAssumption DEF Low
    <2>3. \A d \in shifted : d \in Distances /\ w.right - d \in S
      <3> TAKE d \in shifted
      <3>1. ack.right - (d - older) \in S /\ d \in Int /\ d \in Distances
        BY <1>w DEF Distances
      <3>2. ack.right - (d - older) = w.right - d
        BY <1>w, <2>2, <3>1
      <3> QED BY <3>1, <3>2
    <2> HIDE DEF shifted
    <2> QED BY <1>w, <2>1, <2>3 DEF Windows, Claims, Low
  <1> QED BY <1>1, <1>2

(* CheckValue finds only what the mirror's claims are about. *)
LEMMA CheckFinds ==
    ASSUME NEW S \in SUBSET Nat, NEW w, Claims(w, S), NEW n \in Low, CheckValue(w, n)
    PROVE  n \in S
  <1> DEFINE d == Jump(n, w.right)
  <1>1. w.right \in Low /\ d \in Distances /\ w.right - d \in S
    BY DEF Claims, CheckValue, Low
  <1>2. d = IF w.right >= n THEN w.right - n ELSE w.right - n + Modulus
    BY <1>1, LowNumbers, Half DEF Low
  <1>3. w.right >= n
    BY <1>1, <1>2, Half, ModulusAssumption DEF Low
  <1>4. w.right - d = n
    BY <1>1, <1>2, <1>3 DEF Low
  <1> QED BY <1>1, <1>4

-----------------------------------------------------------------------------
(* The orderer *)

(* An orderer in the middle of a push: the packet expected next may be stored. *)
Sorted(o) ==
    /\ o \in [first : BOOLEAN, next : Numbers, heap : Seq(Entries)] /\ ~o.first
    /\ \A i, j \in DOMAIN o.heap : i < j => o.heap[i].key < o.heap[j].key
    /\ \A i \in DOMAIN o.heap : o.heap[i].key \in o.next .. HalfRange - 1
    /\ o.next <= HalfRange

(* Packets handed out are consecutive, starting with number e. *)
Run(out, e) == /\ out \in Seq(Entries)
               /\ \A i \in DOMAIN out : out[i].key = e + i - 1

Packets(out) == {out[i] : i \in DOMAIN out}

(* A sorted heap of distinct numbers grows at least as fast as its positions. *)
LEMMA KeysGrow ==
    ASSUME NEW o, Sorted(o), NEW i \in DOMAIN o.heap
    PROVE  o.next + i - 1 <= o.heap[i].key
  <1> DEFINE q == o.heap
             S == {j \in DOMAIN q : o.next + j - 1 <= q[j].key}
  <1>0. /\ q \in Seq(Entries) /\ Len(q) \in Nat /\ DOMAIN q = 1 .. Len(q) /\ o.next \in Int
        /\ \A j \in DOMAIN q : q[j].key \in Int /\ o.next <= q[j].key
    <2>1. o.next \in Int /\ q \in Seq(Entries)
      BY ModulusAssumption DEF Sorted, Numbers
    <2>2. \A j \in DOMAIN q : q[j].key \in o.next .. HalfRange - 1
      BY DEF Sorted
    <2>3. HalfRange - 1 \in Int
      BY Half
    <2> QED BY <2>1, <2>2, <2>3
  <1>1. \A j, k \in DOMAIN q : j < k => q[j].key < q[k].key
    BY DEF Sorted
  <1> HIDE DEF S
  <1>2. PICK k \in 0 .. Len(q) : (\A j \in 1 .. k : j \in S) /\ (k < Len(q) => k + 1 \notin S)
    BY ONLY <1>0, LongestPrefix, Zenon
  <1>3. k = Len(q)
    <2> SUFFICES ASSUME k < Len(q) PROVE k + 1 \in S
      BY <1>0, <1>2
    <2>1. k + 1 \in DOMAIN q /\ k \in Nat
      BY <1>0
    <2>2. o.next + (k + 1) - 1 <= q[k + 1].key
      <3>1. CASE k = 0
        BY <1>0, <2>1, <3>1
      <3>2. CASE k # 0
        <4>1. k \in DOMAIN q /\ k < k + 1 /\ k \in S
          BY <1>0, <1>2, <2>1, <3>2
        <4>2. o.next + k - 1 <= q[k].key /\ q[k].key < q[k + 1].key
          BY <1>1, <2>1, <4>1 DEF S
        <4>3. o.next \in Int /\ q[k].key \in Int /\ q[k + 1].key \in Int
          BY <1>0, <2>1, <4>1
        <4> QED BY ONLY <2>1, <4>2, <4>3
      <3> QED BY <3>1, <3>2
    <2> QED BY <2>1, <2>2 DEF S
  <1>4. i \in S
    BY <1>0, <1>2, <1>3
  <1> QED BY <1>4 DEF S

(* The export loop pops the packets in sequence, and stops at a gap. *)
LEMMA DrainPops ==
    ASSUME NEW o, Sorted(o)
    PROVE  \E k \in 0 .. Len(o.heap) :
              /\ Drain(o) = Pop(o, k)
              /\ \A i \in 1 .. k : o.heap[i].key = o.next + i - 1
              /\ k < Len(o.heap) => o.heap[k + 1].key # o.next + k
  <1> DEFINE q == o.heap
             S == {i \in 1 .. Len(q) : q[i].key = (o.next + i - 1) % Modulus}
  <1>0. q \in Seq(Entries) /\ Len(q) \in Nat /\ DOMAIN q = 1 .. Len(q) /\ o.next \in Nat
    BY ModulusAssumption DEF Sorted, Numbers
  <1>1. \A i \in 1 .. Len(q) : (o.next + i - 1) % Modulus = o.next + i - 1
    <2> TAKE i \in 1 .. Len(q)
    <2>1. o.next + i - 1 <= q[i].key /\ q[i].key \in o.next .. HalfRange - 1
      BY <1>0, KeysGrow DEF Sorted
    <2>2. o.next + i - 1 \in Numbers
      BY <1>0, <2>1, Half, ModulusAssumption DEF Numbers
    <2> QED BY <2>2, WrapSame DEF Wrap
  <1>2. \E k \in 0 .. Len(q) : /\ \A i \in 1 .. k : i \in S
                               /\ k < Len(q) => k + 1 \notin S
    BY ONLY <1>0, LongestPrefix, Zenon
  <1>3. \E k \in 0 .. Len(q) :
           /\ \A i \in 1 .. k : q[i].key = (o.next + i - 1) % Modulus
           /\ k < Len(q) => ~(q[k + 1].key = (o.next + (k + 1) - 1) % Modulus)
    <2>1. PICK k \in 0 .. Len(q) : /\ \A i \in 1 .. k : i \in S
                                   /\ k < Len(q) => k + 1 \notin S
      BY <1>2
    <2>2. k < Len(q) => k + 1 \in 1 .. Len(q)
      BY <1>0
    <2> QED BY <2>1, <2>2
  <1> DEFINE K == PrefixLength(q, LAMBDA i : q[i].key = (o.next + i - 1) % Modulus)
  <1>4. /\ K \in 0 .. Len(q)
        /\ \A i \in 1 .. K : q[i].key = (o.next + i - 1) % Modulus
        /\ K < Len(q) => ~(q[K + 1].key = (o.next + (K + 1) - 1) % Modulus)
    BY <1>3, Zenon DEF PrefixLength
  <1>5. Drain(o) = Pop(o, K)
    BY DEF Drain
  <1> HIDE DEF K
  <1>6. \A i \in 1 .. K : i \in 1 .. Len(q)
    BY <1>0, <1>4
  <1>7. K < Len(q) => K + 1 \in 1 .. Len(q) /\ o.next + (K + 1) - 1 = o.next + K
    BY <1>0, <1>4
  <1> QED BY ONLY <1>1, <1>4, <1>5, <1>6, <1>7

(* What the export loop leaves and hands out. *)
LEMMA DrainRuns ==
    ASSUME NEW o, Sorted(o)
    PROVE  /\ Drained(Drain(o).orderer) /\ ~Drain(o).orderer.first
           /\ Run(Drain(o).out, o.next)
           /\ Drain(o).orderer.next = o.next + Len(Drain(o).out)
           /\ Packets(Drain(o).out) \cup Held(Drain(o).orderer) = Held(o)
           /\ Drain(o).out = <<>> => Drain(o).orderer = o
  <1> DEFINE q == o.heap
  <1>1. PICK k \in 0 .. Len(q) : /\ Drain(o) = Pop(o, k)
                                 /\ \A i \in 1 .. k : q[i].key = o.next + i - 1
                                 /\ k < Len(q) => q[k + 1].key # o.next + k
    BY DrainPops
  <1>0. /\ q \in Seq(Entries) /\ Len(q) \in Nat /\ DOMAIN q = 1 .. Len(q) /\ o.next \in Numbers
        /\ o.next \in Nat /\ k \in Nat /\ o.next <= HalfRange
        /\ o = [first |-> o.first, next |-> o.next, heap |-> q]
        /\ ~o.first /\ o.first \in BOOLEAN
    BY ModulusAssumption DEF Sorted, Numbers
  <1>s. \A i, j \in DOMAIN q : i < j => q[i].key < q[j].key
    BY DEF Sorted
  <1>k. \A i \in DOMAIN q : q[i].key \in Nat /\ o.next <= q[i].key /\ q[i].key < HalfRange
    <2>1. \A i \in DOMAIN q : q[i].key \in o.next .. HalfRange - 1
      BY DEF Sorted
    <2> QED BY <1>0, <2>1, Half
  <1> DEFINE out  == SubSeq(q, 1, k)
             rest == SubSeq(q, k + 1, Len(q))
             next == o.next + k
  <1>2. /\ out \in Seq(Entries) /\ Len(out) = k /\ DOMAIN out = 1 .. k
        /\ \A i \in 1 .. k : out[i] = q[i]
        /\ rest \in Seq(Entries) /\ DOMAIN rest = 1 .. Len(q) - k
        /\ \A i \in 1 .. Len(q) - k : rest[i] = q[k + i]
    BY ONLY <1>0, PartOf, k \in 0 .. Len(q) DEF out, rest
  <1>3. Drain(o).out = out
    BY <1>1 DEF Pop
  <1>4. Drain(o).orderer = [first |-> o.first, next |-> next, heap |-> rest]
    <2>1. CASE k = 0
      <3>1. Drain(o).orderer = o
        BY <1>1, <2>1 DEF Pop
      <3>2. rest = q
        BY <1>0, <1>2, <2>1
      <3>3. next = o.next
        BY <1>0, <2>1
      <3> QED BY ONLY <1>0, <3>1, <3>2, <3>3
    <2>2. CASE k # 0
      <3>1. Drain(o).orderer = [o EXCEPT !.heap = rest, !.next = Succ(q[k].key)]
        BY <1>1, <2>2 DEF Pop
      <3>2. k \in DOMAIN q /\ k \in 1 .. k
        BY <1>0, <2>2
      <3>3. q[k].key = o.next + k - 1 /\ q[k].key \in Nat /\ q[k].key < HalfRange
        BY <1>1, <1>k, <3>2
      <3>4. Succ(q[k].key) = next
        BY <1>0, <3>3, Half, ModulusAssumption DEF Succ
      <3> HIDE DEF out, rest, next, q
      <3> QED BY ONLY <1>0, <3>1, <3>4
    <2> QED BY <2>1, <2>2
  <1>5. next \in Numbers /\ next <= HalfRange
    <2>1. CASE k = 0
      BY <1>0, <2>1
    <2>2. CASE k # 0
      <3>1. k \in DOMAIN q /\ k \in 1 .. k
        BY <1>0, <2>2
      <3>2. q[k].key = o.next + k - 1 /\ q[k].key < HalfRange
        BY <1>1, <1>k, <3>1
      <3> QED BY <1>0, <3>2, Half, ModulusAssumption DEF Numbers
    <2> QED BY <2>1, <2>2
  <1>6. \A i \in DOMAIN rest : rest[i] = q[k + i] /\ k + i \in DOMAIN q /\ k + 1 <= k + i
    <2> DEFINE m == Len(q)
    <2>1. m \in Nat /\ k \in Nat /\ DOMAIN q = 1 .. m /\ DOMAIN rest = 1 .. m - k
      BY <1>0, <1>2
    <2> HIDE DEF m, rest, q
    <2>2. \A i \in 1 .. m - k : k + i \in 1 .. m /\ k + 1 <= k + i
      BY ONLY <2>1
    <2> QED BY ONLY <1>2, <2>1, <2>2 DEF m
  <1>7. ASSUME NEW i \in DOMAIN rest
        PROVE  rest[i].key \in next + 1 .. HalfRange - 1
    <2>1. k + 1 \in DOMAIN q /\ k < Len(q)
      BY <1>0, <1>2
    <2>2. next <= q[k + 1].key
      <3>1. o.next + (k + 1) - 1 <= q[k + 1].key
        BY <2>1, KeysGrow
      <3> QED BY <1>0, <3>1
    <2>3. q[k + 1].key # next
      BY <1>1, <2>1
    <2>4. k + 1 = k + i \/ q[k + 1].key < q[k + i].key
      BY <1>0, <1>2, <1>6, <1>s, <2>1
    <2>5. q[k + 1].key \in Nat /\ q[k + i].key \in Nat /\ q[k + i].key < HalfRange /\ next \in Nat
      <3>1. k + i \in DOMAIN q
        BY ONLY <1>6, i \in DOMAIN rest
      <3>2. next \in Nat
        BY ONLY <1>0 DEF next
      <3> QED BY ONLY <1>k, <2>1, <3>1, <3>2
    <2>6. next < q[k + i].key
      BY ONLY <2>2, <2>3, <2>4, <2>5
    <2>7. rest[i].key = q[k + i].key
      BY <1>6
    <2>8. HalfRange \in Nat
      BY Half
    <2>9. rest[i].key \in Nat /\ next < rest[i].key /\ rest[i].key < HalfRange
      BY ONLY <2>5, <2>6, <2>7
    <2> QED BY ONLY <2>5, <2>8, <2>9
  <1>8. \A i, j \in DOMAIN rest : i < j => rest[i].key < rest[j].key
    <2> SUFFICES ASSUME NEW i \in DOMAIN rest, NEW j \in DOMAIN rest, i < j
                 PROVE  rest[i].key < rest[j].key
      OBVIOUS
    <2>1. i \in Int /\ j \in Int /\ k + i < k + j
      BY <1>0, <1>2
    <2> QED BY ONLY <1>6, <1>s, <2>1, i \in DOMAIN rest, j \in DOMAIN rest
  <1>9. \A i \in DOMAIN out : out[i].key = o.next + i - 1
    BY <1>1, <1>2
  <1>10. {out[i] : i \in DOMAIN out} \cup {rest[i] : i \in DOMAIN rest} = {q[i] : i \in DOMAIN q}
    <2>1. \A i \in DOMAIN out : i \in DOMAIN q /\ out[i] = q[i]
      BY <1>0, <1>2
    <2>2. \A i \in DOMAIN q : \/ i \in DOMAIN out
                              \/ i - k \in DOMAIN rest /\ rest[i - k] = q[i]
      <3> TAKE i \in DOMAIN q
      <3>1. i \in 1 .. k \/ (i - k \in 1 .. Len(q) - k /\ k + (i - k) = i)
        BY <1>0
      <3> QED BY <1>2, <3>1
    <2> HIDE DEF out, rest, q
    <2> QED BY ONLY <1>6, <2>1, <2>2
  <1>11. out = <<>> => Drain(o).orderer = o
    <2> SUFFICES ASSUME out = <<>> PROVE Drain(o).orderer = o
      OBVIOUS
    <2>1. k = 0
      BY <1>2
    <2> QED BY <1>1, <2>1 DEF Pop
  <1> HIDE DEF out, rest, next, q
  <1>12. /\ Drain(o).orderer.first = o.first /\ Drain(o).orderer.next = next
         /\ Drain(o).orderer.heap = rest
    BY ONLY <1>4
  <1>13. Drained(Drain(o).orderer)
    <2>1. Drain(o).orderer \in [first : BOOLEAN, next : Numbers, heap : Seq(Entries)]
      BY ONLY <1>0, <1>2, <1>4, <1>5
    <2> QED BY <1>0, <1>5, <1>7, <1>8, <1>12, <2>1 DEF Drained
  <1>14. Run(Drain(o).out, o.next)
    BY <1>2, <1>3, <1>9 DEF Run
  <1>15. Drain(o).orderer.next = o.next + Len(Drain(o).out)
    BY <1>2, <1>3, <1>12 DEF next
  <1>16. Packets(Drain(o).out) \cup Held(Drain(o).orderer) = Held(o)
    BY <1>3, <1>10, <1>12 DEF Packets, Held, q
  <1> QED BY <1>0, <1>3, <1>11, <1>12, <1>13, <1>14, <1>15, <1>16

(* A packet that came too early takes its place on the heap. *)
LEMMA StoreKeeps ==
    ASSUME NEW o, Sorted(o), NEW p \in Entries, p.key \in o.next .. HalfRange - 1,
           \A i \in DOMAIN o.heap : o.heap[i].key # p.key
    PROVE  /\ Sorted(Store(o, p)) /\ Store(o, p).next = o.next
           /\ Held(Store(o, p)) = Held(o) \cup {p}
  <1> DEFINE q == o.heap
             n == p.key
             ahead == {i \in DOMAIN q : ~IsSequenceNumberInFuture(n, q[i].key)}
  <1>0. /\ q \in Seq(Entries) /\ Len(q) \in Nat /\ DOMAIN q = 1 .. Len(q)
        /\ \A i \in DOMAIN q : /\ q[i].key \in Low /\ q[i].key \in Nat /\ q[i].key # n
                               /\ q[i].key \in o.next .. HalfRange - 1
        /\ o = [first |-> o.first, next |-> o.next, heap |-> q]
        /\ o.first \in BOOLEAN /\ ~o.first
        /\ o.next \in Numbers /\ o.next \in Nat /\ o.next <= HalfRange
    BY Half, ModulusAssumption DEF Sorted, Numbers, Low
  <1>n. n \in Low /\ n \in Nat /\ n \in o.next .. HalfRange - 1
    BY <1>0, Half DEF Low
  <1>s. \A i, j \in DOMAIN q : i < j => q[i].key < q[j].key
    BY DEF Sorted
  <1> HIDE DEF q, n
  <1>1. \A i \in DOMAIN q : i \in ahead <=> q[i].key < n
    <2>1. ASSUME NEW i \in DOMAIN q
          PROVE  IsSequenceNumberInFuture(n, q[i].key) <=> q[i].key > n
      <3>1. q[i].key \in 0 .. HalfRange /\ n \in 0 .. HalfRange
        BY <1>0, <1>n, Half DEF Low
      <3> QED BY ONLY <3>1, LowNumbers
    <2> QED BY ONLY <1>0, <1>n, <2>1
  <1>2. PICK k \in 0 .. Len(q) : ahead = 1 .. k
    <2> HIDE DEF ahead
    <2>1. PICK k \in 0 .. Len(q) : /\ \A i \in 1 .. k : i \in ahead
                                   /\ k < Len(q) => k + 1 \notin ahead
      BY ONLY <1>0, LongestPrefix, Zenon
    <2>2. ASSUME NEW i \in k + 1 .. Len(q)
          PROVE  i \notin ahead
      <3>1. k + 1 \in DOMAIN q /\ i \in DOMAIN q /\ k + 1 <= i /\ k < Len(q) /\ i \in Int /\ k \in Int
        BY <1>0
      <3>2. ~(q[k + 1].key < n)
        BY ONLY <1>1, <2>1, <3>1
      <3>3. i = k + 1 \/ q[k + 1].key < q[i].key
        BY ONLY <1>s, <3>1
      <3>4. q[k + 1].key \in Nat /\ q[i].key \in Nat
        BY ONLY <1>0, <3>1
      <3> QED BY ONLY <1>1, <1>n, <3>1, <3>2, <3>3, <3>4
    <2>3. ahead \subseteq 1 .. Len(q)
      BY <1>0 DEF ahead
    <2>4. \A i \in 1 .. Len(q) : i \in 1 .. k \/ i \in k + 1 .. Len(q)
      BY <1>0
    <2>5. ahead = 1 .. k
      BY ONLY <2>1, <2>2, <2>3, <2>4
    <2> QED BY <2>5
  <1>3. Cardinality(ahead) = k
    <2>1. k \in Nat
      BY <1>0
    <2>2. Cardinality(1 .. k) = k
      BY ONLY <2>1, FS_Interval
    <2> QED BY ONLY <1>2, <2>2
  <1>4. \A i \in 1 .. k : q[i].key < n
    BY <1>0, <1>1, <1>2
  <1>5. \A i \in k + 1 .. Len(q) : n < q[i].key
    <2>1. \A i \in k + 1 .. Len(q) : i \in DOMAIN q /\ i \notin 1 .. k
      BY <1>0
    <2>2. \A i \in k + 1 .. Len(q) : ~(q[i].key < n) /\ q[i].key # n /\ q[i].key \in Nat
      BY ONLY <1>0, <1>1, <1>2, <2>1
    <2> QED BY ONLY <1>n, <2>2
  <1> DEFINE a == SubSeq(q, 1, k)
             b == SubSeq(q, k + 1, Len(q))
             r == a \o <<p>> \o b
  <1>6. /\ a \in Seq(Entries) /\ Len(a) = k /\ \A i \in 1 .. k : a[i] = q[i]
        /\ b \in Seq(Entries) /\ Len(b) = Len(q) - k /\ \A i \in 1 .. Len(q) - k : b[i] = q[k + i]
    BY ONLY <1>0, PartOf, k \in 0 .. Len(q) DEF a, b
  <1>7. Store(o, p) = [first |-> o.first, next |-> o.next, heap |-> r]
    <2>1. Store(o, p) = [o EXCEPT !.heap = r]
      BY <1>3 DEF Store, q, n
    <2> HIDE DEF r
    <2> QED BY ONLY <1>0, <2>1
  <1> HIDE DEF a, b, ahead
  <1>8. /\ r \in Seq(Entries) /\ DOMAIN r = 1 .. Len(q) + 1
        /\ \A i \in 1 .. k : r[i] = q[i]
        /\ r[k + 1] = p
        /\ \A i \in k + 2 .. Len(q) + 1 : r[i] = q[i - 1]
    <2> DEFINE c == a \o <<p>>
    <2>1. /\ c \in Seq(Entries) /\ Len(c) = k + 1 /\ \A i \in 1 .. k : c[i] = q[i]
          /\ c[k + 1] = p
      BY <1>6
    <2> HIDE DEF c
    <2>2. r = c \o b
      BY DEF c
    <2>3. /\ c \o b \in Seq(Entries) /\ Len(c \o b) = Len(q) + 1
          /\ \A i \in 1 .. k + 1 : (c \o b)[i] = c[i]
          /\ \A i \in k + 2 .. Len(q) + 1 : (c \o b)[i] = b[i - (k + 1)]
      <3> DEFINE m == Len(q)
      <3>1. m \in Nat /\ k \in 0 .. m /\ Len(b) = m - k /\ b \in Seq(Entries)
        BY <1>0, <1>6
      <3> HIDE DEF m
      <3>2. /\ c \o b \in Seq(Entries) /\ Len(c \o b) = Len(c) + Len(b)
            /\ \A i \in 1 .. Len(c) + Len(b) : (c \o b)[i] = IF i <= Len(c) THEN c[i] ELSE b[i - Len(c)]
        BY ONLY <2>1, <3>1, ConcatProperties
      <3>3. Len(c) + Len(b) = m + 1 /\ Len(c) = k + 1
        BY ONLY <2>1, <3>1
      <3>4. \A i \in 1 .. k + 1 : i \in 1 .. m + 1 /\ i <= k + 1
        BY ONLY <3>1
      <3>5. \A i \in k + 2 .. m + 1 : i \in 1 .. m + 1 /\ ~(i <= k + 1)
        BY ONLY <3>1
      <3> QED BY ONLY <3>2, <3>3, <3>4, <3>5 DEF m
    <2>4. \A i \in k + 2 .. Len(q) + 1 : b[i - (k + 1)] = q[i - 1]
      <3>1. \A i \in k + 2 .. Len(q) + 1 : i - (k + 1) \in 1 .. Len(q) - k /\ k + (i - (k + 1)) = i - 1
        BY <1>0
      <3> QED BY <1>6, <3>1
    <2>5. DOMAIN (c \o b) = 1 .. Len(q) + 1
      BY <2>3
    <2>6. \A i \in 1 .. k : i \in 1 .. k + 1
      BY <1>0
    <2>7. k + 1 \in 1 .. k + 1
      BY <1>0
    <2> HIDE DEF r
    <2> QED BY ONLY <2>1, <2>2, <2>3, <2>4, <2>5, <2>6, <2>7
  <1> HIDE DEF r
  <1>9. \A i \in DOMAIN r : /\ i \in Int
                            /\ \/ i \in 1 .. k /\ i \in DOMAIN q
                               \/ i = k + 1
                               \/ i \in k + 2 .. Len(q) + 1 /\ i - 1 \in k + 1 .. Len(q) /\ i - 1 \in DOMAIN q
    BY <1>0, <1>8
  <1>10. ASSUME NEW i \in DOMAIN r, NEW j \in DOMAIN r, i < j
         PROVE  r[i].key < r[j].key
    <2>1. CASE i \in 1 .. k
      <3>1. r[i] = q[i] /\ i \in DOMAIN q /\ q[i].key < n /\ q[i].key \in Nat
        BY <1>0, <1>4, <1>8, <2>1
      <3>2. CASE j \in 1 .. k
        BY <1>0, <1>8, <1>s, <1>10, <3>1, <3>2
      <3>3. CASE j = k + 1
        BY <1>8, <3>1, <3>3 DEF n
      <3>4. CASE j \in k + 2 .. Len(q) + 1
        <4>1. r[j] = q[j - 1] /\ i < j - 1 /\ j - 1 \in DOMAIN q
          BY <1>0, <1>8, <2>1, <3>4
        <4> QED BY <1>s, <3>1, <4>1
      <3> QED BY <1>9, <3>2, <3>3, <3>4
    <2>2. CASE i = k + 1
      <3>1. j \in k + 2 .. Len(q) + 1 /\ j - 1 \in k + 1 .. Len(q)
        BY <1>9, <1>10, <2>2
      <3> QED BY <1>5, <1>8, <2>2, <3>1 DEF n
    <2>3. CASE i \in k + 2 .. Len(q) + 1
      <3>1. j \in k + 2 .. Len(q) + 1 /\ i - 1 < j - 1
        BY <1>9, <1>10, <2>3
      <3>2. i - 1 \in DOMAIN q /\ j - 1 \in DOMAIN q
        BY <1>0, <2>3, <3>1
      <3> QED BY ONLY <1>8, <1>s, <2>3, <3>1, <3>2
    <2> QED BY <1>9, <2>1, <2>2, <2>3
  <1>11. \A i \in DOMAIN r : r[i].key \in o.next .. HalfRange - 1
    BY <1>0, <1>8, <1>9, <1>n DEF n
  <1>12. {r[i] : i \in DOMAIN r} = {q[i] : i \in DOMAIN q} \cup {p}
    <2>1. \A i \in DOMAIN r : r[i] = p \/ \E j \in DOMAIN q : r[i] = q[j]
      BY <1>8, <1>9
    <2>2. k + 1 \in DOMAIN r /\ r[k + 1] = p
      BY <1>0, <1>8
    <2>3. ASSUME NEW j \in DOMAIN q PROVE \E i \in DOMAIN r : r[i] = q[j]
      <3>1. CASE j \in 1 .. k
        BY <1>0, <1>8, <3>1
      <3>2. CASE j \in k + 1 .. Len(q)
        <4>1. j + 1 \in k + 2 .. Len(q) + 1 /\ j + 1 - 1 = j /\ j + 1 \in DOMAIN r
          BY <1>0, <1>8, <3>2
        <4> QED BY <1>8, <4>1
      <3> QED BY <1>0, <3>1, <3>2
    <2> QED BY ONLY <2>1, <2>2, <2>3
  <1>13. /\ Store(o, p).first = o.first /\ Store(o, p).next = o.next /\ Store(o, p).heap = r
         /\ Store(o, p) \in [first : BOOLEAN, next : Numbers, heap : Seq(Entries)]
    BY ONLY <1>0, <1>7, <1>8
  <1>14. Sorted(Store(o, p))
    BY <1>0, <1>10, <1>11, <1>13 DEF Sorted
  <1>15. Held(Store(o, p)) = Held(o) \cup {p}
    BY <1>12, <1>13 DEF Held, q
  <1> QED BY <1>13, <1>14, <1>15

(* An orderer between two calls that has seen its first packet is sorted, and *)
(* the export loop finds nothing to do.                                       *)
LEMMA DrainedIsSorted ==
    ASSUME NEW o, Drained(o), ~o.first
    PROVE  Sorted(o) /\ Drain(o).out = <<>> /\ Drain(o).orderer = o
  <1>1. Sorted(o)
    <2>1. \A i \in DOMAIN o.heap : o.heap[i].key \in o.next .. HalfRange - 1
      BY Half, ModulusAssumption DEF Drained, Numbers
    <2> QED BY <2>1 DEF Drained, Sorted
  <1> DEFINE out == Drain(o).out
  <1>2. Run(out, o.next) /\ Packets(out) \subseteq Held(o) /\ (out = <<>> => Drain(o).orderer = o)
    BY <1>1, DrainRuns
  <1> HIDE DEF out
  <1>3. out = <<>>
    <2> SUFFICES ASSUME out # <<>> PROVE FALSE
      OBVIOUS
    <2>1. out \in Seq(Entries) /\ 1 \in DOMAIN out
      BY <1>2 DEF Run
    <2>2. out[1].key = o.next + 1 - 1
      BY <1>2, <2>1 DEF Run
    <2>3. PICK i \in DOMAIN o.heap : o.heap[i] = out[1]
      BY <1>2, <2>1 DEF Packets, Held
    <2>4. o.heap[i].key \in o.next + 1 .. HalfRange - 1 /\ o.next \in Int
      BY ModulusAssumption DEF Drained, Numbers
    <2> QED BY <2>2, <2>3, <2>4, Half
  <1> QED BY <1>1, <1>2, <1>3 DEF out

(* A packet stored ahead of the one expected next leaves the orderer drained. *)
LEMMA StoreDrained ==
    ASSUME NEW o, Drained(o), ~o.first, NEW p \in Entries, p.key \in o.next + 1 .. HalfRange - 1,
           \A i \in DOMAIN o.heap : o.heap[i].key # p.key
    PROVE  /\ Drained(Store(o, p)) /\ Store(o, p).next = o.next
           /\ Held(Store(o, p)) = Held(o) \cup {p}
  <1>n. o.next \in Nat /\ o.next \in Int
    BY ModulusAssumption DEF Drained, Numbers
  <1>1. Sorted(o)
    BY DrainedIsSorted
  <1>2. p.key \in o.next .. HalfRange - 1
    BY <1>n, Half
  <1>3. /\ Sorted(Store(o, p)) /\ Store(o, p).next = o.next
        /\ Held(Store(o, p)) = Held(o) \cup {p}
    BY <1>1, <1>2, StoreKeeps
  <1> DEFINE s == Store(o, p)
  <1> HIDE DEF s
  <1>4. ASSUME NEW i \in DOMAIN s.heap
        PROVE  s.heap[i].key \in s.next + 1 .. HalfRange - 1
    <2>1. s.heap[i] = p \/ \E j \in DOMAIN o.heap : s.heap[i] = o.heap[j]
      BY <1>3 DEF Held, s
    <2>2. \A j \in DOMAIN o.heap : o.heap[j].key \in o.next + 1 .. HalfRange - 1
      BY DEF Drained
    <2> QED BY <1>3, <2>1, <2>2 DEF s
  <1>5. Drained(s)
    BY <1>3, <1>4 DEF s, Sorted, Drained
  <1> QED BY <1>3, <1>5 DEF s

(* A push of a new packet that is not behind hands out a run and loses nothing. *)
LEMMA PushRuns ==
    ASSUME NEW o, Drained(o), NEW p \in Entries, p.key \in o.next .. HalfRange - 1,
           \A i \in DOMAIN o.heap : o.heap[i].key # p.key
    PROVE  /\ Drained(Push(o, p, AllowInDump).orderer)
           /\ Run(Push(o, p, AllowInDump).out, o.next)
           /\ Push(o, p, AllowInDump).orderer.next = o.next + Len(Push(o, p, AllowInDump).out)
           /\ Packets(Push(o, p, AllowInDump).out) \cup Held(Push(o, p, AllowInDump).orderer)
                 = Held(o) \cup {p}
  <1> DEFINE n == p.key
  <1>0. /\ o = [first |-> o.first, next |-> o.next, heap |-> o.heap]
        /\ o.first \in BOOLEAN /\ o.next \in Nat /\ o.next \in 0 .. HalfRange /\ o.next \in Numbers
        /\ n \in Low /\ n \in Nat /\ n \in 0 .. HalfRange /\ n >= o.next
        /\ Succ(n) = n + 1 /\ n + 1 \in Numbers /\ n + 1 <= HalfRange
    BY Half, ModulusAssumption DEF Drained, Numbers, Low, Succ
  <1>1. ~IsTooOld(o, p)
    <2>1. CASE o.next = 0
      <3>1. Pred(o.next) = Modulus - 1
        BY <2>1 DEF Pred
      <3>2. Jump(Modulus - 1, n) = n + 1
        BY <1>0, Half, ModulusAssumption DEF Jump
      <3> QED BY <1>0, <3>1, <3>2 DEF IsTooOld, IsSequenceNumberInFuture
    <2>2. CASE o.next # 0
      <3>1. Pred(o.next) = o.next - 1 /\ o.next - 1 \in 0 .. HalfRange /\ n > o.next - 1
        <4>1. Pred(o.next) = o.next - 1
          BY <2>2 DEF Pred
        <4> QED BY ONLY <1>0, <2>2, <4>1, Half
      <3> QED BY <1>0, <3>1, LowNumbers DEF IsTooOld
    <2> QED BY <2>1, <2>2
  <1>2. Push(o, p, AllowInDump) = IF o.first THEN PushFirst(o, p) ELSE PushInOrder(o, p)
    BY <1>1, OptionsAssumption DEF Push
  <1>3. ASSUME NEW r, NEW c, Drained(c), ~c.first, c.next = o.next, c.heap = o.heap, n # o.next,
               r = [orderer |-> Store(c, p), out |-> <<>>]
        PROVE  /\ Drained(r.orderer) /\ Run(r.out, o.next) /\ r.orderer.next = o.next + Len(r.out)
               /\ Packets(r.out) \cup Held(r.orderer) = Held(o) \cup {p}
    <2>1. p.key \in c.next + 1 .. HalfRange - 1
      BY <1>0, <1>3, Half
    <2>2. /\ Drained(Store(c, p)) /\ Store(c, p).next = c.next
          /\ Held(Store(c, p)) = Held(c) \cup {p}
      BY <1>3, <2>1, StoreDrained
    <2>3. Run(<<>>, o.next) /\ Packets(<<>>) = {} /\ Len(<<>>) = 0
      BY DEF Run, Packets
    <2>4. Held(c) = Held(o)
      BY <1>3 DEF Held
    <2>5. r.orderer = Store(c, p) /\ r.out = <<>>
      BY <1>3
    <2> HIDE DEF n
    <2> QED BY ONLY <1>0, <1>3, <2>2, <2>3, <2>4, <2>5
  <1> HIDE DEF n
  <1>4. CASE o.first
    <2>1. o.next = 0 /\ o.heap = <<>>
      BY <1>4 DEF Drained
    <2>2. CASE n = 0
      <3> DEFINE c == [first |-> FALSE, next |-> 1, heap |-> <<>>]
      <3>1. PushFirst(o, p) = [orderer |-> c, out |-> <<p>>]
        <4>1. \A x, y : [o EXCEPT !.first = x, !.next = y] = [first |-> x, next |-> y, heap |-> o.heap]
          <5> TAKE x, y
          <5>1. [o EXCEPT !.first = x] = [first |-> x, next |-> o.next, heap |-> o.heap]
            BY ONLY <1>0
          <5>2. [[first |-> x, next |-> o.next, heap |-> o.heap] EXCEPT !.next = y]
                   = [first |-> x, next |-> y, heap |-> o.heap]
            BY ONLY TRUE
          <5>3. [o EXCEPT !.first = x, !.next = y] = [[o EXCEPT !.first = x] EXCEPT !.next = y]
            BY ONLY TRUE
          <5> QED BY ONLY <5>1, <5>2, <5>3, Zenon
        <4>2. [o EXCEPT !.first = FALSE, !.next = Succ(n)] = [first |-> FALSE, next |-> Succ(n), heap |-> o.heap]
          BY ONLY <4>1, Zenon
        <4>3. Succ(n) = 1
          BY <1>0, <2>2
        <4> QED BY <2>1, <2>2, <4>2, <4>3 DEF PushFirst, n
      <3>2. Drained(c)
        BY <1>0, <2>2 DEF Drained
      <3>3. Run(<<p>>, o.next) /\ Packets(<<p>>) = {p} /\ Len(<<p>>) = 1
        <4>1. p \in Entries /\ p.key = o.next
          BY <2>1, <2>2 DEF n
        <4> DEFINE q == <<p>>
        <4>2. q \in Seq(Entries) /\ DOMAIN q = {1} /\ q[1] = p /\ Len(q) = 1
          BY <4>1
        <4> HIDE DEF q
        <4>3. Packets(q) = {p}
          BY ONLY <4>2 DEF Packets
        <4>4. Run(q, o.next)
          BY ONLY <1>0, <4>1, <4>2 DEF Run
        <4> QED BY <4>2, <4>3, <4>4 DEF q
      <3>4. Held(c) = {} /\ Held(o) = {}
        BY <2>1 DEF Held
      <3>5. c.next = 1
        OBVIOUS
      <3> HIDE DEF c
      <3>6. Push(o, p, AllowInDump).orderer = c /\ Push(o, p, AllowInDump).out = <<p>>
        BY <1>2, <1>4, <3>1
      <3> QED BY ONLY <2>1, <3>2, <3>3, <3>4, <3>5, <3>6
    <2>3. CASE n # 0
      <3> DEFINE c == [first |-> FALSE, next |-> o.next, heap |-> o.heap]
      <3>1. PushFirst(o, p) = [orderer |-> Store(c, p), out |-> <<>>]
        <4>1. \A x : [o EXCEPT !.first = x] = [first |-> x, next |-> o.next, heap |-> o.heap]
          BY ONLY <1>0
        <4>2. [o EXCEPT !.first = FALSE] = c
          BY ONLY <4>1, Zenon DEF c
        <4> HIDE DEF c
        <4> QED BY <2>3, <4>2 DEF PushFirst, n
      <3>2. Drained(c) /\ ~c.first /\ c.next = o.next /\ c.heap = o.heap
        BY <1>0, <2>1 DEF Drained
      <3> HIDE DEF c
      <3> QED BY ONLY <1>2, <1>3, <1>4, <2>1, <2>3, <3>1, <3>2
    <2> QED BY <2>2, <2>3
  <1>5. CASE ~o.first /\ n = o.next
    <2> DEFINE c == [first |-> FALSE, next |-> n + 1, heap |-> o.heap]
               after == Drain(c)
    <2>1. Drain(o).out = <<>> /\ Drain(o).orderer = o
      BY <1>5, DrainedIsSorted
    <2>2. [o EXCEPT !.next = Succ(n)] = c
      <3>1. \A x : [o EXCEPT !.next = x] = [first |-> o.first, next |-> x, heap |-> o.heap]
        BY ONLY <1>0
      <3> QED BY <1>0, <1>5, <3>1
    <2>3. Sorted(c)
      <3>1. \A i \in DOMAIN o.heap : o.heap[i].key \in n + 1 .. HalfRange - 1
        BY <1>5 DEF Drained
      <3>2. o.heap \in Seq(Entries) /\ \A i, j \in DOMAIN o.heap : i < j => o.heap[i].key < o.heap[j].key
        BY DEF Drained
      <3> QED BY <1>0, <3>1, <3>2 DEF Sorted
    <2>4. PushInOrder(o, p) = [orderer |-> after.orderer, out |-> <<>> \o <<p>> \o after.out]
      <3> HIDE DEF c
      <3> QED BY <1>5, <2>1, <2>2 DEF PushInOrder, n
    <2>5. c.next = n + 1 /\ Held(c) = Held(o)
      BY DEF Held
    <2> HIDE DEF c
    <2>6. /\ Drained(after.orderer) /\ Run(after.out, n + 1)
          /\ after.orderer.next = n + 1 + Len(after.out)
          /\ Packets(after.out) \cup Held(after.orderer) = Held(o)
      BY <2>3, <2>5, DrainRuns
    <2> DEFINE t == after.out
               out == <<>> \o <<p>> \o t
    <2> HIDE DEF after
    <2>7. t \in Seq(Entries) /\ \A i \in DOMAIN t : t[i].key = n + 1 + i - 1
      BY <2>6 DEF Run
    <2> HIDE DEF t
    <2>8. /\ out \in Seq(Entries) /\ Len(out) = Len(t) + 1 /\ out[1] = p
          /\ \A i \in 2 .. Len(t) + 1 : out[i] = t[i - 1]
      <3>1. <<>> \o <<p>> = <<p>>
        OBVIOUS
      <3> QED BY <2>7, <3>1
    <2> HIDE DEF out
    <2>9. \A i \in DOMAIN out : i = 1 \/ (i \in 2 .. Len(t) + 1 /\ i - 1 \in DOMAIN t /\ i \in Int)
      BY <2>7, <2>8
    <2>10. ASSUME NEW i \in DOMAIN out PROVE out[i].key = o.next + i - 1
      <3>1. CASE i = 1
        BY <1>0, <1>5, <2>8, <3>1 DEF n
      <3>2. CASE i # 1
        <4>1. out[i].key = n + 1 + (i - 1) - 1 /\ i \in Int
          BY <2>7, <2>8, <2>9, <3>2
        <4> QED BY ONLY <1>0, <1>5, <4>1
      <3> QED BY <3>1, <3>2
    <2>11. Packets(out) = {p} \cup Packets(t)
      <3>1. \A i \in DOMAIN t : i + 1 \in DOMAIN out /\ out[i + 1] = t[i]
        <4> TAKE i \in DOMAIN t
        <4>1. i + 1 \in 2 .. Len(t) + 1 /\ i + 1 - 1 = i
          BY <2>7
        <4> QED BY <2>8, <4>1
      <3>2. 1 \in DOMAIN out
        BY <2>7, <2>8
      <3>3. \A i \in DOMAIN out : out[i] = p \/ \E j \in DOMAIN t : out[i] = t[j]
        BY ONLY <2>8, <2>9
      <3>4. \A x : x \in Packets(out) <=> \E i \in DOMAIN out : x = out[i]
        BY ONLY TRUE DEF Packets
      <3>5. \A x : x \in Packets(t) <=> \E i \in DOMAIN t : x = t[i]
        BY ONLY TRUE DEF Packets
      <3>6. \A x : x \in Packets(out) <=> x = p \/ x \in Packets(t)
        BY ONLY <2>8, <3>1, <3>2, <3>3, <3>4, <3>5
      <3> QED BY ONLY <3>6
    <2>12. Run(out, o.next)
      BY <2>8, <2>10 DEF Run
    <2>13. after.orderer.next = o.next + Len(out)
      <3>1. Len(t) \in Nat /\ after.orderer.next = n + 1 + Len(t)
        BY <2>6, <2>7 DEF t
      <3> QED BY ONLY <1>0, <1>5, <2>8, <3>1
    <2>14. Packets(out) \cup Held(after.orderer) = Held(o) \cup {p}
      BY <2>6, <2>11 DEF t
    <2>15. Push(o, p, AllowInDump).orderer = after.orderer /\ Push(o, p, AllowInDump).out = out
      BY <1>2, <1>5, <2>4 DEF out, t
    <2> QED BY ONLY <2>6, <2>12, <2>13, <2>14, <2>15
  <1>6. CASE ~o.first /\ n # o.next
    <2>1. Drain(o).out = <<>> /\ Drain(o).orderer = o
      BY <1>6, DrainedIsSorted
    <2>2. PushInOrder(o, p) = [orderer |-> Store(o, p), out |-> <<>>]
      BY <1>6, <2>1 DEF PushInOrder, n
    <2> QED BY <1>2, <1>3, <1>6, <2>2
  <1> QED BY <1>4, <1>5, <1>6

-----------------------------------------------------------------------------
(* What readFunc was given *)

(* Positions of a concatenation. *)
LEMMA Concat ==
    ASSUME NEW s \in Seq(Nat), NEW t \in Seq(Nat)
    PROVE  /\ s \o t \in Seq(Nat)
           /\ \A i \in DOMAIN s : i \in DOMAIN (s \o t) /\ (s \o t)[i] = s[i]
           /\ \A j \in DOMAIN t : Len(s) + j \in DOMAIN (s \o t) /\ (s \o t)[Len(s) + j] = t[j]
           /\ \A i \in DOMAIN (s \o t) :
                 i \in DOMAIN s \/ (i - Len(s) \in DOMAIN t /\ Len(s) + (i - Len(s)) = i)
           /\ ToSet(s \o t) = ToSet(s) \cup ToSet(t)
  <1> DEFINE u == s \o t
  <1>1. /\ u \in Seq(Nat) /\ Len(u) = Len(s) + Len(t) /\ Len(s) \in Nat /\ Len(t) \in Nat
        /\ \A i \in 1 .. Len(s) + Len(t) : u[i] = IF i <= Len(s) THEN s[i] ELSE t[i - Len(s)]
        /\ DOMAIN u = 1 .. Len(u) /\ DOMAIN s = 1 .. Len(s) /\ DOMAIN t = 1 .. Len(t)
    BY ConcatProperties
  <1> HIDE DEF u
  <1>2. \A i \in DOMAIN s : i \in DOMAIN u /\ u[i] = s[i]
    <2> TAKE i \in DOMAIN s
    <2>1. i \in 1 .. Len(s) + Len(t) /\ i <= Len(s)
      BY ONLY <1>1, i \in DOMAIN s
    <2> QED BY ONLY <1>1, <2>1
  <1>3. \A j \in DOMAIN t : Len(s) + j \in DOMAIN u /\ u[Len(s) + j] = t[j]
    <2> TAKE j \in DOMAIN t
    <2>1. /\ Len(s) + j \in 1 .. Len(s) + Len(t) /\ ~(Len(s) + j <= Len(s))
          /\ Len(s) + j - Len(s) = j
      BY ONLY <1>1, j \in DOMAIN t
    <2> QED BY ONLY <1>1, <2>1
  <1>4. \A i \in DOMAIN u : i \in DOMAIN s \/ (i - Len(s) \in DOMAIN t /\ Len(s) + (i - Len(s)) = i)
    BY ONLY <1>1
  <1>5. ToSet(u) = ToSet(s) \cup ToSet(t)
    <2>1. \A i \in DOMAIN u : (\E j \in DOMAIN s : u[i] = s[j]) \/ (\E j \in DOMAIN t : u[i] = t[j])
      BY ONLY <1>2, <1>3, <1>4
    <2>2. ToSet(u) \subseteq ToSet(s) \cup ToSet(t)
      BY ONLY <2>1 DEF ToSet
    <2>3. ToSet(s) \subseteq ToSet(u)
      BY ONLY <1>2 DEF ToSet
    <2>4. ToSet(t) \subseteq ToSet(u)
      BY ONLY <1>3 DEF ToSet
    <2> QED BY ONLY <2>2, <2>3, <2>4
  <1> QED BY ONLY <1>1, <1>2, <1>3, <1>4, <1>5 DEF u

(* Order numbers are numbers. *)
Numbered(messages, s) == \A i \in DOMAIN s : Order(messages, s[i]) \in Nat

(* Messages given in a run continue what was given. *)
LEMMA GivenRun ==
    ASSUME NEW messages, NEW s, NEW e \in Nat, Given(messages, s, e), Numbered(messages, s),
           NEW t \in Seq(Nat),
           \A i \in DOMAIN t : /\ Strict(messages, t[i]) /\ Order(messages, t[i]) = e + i - 1
                               /\ t[i] \notin ToSet(s)
    PROVE  Given(messages, s \o t, e + Len(t))
  <1> DEFINE u == s \o t
             S(i) == Strict(messages, u[i])
             O(i) == Order(messages, u[i])
             l == Len(s)
             m == Len(t)
  <1>0. s \in Seq(Nat) /\ l \in Nat /\ m \in Nat /\ DOMAIN s = 1 .. l /\ DOMAIN t = 1 .. m
    BY DEF Given
  <1>1. /\ u \in Seq(Nat)
        /\ \A i \in DOMAIN s : i \in DOMAIN u /\ u[i] = s[i]
        /\ \A j \in DOMAIN t : l + j \in DOMAIN u /\ u[l + j] = t[j]
        /\ \A i \in DOMAIN u : i \in DOMAIN s \/ (i - l \in DOMAIN t /\ l + (i - l) = i)
    BY <1>0, Concat
  <1> HIDE DEF u, l, m
  <1>2. \A i \in DOMAIN s : O(i) \in Nat
    BY <1>1 DEF Numbered
  <1>3. \A j \in DOMAIN t : S(l + j) /\ O(l + j) = e + j - 1 /\ u[l + j] \notin ToSet(s)
    BY <1>1
  <1>g. \A i \in DOMAIN s : S(i) =>
          /\ O(i) < e
          /\ \A j \in 1 .. i - 1 : S(j) => O(j) < O(i)
          /\ \A k \in 0 .. O(i) - 1 : \E j \in 1 .. i - 1 : S(j) /\ O(j) = k
    <2>1. \A i \in DOMAIN s : Strict(messages, s[i]) =>
            /\ Order(messages, s[i]) < e
            /\ \A j \in 1 .. i - 1 : Strict(messages, s[j]) => Order(messages, s[j]) < Order(messages, s[i])
            /\ \A k \in 0 .. Order(messages, s[i]) - 1 :
                  \E j \in 1 .. i - 1 : Strict(messages, s[j]) /\ Order(messages, s[j]) = k
      BY DEF Given
    <2>2. \A i \in DOMAIN s : \A j \in 1 .. i - 1 : j \in DOMAIN s
      BY <1>0
    <2>3. \A i \in DOMAIN s : u[i] = s[i]
      BY <1>1
    <2> QED BY ONLY <2>1, <2>2, <2>3
  <1>e. \A k \in 0 .. e - 1 : \E i \in DOMAIN s : S(i) /\ O(i) = k
    <2>1. \A k \in 0 .. e - 1 : \E i \in DOMAIN s : Strict(messages, s[i]) /\ Order(messages, s[i]) = k
      BY DEF Given
    <2> QED BY <1>1, <2>1
  <1> HIDE DEF S, O
  <1>4. IsInjective(u)
    <2> SUFFICES ASSUME NEW i \in DOMAIN u, NEW j \in DOMAIN u, u[i] = u[j]
                 PROVE  i = j
      BY DEF IsInjective
    <2>1. \A a, b \in DOMAIN s : s[a] = s[b] => a = b
      BY DEF Given, IsInjective
    <2>2. \A a \in DOMAIN s : u[a] = s[a] /\ s[a] \in ToSet(s)
      BY <1>1 DEF ToSet
    <2>3. \A a \in DOMAIN t : u[l + a] \notin ToSet(s)
      BY <1>3
    <2>4. CASE i \in DOMAIN s /\ j \in DOMAIN s
      BY ONLY <2>1, <2>2, <2>4, u[i] = u[j]
    <2>5. CASE i \in DOMAIN s /\ j - l \in DOMAIN t /\ l + (j - l) = j
      BY ONLY <2>2, <2>3, <2>5, u[i] = u[j]
    <2>6. CASE j \in DOMAIN s /\ i - l \in DOMAIN t /\ l + (i - l) = i
      BY ONLY <2>2, <2>3, <2>6, u[i] = u[j]
    <2>7. CASE i - l \in DOMAIN t /\ l + (i - l) = i /\ j - l \in DOMAIN t /\ l + (j - l) = j
      <3>1. O(i) = e + (i - l) - 1 /\ O(j) = e + (j - l) - 1 /\ O(i) = O(j)
        BY <1>3, <2>7 DEF O
      <3>2. i - l \in Int /\ j - l \in Int
        BY <1>0, <2>7
      <3> QED BY ONLY <2>7, <3>1, <3>2, e \in Nat
    <2> QED BY <1>1, <2>4, <2>5, <2>6, <2>7
  <1>5. ASSUME NEW i \in DOMAIN u, S(i)
        PROVE  /\ O(i) < e + m
               /\ \A j \in 1 .. i - 1 : S(j) => O(j) < O(i)
               /\ \A k \in 0 .. O(i) - 1 : \E j \in 1 .. i - 1 : S(j) /\ O(j) = k
    <2>1. CASE i \in DOMAIN s
      BY <1>0, <1>2, <1>5, <1>g, <2>1
    <2>2. CASE i - l \in DOMAIN t /\ l + (i - l) = i
      <3> DEFINE a == i - l
      <3>1. a \in 1 .. m /\ a \in Int /\ i = l + a /\ O(i) = e + a - 1 /\ i \in Int
        BY <1>0, <1>3, <2>2
      <3> HIDE DEF a
      <3>2. O(i) < e + m
        BY <1>0, <3>1
      <3>3. ASSUME NEW j \in 1 .. i - 1, S(j) PROVE O(j) < O(i)
        <4>1. CASE j \in 1 .. l
          <5>1. O(j) < e /\ O(j) \in Nat
            BY <1>0, <1>2, <1>g, <3>3, <4>1
          <5> QED BY <3>1, <5>1
        <4>2. CASE j \notin 1 .. l
          <5>1. j - l \in 1 .. m /\ l + (j - l) = j /\ j - l < a /\ j - l \in Int
            BY <1>0, <3>1, <4>2
          <5>2. O(j) = e + (j - l) - 1
            BY <1>0, <1>3, <5>1
          <5> QED BY ONLY <3>1, <5>1, <5>2, e \in Nat
        <4> QED BY <4>1, <4>2
      <3>4. ASSUME NEW k \in 0 .. O(i) - 1 PROVE \E j \in 1 .. i - 1 : S(j) /\ O(j) = k
        <4>0. k \in Nat /\ k <= e + a - 2
          BY <3>1
        <4>1. CASE k < e
          <5>1. k \in 0 .. e - 1
            BY <4>0, <4>1
          <5>2. \A j \in DOMAIN s : j \in 1 .. i - 1
            BY <1>0, <3>1
          <5> QED BY <1>e, <5>1, <5>2
        <4>2. CASE k >= e
          <5> DEFINE b == k - e + 1
          <5>1. b \in 1 .. m /\ l + b \in 1 .. i - 1 /\ e + b - 1 = k
            BY <1>0, <3>1, <4>0, <4>2
          <5> HIDE DEF b
          <5>2. S(l + b) /\ O(l + b) = k
            BY <1>0, <1>3, <5>1
          <5> QED BY <5>1, <5>2
        <4> QED BY <4>0, <4>1, <4>2
      <3> QED BY <3>2, <3>3, <3>4
    <2> QED BY <1>1, <2>1, <2>2
  <1>6. ASSUME NEW k \in 0 .. (e + m) - 1
        PROVE  \E i \in DOMAIN u : S(i) /\ O(i) = k
    <2>0. k \in Nat /\ k <= e + m - 1
      BY <1>0
    <2>1. CASE k < e
      <3>1. k \in 0 .. e - 1
        BY <2>0, <2>1
      <3> QED BY <1>1, <1>e, <3>1
    <2>2. CASE k >= e
      <3> DEFINE b == k - e + 1
      <3>1. b \in 1 .. m /\ e + b - 1 = k
        BY <1>0, <2>0, <2>2
      <3> HIDE DEF b
      <3>2. S(l + b) /\ O(l + b) = k /\ l + b \in DOMAIN u
        BY <1>0, <1>1, <1>3, <3>1
      <3> QED BY <3>2
    <2> QED BY <2>0, <2>1, <2>2
  <1> QED BY ONLY <1>1, <1>4, <1>5, <1>6 DEF Given, S, O, u, m

(* A message without strict order may be given at any time. *)
LEMMA GivenOther ==
    ASSUME NEW messages, NEW s, NEW e \in Nat, Given(messages, s, e), Numbered(messages, s),
           NEW n \in Nat, ~Strict(messages, n), n \notin ToSet(s)
    PROVE  Given(messages, Append(s, n), e)
  <1> DEFINE u == Append(s, n)
  <1>1. /\ s \in Seq(Nat) /\ u \in Seq(Nat) /\ Len(s) \in Nat
        /\ DOMAIN s = 1 .. Len(s) /\ DOMAIN u = 1 .. Len(s) + 1
        /\ u[Len(s) + 1] = n /\ \A i \in DOMAIN s : u[i] = s[i]
    BY DEF Given
  <1> HIDE DEF u
  <1>2. /\ \A i \in DOMAIN u : i \in DOMAIN s \/ i = Len(s) + 1
        /\ DOMAIN s \subseteq DOMAIN u
        /\ \A i \in DOMAIN s : \A j \in 1 .. i - 1 : j \in DOMAIN s
    BY ONLY <1>1
  <1>3. IsInjective(u)
    <2>1. \A a, b \in DOMAIN s : s[a] = s[b] => a = b
      BY DEF Given, IsInjective
    <2>2. \A a \in DOMAIN s : s[a] # n
      BY DEF ToSet
    <2> QED BY ONLY <1>1, <1>2, <2>1, <2>2 DEF IsInjective
  <1>4. \A i \in DOMAIN u : Strict(messages, u[i]) => i \in DOMAIN s
    BY ONLY <1>1, <1>2, ~Strict(messages, n)
  <1>5. /\ \A i \in DOMAIN s : Strict(messages, s[i]) =>
            /\ Order(messages, s[i]) < e
            /\ \A j \in 1 .. i - 1 : Strict(messages, s[j]) => Order(messages, s[j]) < Order(messages, s[i])
            /\ \A k \in 0 .. Order(messages, s[i]) - 1 :
                  \E j \in 1 .. i - 1 : Strict(messages, s[j]) /\ Order(messages, s[j]) = k
        /\ \A k \in 0 .. e - 1 : \E i \in DOMAIN s : Strict(messages, s[i]) /\ Order(messages, s[i]) = k
    BY DEF Given
  <1>6. \A i \in DOMAIN u : Strict(messages, u[i]) =>
            /\ Order(messages, u[i]) < e
            /\ \A j \in 1 .. i - 1 : Strict(messages, u[j]) => Order(messages, u[j]) < Order(messages, u[i])
            /\ \A k \in 0 .. Order(messages, u[i]) - 1 :
                  \E j \in 1 .. i - 1 : Strict(messages, u[j]) /\ Order(messages, u[j]) = k
    <2>1. \A i \in DOMAIN s : u[i] = s[i] /\ \A j \in 1 .. i - 1 : u[j] = s[j]
      BY ONLY <1>1, <1>2
    <2> QED BY ONLY <1>4, <1>5, <2>1
  <1>7. \A k \in 0 .. e - 1 : \E i \in DOMAIN u : Strict(messages, u[i]) /\ Order(messages, u[i]) = k
    BY ONLY <1>1, <1>2, <1>5
  <1> QED BY ONLY <1>1, <1>3, <1>6, <1>7 DEF Given, u

(* Messages sent later do not change what was given. *)
LEMMA GivenGrows ==
    ASSUME NEW T, NEW messages \in Seq(T), NEW m \in T, NEW s, NEW e, Given(messages, s, e),
           \A i \in DOMAIN s : s[i] \in 0 .. Len(messages) - 1
    PROVE  Given(Append(messages, m), s, e)
  <1> DEFINE longer == Append(messages, m)
  <1>1. \A i \in DOMAIN s : longer[s[i] + 1] = messages[s[i] + 1]
    OBVIOUS
  <1> HIDE DEF longer
  <1>2. \A i \in DOMAIN s : /\ Strict(longer, s[i]) = Strict(messages, s[i])
                            /\ Order(longer, s[i]) = Order(messages, s[i])
    BY ONLY <1>1 DEF Strict, Order
  <1>3. \A i \in DOMAIN s : \A j \in 1 .. i - 1 : j \in DOMAIN s
    BY DEF Given
  <1> QED BY ONLY <1>2, <1>3, Given(messages, s, e) DEF Given, longer

-----------------------------------------------------------------------------
(* The invariant is kept *)

(* Message numbers and order numbers stay in the lower half. *)
LEMMA Ranges ==
    ASSUME NoWrap, IInv
    PROVE  /\ Len(packets) \in Nat /\ DOMAIN packets = 1 .. Len(packets)
           /\ Messages \subseteq Low /\ Messages \subseteq Nat
           /\ accepted \subseteq Low /\ accepted \in SUBSET Nat
           /\ nextOrder \in Nat /\ nextOrder <= HalfRange /\ HalfRange \in Nat
           /\ IsFiniteSet(writers) /\ Cardinality(writers) \in Nat
           /\ \A n \in Messages : n + 1 \in DOMAIN packets /\ Packet(n).order \in Nat
           /\ \A i \in DOMAIN packets : i - 1 \in Messages
  <1>1. /\ packets \in Seq([kind : {Resend, OrderResend}, order : Nat]) /\ nextOrder \in Nat
        /\ writers \subseteq 0 .. nextOrder - 1
    BY DEF IInv, Sender
  <1>2. IsFiniteSet(0 .. nextOrder - 1)
    BY <1>1, FS_Interval
  <1>3. IsFiniteSet(writers) /\ Cardinality(writers) \in Nat
    BY <1>1, <1>2, FS_Subset, FS_CardinalityType
  <1>4. Len(packets) \in Nat /\ DOMAIN packets = 1 .. Len(packets)
    BY <1>1
  <1>5. /\ Len(packets) + Cardinality(writers) <= MaxSent
        /\ nextOrder <= Len(packets) + Cardinality(writers) /\ MaxSent \in Nat
    BY LinkAssumption DEF IInv, Sender
  <1>6. Len(packets) <= HalfRange /\ nextOrder <= HalfRange /\ HalfRange \in Nat
    BY <1>1, <1>3, <1>4, <1>5, Half DEF NoWrap
  <1>7. Messages \subseteq Low /\ Messages \subseteq Nat
    BY <1>4, <1>6 DEF Messages, Low
  <1>8. accepted \subseteq Messages
    BY DEF IInv, Traffic
  <1>9. \A n \in Messages : n + 1 \in DOMAIN packets
    BY <1>4 DEF Messages
  <1>10. \A i \in DOMAIN packets : packets[i].order \in Nat /\ i - 1 \in Messages
    <2> TAKE i \in DOMAIN packets
    <2>1. packets[i] \in [kind : {Resend, OrderResend}, order : Nat]
      <3> DEFINE R == [kind : {Resend, OrderResend}, order : Nat]
      <3>1. packets \in Seq(R)
        BY <1>1
      <3> HIDE DEF R
      <3>2. packets[i] \in R
        BY ONLY <3>1, i \in DOMAIN packets
      <3> QED BY ONLY <3>2 DEF R
    <2>2. packets[i].order \in Nat
      BY ONLY <2>1
    <2>3. i - 1 \in Messages
      BY ONLY <1>4, i \in DOMAIN packets DEF Messages
    <2> QED BY <2>2, <2>3
  <1> QED BY <1>1, <1>3, <1>4, <1>6, <1>7, <1>8, <1>9, <1>10 DEF Packet

(* What was given is accepted, and has a number. *)
LEMMA GivenFacts ==
    ASSUME NoWrap, IInv
    PROVE  /\ \A i \in DOMAIN received : received[i] \in accepted /\ received[i] \in Messages
           /\ Numbered(packets, received) /\ received \in Seq(Nat) /\ orderer.next \in Nat
  <1>1. \A i \in DOMAIN received : received[i] \in ToSet(received)
    BY DEF ToSet
  <1>2. \A i \in DOMAIN received : received[i] \in accepted /\ received[i] \in Messages
    BY <1>1 DEF IInv, Accounted, Traffic
  <1>3. Numbered(packets, received)
    BY <1>2, Ranges DEF Numbered, Order, Packet
  <1>4. received \in Seq(Nat)
    BY DEF IInv, Given
  <1>5. orderer.next \in Nat
    BY ModulusAssumption DEF IInv, Drained, Numbers
  <1> QED BY <1>2, <1>3, <1>4, <1>5

(* Nothing has been sent at the start. *)
LEMMA InitIInv == Init => IInv
  <1> SUFFICES ASSUME Init PROVE IInv
    OBVIOUS
  <1>0. /\ packets = <<>> /\ Len(packets) = 0 /\ Messages = {} /\ writers = {} /\ nextOrder = 0
        /\ accepted = {} /\ received = <<>> /\ acks = {} /\ resending = <<>>
        /\ data = {} /\ ackDue = {}
    BY DEF Init, Messages
  <1>1. Sender
    <2>1. Cardinality(writers) = 0
      BY <1>0, FS_EmptySet
    <2> QED BY <1>0, <2>1, LinkAssumption DEF Sender
  <1>2. Traffic
    BY <1>0 DEF Traffic
  <1>3. /\ MakeReplayWindow \in Windows /\ Claims(MakeReplayWindow, {})
        /\ MakeReplayWindow.first
    BY Half, ModulusAssumption DEF MakeReplayWindow, Windows, Claims, Numbers
  <1>4. Exact(window, accepted) /\ Truthful
    BY <1>0, <1>3 DEF Init, Exact, Truthful
  <1>5. /\ orderer = [first |-> TRUE, next |-> 0, heap |-> <<>>]
        /\ orderer.next = 0 /\ orderer.heap = <<>>
    BY DEF Init, NewPacketOrderer
  <1>6. Drained(orderer)
    BY <1>5, Half, ModulusAssumption DEF Drained, Numbers
  <1>7. Given(packets, received, orderer.next)
    BY <1>0, <1>5 DEF Given, IsInjective
  <1>8. Accounted
    BY <1>0, <1>5 DEF Accounted, Held, ToSet
  <1>9. ConfirmedArrived
    BY <1>0 DEF ConfirmedArrived
  <1> QED BY <1>1, <1>2, <1>4, <1>6, <1>7, <1>8, <1>9 DEF IInv

(* Steps after which the network holds no more than it did and what the window *)
(* justifies: reports, lost datagrams, stamps that age.                        *)
LEMMA ReportKeeps ==
    ASSUME NoWrap, IInv,
           UNCHANGED <<senderVars, window, orderer, accepted, received>>,
           data' \subseteq data, ackDue' \subseteq ackDue,
           \A ack \in acks' : ack \in acks \/ \E limit : ack = GetWindowData(window, limit)
    PROVE  IInv'
  <1>1. Messages' = Messages /\ \A n : Packet(n)' = Packet(n) /\ IsOrderResend(n)' = IsOrderResend(n)
    BY DEF senderVars, Messages, Packet, IsOrderResend
  <1>2. Sender'
    BY <1>1 DEF IInv, Sender, senderVars
  <1>3. Traffic'
    BY <1>1 DEF IInv, Traffic, senderVars
  <1>4. Truthful'
    <2>1. \A ack \in acks' : Claims(ack, accepted)
      <3>1. Exact(window, accepted) /\ accepted \in SUBSET Nat
        BY Ranges DEF IInv
      <3>2. \A limit : Claims(GetWindowData(window, limit), accepted)
        BY ONLY <3>1, ReportClaims
      <3>3. \A ack \in acks : Claims(ack, accepted)
        BY DEF IInv, Truthful
      <3> QED BY <3>2, <3>3
    <2> QED BY <2>1 DEF IInv, Truthful, senderVars
  <1>5. Accounted'
    BY DEF IInv, Accounted, senderVars
  <1>6. ConfirmedArrived'
    BY <1>1 DEF IInv, ConfirmedArrived, senderVars
  <1>7. Exact(window, accepted)' /\ Drained(orderer)' /\ Given(packets, received, orderer.next)'
    BY DEF IInv, senderVars
  <1> QED BY <1>2, <1>3, <1>4, <1>5, <1>6, <1>7 DEF IInv

(* A report that leaves joins the network. *)
LEMMA TransmitAdds ==
    ASSUME NEW ack, Transmit(ack)
    PROVE  \A a \in acks' : a \in acks \/ a = ack
  BY DEF Transmit

(* The receiver's reports, now or later. *)
LEMMA ReportingKeeps ==
    ASSUME NoWrap, IInv,
           \/ \E n \in ackDue : RequestAck(n)
           \/ \E call \in retries : RetryAck(call)
           \/ \E index \in recent : Age(index)
           \/ Piggyback
    PROVE  IInv'
  <1>1. ASSUME NEW n \in ackDue, RequestAck(n) PROVE IInv'
    <2>1. \A a \in acks' : a \in acks \/ a = GetWindowData(window, WordIndex(n) + 1)
      BY <1>1, TransmitAdds DEF RequestAck, SendAck
    <2>2. /\ UNCHANGED <<senderVars, window, orderer, accepted, received>>
          /\ data' \subseteq data /\ ackDue' \subseteq ackDue
      BY <1>1 DEF RequestAck
    <2> QED BY <2>1, <2>2, ReportKeeps
  <1>2. ASSUME NEW call \in retries, RetryAck(call) PROVE IInv'
    <2>1. \A a \in acks' : a \in acks \/ a = GetWindowData(window, WordIndex(call.n) + 1)
      BY <1>2, TransmitAdds DEF RetryAck, SendAck
    <2>2. /\ UNCHANGED <<senderVars, window, orderer, accepted, received>>
          /\ data' \subseteq data /\ ackDue' \subseteq ackDue
      BY <1>2 DEF RetryAck
    <2> QED BY <2>1, <2>2, ReportKeeps
  <1>3. ASSUME NEW index \in recent, Age(index) PROVE IInv'
    BY <1>3, ReportKeeps DEF Age
  <1>4. CASE Piggyback
    <2>1. \A a \in acks' : a \in acks \/ a = GetWindowData(window, 1)
      BY <1>4, TransmitAdds DEF Piggyback
    <2>2. /\ UNCHANGED <<senderVars, window, orderer, accepted, received>>
          /\ data' \subseteq data /\ ackDue' \subseteq ackDue
      BY <1>4 DEF Piggyback
    <2> QED BY <2>1, <2>2, ReportKeeps
  <1> QED BY <1>1, <1>2, <1>3, <1>4

(* The network loses a datagram, or nothing happens. *)
LEMMA LosingKeeps ==
    ASSUME NoWrap, IInv,
           \/ \E n \in data : LoseData(n)
           \/ \E ack \in acks : LoseAck(ack)
           \/ UNCHANGED vars
    PROVE  IInv'
  <1>1. ASSUME NEW n \in data, LoseData(n) PROVE IInv'
    BY <1>1, ReportKeeps DEF LoseData, receiverVars
  <1>2. ASSUME NEW ack \in acks, LoseAck(ack) PROVE IInv'
    BY <1>2, ReportKeeps DEF LoseAck, receiverVars
  <1>3. CASE UNCHANGED vars
    BY <1>3, ReportKeeps DEF vars, receiverVars
  <1> QED BY <1>1, <1>2, <1>3

(* A report that arrives adds true claims to the mirror. *)
LEMMA ReceiveAckKeeps ==
    ASSUME NoWrap, IInv, NEW ack \in acks, ReceiveAck(ack)
    PROVE  IInv'
  <1>1. Messages' = Messages /\ \A n : Packet(n)' = Packet(n) /\ IsOrderResend(n)' = IsOrderResend(n)
    BY DEF ReceiveAck, Messages, Packet, IsOrderResend
  <1>2. Sender' /\ Traffic'
    BY <1>1 DEF IInv, Sender, Traffic, ReceiveAck, receiverVars
  <1>3. mirror' \in Windows /\ Claims(mirror', accepted)
    <2>1. mirror \in Windows /\ Claims(mirror, accepted) /\ Claims(ack, accepted)
      BY DEF IInv, Truthful
    <2>2. accepted \in SUBSET Nat
      BY Ranges
    <2> QED BY <2>1, <2>2, JoinClaims DEF ReceiveAck
  <1>4. Truthful'
    BY <1>3 DEF IInv, Truthful, ReceiveAck, receiverVars
  <1>5. Accounted' /\ ConfirmedArrived'
    BY <1>1 DEF IInv, Accounted, ConfirmedArrived, ReceiveAck, receiverVars
  <1>6. Exact(window, accepted)' /\ Drained(orderer)' /\ Given(packets, received, orderer.next)'
    BY DEF IInv, ReceiveAck, receiverVars
  <1> QED BY <1>2, <1>4, <1>5, <1>6 DEF IInv

(* A timer stops for good as confirmed only on a true claim. *)
LEMMA ResendTimerKeeps ==
    ASSUME NoWrap, IInv, NEW n \in Messages, ResendTimer(n)
    PROVE  IInv' /\ \A m \in Messages : resending'[m + 1] = Confirmed => resending[m + 1] = Confirmed
                       \/ (m = n /\ CheckValue(mirror, Wrap(n)) /\ n \in accepted)
  <1> DEFINE try   == resending[n + 1] + 1
             found == CheckValue(mirror, Wrap(n))
             again == ~found /\ MayResend(n, try)
             value == IF found THEN Confirmed
                      ELSE IF ~again THEN GivenUp
                      ELSE IF Packet(n).kind = Resend THEN try ELSE 0
  <1>0. /\ resending' = [resending EXCEPT ![n + 1] = value]
        /\ data' = (IF again THEN data \cup {n} ELSE data)
        /\ UNCHANGED <<packets, nextOrder, writers, mirror, acks, receiverVars>>
        /\ resending[n + 1] >= 0
    BY DEF ResendTimer
  <1>1. Messages' = Messages /\ \A m : Packet(m)' = Packet(m) /\ IsOrderResend(m)' = IsOrderResend(m)
    BY <1>0 DEF Messages, Packet, IsOrderResend
  <1>2. found => n \in accepted
    <2>1. n \in Low /\ Wrap(n) = n /\ accepted \in SUBSET Nat
      BY Ranges, LowNumbers, Half DEF Low
    <2>2. Claims(mirror, accepted)
      BY DEF IInv, Truthful
    <2> QED BY <2>1, <2>2, CheckFinds
  <1>3. value \in GivenUp .. ResendRetries /\ value \in Int
    <2>1. resending[n + 1] \in GivenUp .. ResendRetries /\ resending[n + 1] >= 0
      BY <1>0 DEF IInv, Traffic
    <2>2. ~found /\ Packet(n).kind = Resend /\ again => try <= ResendRetries
      BY LinkAssumption DEF MayResend
    <2>3. ResendRetries \in Nat
      BY LinkAssumption
    <2> HIDE DEF found, again
    <2> QED BY <2>1, <2>2, <2>3 DEF Confirmed, GivenUp
  <1>4. value = Confirmed => found
    <2>1. resending[n + 1] \in GivenUp .. ResendRetries /\ resending[n + 1] >= 0
      BY <1>0 DEF IInv, Traffic
    <2> HIDE DEF found, again
    <2> QED BY <2>1, LinkAssumption DEF Confirmed, GivenUp
  <1> HIDE DEF value, found, again
  <1>5. /\ resending' \in Seq(Int) /\ Len(resending') = Len(resending)
        /\ \A m \in Messages : resending'[m + 1] = IF m = n THEN value ELSE resending[m + 1]
    <2>1. resending \in Seq(Int) /\ Len(resending) = Len(packets)
      BY DEF IInv, Traffic
    <2>2. \A m \in Messages : m + 1 \in DOMAIN resending /\ m \in Int
      BY <2>1, Ranges
    <2> QED BY <1>0, <1>3, <2>1, <2>2
  <1>6. Sender'
    BY <1>0, <1>1 DEF IInv, Sender
  <1>7. Traffic'
    <2>1. data' \subseteq Messages
      BY <1>0 DEF IInv, Traffic
    <2> QED BY <1>0, <1>1, <1>3, <1>5, <2>1 DEF IInv, Traffic, receiverVars
  <1>8. Truthful' /\ Accounted'
    BY <1>0 DEF IInv, Truthful, Accounted, receiverVars
  <1>9. \A m \in Messages : resending'[m + 1] = Confirmed => resending[m + 1] = Confirmed
                               \/ (m = n /\ found /\ n \in accepted)
    BY <1>2, <1>4, <1>5
  <1>10. ConfirmedArrived'
    BY <1>0, <1>1, <1>9 DEF IInv, ConfirmedArrived, receiverVars
  <1>11. Exact(window, accepted)' /\ Drained(orderer)' /\ Given(packets, received, orderer.next)'
    BY <1>0 DEF IInv, receiverVars
  <1> QED BY <1>6, <1>7, <1>8, <1>9, <1>10, <1>11 DEF IInv, found

(* A message that is sent gets a new number; nothing else changes but what the *)
(* sender knows of order numbers.                                              *)
LEMMA NumberKeeps ==
    ASSUME NoWrap, IInv, NEW m \in [kind : {Resend, OrderResend}, order : Nat], Number(m),
           UNCHANGED <<mirror, acks, receiverVars>>
    PROVE  /\ packets' \in Seq([kind : {Resend, OrderResend}, order : Nat])
           /\ Len(packets') = Len(packets) + 1 /\ Messages' = Messages \cup {Len(packets)}
           /\ Len(packets) \notin Messages
           /\ \A n \in Messages : packets'[n + 1] = packets[n + 1] /\ resending'[n + 1] = resending[n + 1]
           /\ packets'[Len(packets) + 1] = m /\ resending'[Len(packets) + 1] = 0
           /\ Traffic' /\ Exact(window, accepted)' /\ Truthful' /\ Drained(orderer)'
           /\ Given(packets, received, orderer.next)' /\ Accounted' /\ ConfirmedArrived'
  <1> DEFINE l == Len(packets)
  <1>0. /\ packets \in Seq([kind : {Resend, OrderResend}, order : Nat]) /\ l \in Nat
        /\ DOMAIN packets = 1 .. l /\ resending \in Seq(Int) /\ Len(resending) = l
        /\ packets' = Append(packets, m) /\ resending' = Append(resending, 0)
        /\ data' = data \cup {l}
    BY Ranges DEF IInv, Sender, Traffic, Number
  <1>r. /\ window' = window /\ orderer' = orderer /\ ackDue' = ackDue
        /\ accepted' = accepted /\ received' = received /\ mirror' = mirror /\ acks' = acks
    BY DEF receiverVars
  <1>1. /\ packets' \in Seq([kind : {Resend, OrderResend}, order : Nat])
        /\ Len(packets') = l + 1
        /\ \A i \in 1 .. l : packets'[i] = packets[i] /\ resending'[i] = resending[i]
        /\ packets'[l + 1] = m /\ resending'[l + 1] = 0
        /\ resending' \in Seq(Int) /\ Len(resending') = l + 1
    BY <1>0
  <1>2. /\ Messages' = Messages \cup {l} /\ l \notin Messages
        /\ \A n \in Messages : n + 1 \in 1 .. l
    BY <1>0, <1>1 DEF Messages
  <1> HIDE DEF l
  <1>3. /\ \A n \in Messages : packets'[n + 1] = packets[n + 1] /\ resending'[n + 1] = resending[n + 1]
    BY <1>1, <1>2
  <1>4. Traffic'
    <2>1. \A n \in Messages' : resending'[n + 1] \in GivenUp .. ResendRetries
      <3>1. \A n \in Messages : resending[n + 1] \in GivenUp .. ResendRetries
        BY DEF IInv, Traffic
      <3>2. 0 \in GivenUp .. ResendRetries
        BY LinkAssumption DEF GivenUp
      <3> QED BY <1>1, <1>2, <1>3, <3>1, <3>2
    <2>2. data \subseteq Messages /\ ackDue \subseteq Messages /\ accepted \subseteq Messages
      BY DEF IInv, Traffic
    <2> QED BY <1>0, <1>1, <1>2, <1>r, <2>1, <2>2 DEF Traffic
  <1>5. Exact(window, accepted)' /\ Truthful' /\ Drained(orderer)'
    BY <1>r DEF IInv, Truthful
  <1>6. Given(packets, received, orderer.next)'
    <2>1. \A i \in DOMAIN received : received[i] \in 0 .. Len(packets) - 1
      BY GivenFacts DEF Messages
    <2>2. Given(packets, received, orderer.next)
      BY DEF IInv
    <2>3. Given(Append(packets, m), received, orderer.next)
      BY ONLY <1>0, <2>1, <2>2, GivenGrows, m \in [kind : {Resend, OrderResend}, order : Nat]
    <2> QED BY <1>0, <1>r, <2>3
  <1>7. Accounted'
    <2>1. /\ \A n \in ToSet(received) : n \in accepted
          /\ \A p \in Held(orderer) :
                p.data \in accepted /\ Strict(packets, p.data) /\ p.key = Order(packets, p.data)
          /\ \A n \in accepted :
                n \in ToSet(received) \/ (Strict(packets, n) /\ \E p \in Held(orderer) : p.data = n)
      BY DEF IInv, Accounted
    <2>2. \A n \in accepted : /\ Strict(packets', n) = Strict(packets, n)
                              /\ Order(packets', n) = Order(packets, n)
      BY <1>3 DEF IInv, Traffic, Strict, Order
    <2>3. /\ \A n \in ToSet(received) : n \in accepted
          /\ \A p \in Held(orderer) :
                p.data \in accepted /\ Strict(packets', p.data) /\ p.key = Order(packets', p.data)
          /\ \A n \in accepted :
                n \in ToSet(received) \/ (Strict(packets', n) /\ \E p \in Held(orderer) : p.data = n)
      BY ONLY <2>1, <2>2
    <2> QED BY <1>r, <2>3 DEF Accounted
  <1>8. ConfirmedArrived'
    <2>1. \A n \in Messages : resending[n + 1] = Confirmed => n \in accepted
      BY DEF IInv, ConfirmedArrived
    <2> QED BY <1>1, <1>2, <1>3, <1>r, <2>1 DEF ConfirmedArrived, Confirmed
  <1> QED BY <1>1, <1>2, <1>3, <1>4, <1>5, <1>6, <1>7, <1>8 DEF l

(* A frame 5 takes no order number. *)
LEMMA SendResendKeeps ==
    ASSUME NoWrap, IInv, SendResend
    PROVE  IInv'
  <1> DEFINE m == [kind |-> Resend, order |-> 0]
             l == Len(packets)
  <1>0. /\ m \in [kind : {Resend, OrderResend}, order : Nat] /\ Number(m)
        /\ UNCHANGED <<mirror, acks, receiverVars>> /\ nextOrder' = nextOrder /\ writers' = writers
        /\ l + Cardinality(writers) < MaxSent
    BY DEF SendResend, Room
  <1>1. /\ packets' \in Seq([kind : {Resend, OrderResend}, order : Nat])
        /\ Len(packets') = l + 1 /\ Messages' = Messages \cup {l}
        /\ \A n \in Messages : packets'[n + 1] = packets[n + 1]
        /\ packets'[l + 1] = m
        /\ Traffic' /\ Exact(window, accepted)' /\ Truthful' /\ Drained(orderer)'
        /\ Given(packets, received, orderer.next)' /\ Accounted' /\ ConfirmedArrived'
    BY ONLY <1>0, NumberKeeps, NoWrap, IInv
  <1>2. Sender'
    <2>1. /\ nextOrder \in Nat /\ writers \subseteq 0 .. nextOrder - 1
          /\ nextOrder <= l + Cardinality(writers)
          /\ l \in Nat /\ Cardinality(writers) \in Nat /\ MaxSent \in Nat
      BY Ranges, LinkAssumption DEF IInv, Sender
    <2>2. \A n \in Messages : IsOrderResend(n) =>
              /\ Packet(n).order < nextOrder /\ Packet(n).order \notin writers
              /\ \A k \in Messages : IsOrderResend(k) /\ Packet(k).order = Packet(n).order => k = n
      BY DEF IInv, Sender
    <2>3. /\ \A n \in Messages : Packet(n)' = Packet(n) /\ IsOrderResend(n)' = IsOrderResend(n)
          /\ \A n \in Messages' : n \notin Messages => ~IsOrderResend(n)'
      BY <1>1, LinkAssumption DEF Packet, IsOrderResend
    <2>4. \A n \in Messages' : IsOrderResend(n)' =>
              /\ Packet(n)'.order < nextOrder /\ Packet(n)'.order \notin writers
              /\ \A k \in Messages' : IsOrderResend(k)' /\ Packet(k)'.order = Packet(n)'.order => k = n
      BY <1>1, <2>2, <2>3
    <2>5. /\ l + 1 + Cardinality(writers) <= MaxSent
          /\ nextOrder <= l + 1 + Cardinality(writers)
      BY ONLY <1>0, <2>1
    <2> HIDE DEF l
    <2> QED BY <1>0, <1>1, <2>1, <2>4, <2>5 DEF Sender
  <1> QED BY <1>1, <1>2 DEF IInv

(* An order number is taken by one writer. *)
LEMMA TakeOrderKeeps ==
    ASSUME NoWrap, IInv, TakeOrder
    PROVE  IInv'
  <1>0. /\ writers' = writers \cup {nextOrder} /\ nextOrder' = nextOrder + 1
        /\ UNCHANGED <<packets, resending, mirror, data, acks, receiverVars>>
        /\ Len(packets) + Cardinality(writers) < MaxSent
    BY DEF TakeOrder, Room
  <1>1. Messages' = Messages /\ \A n : Packet(n)' = Packet(n) /\ IsOrderResend(n)' = IsOrderResend(n)
    BY <1>0 DEF Messages, Packet, IsOrderResend
  <1>2. Sender'
    <2>1. /\ nextOrder \in Nat /\ writers \subseteq 0 .. nextOrder - 1
          /\ nextOrder <= Len(packets) + Cardinality(writers) /\ IsFiniteSet(writers)
          /\ Len(packets) \in Nat /\ Cardinality(writers) \in Nat /\ MaxSent \in Nat
      BY Ranges, LinkAssumption DEF IInv, Sender
    <2>2. nextOrder \notin writers
      BY <2>1
    <2>3. Cardinality(writers') = Cardinality(writers) + 1
      BY ONLY <1>0, <2>1, <2>2, FS_AddElement
    <2>4. writers' \subseteq 0 .. nextOrder' - 1
      BY <1>0, <2>1
    <2>5. /\ Len(packets) + Cardinality(writers') <= MaxSent
          /\ nextOrder' <= Len(packets) + Cardinality(writers') /\ nextOrder' \in Nat
      BY ONLY <1>0, <2>1, <2>3
    <2>6. \A n \in Messages : IsOrderResend(n) =>
              /\ Packet(n).order < nextOrder' /\ Packet(n).order \notin writers'
              /\ \A k \in Messages : IsOrderResend(k) /\ Packet(k).order = Packet(n).order => k = n
      <3>1. \A n \in Messages : IsOrderResend(n) =>
              /\ Packet(n).order < nextOrder /\ Packet(n).order \notin writers
              /\ \A k \in Messages : IsOrderResend(k) /\ Packet(k).order = Packet(n).order => k = n
        BY DEF IInv, Sender
      <3>2. \A n \in Messages : Packet(n).order \in Nat
        BY Ranges
      <3> QED BY ONLY <1>0, <2>1, <3>1, <3>2
    <2>7. packets' = packets /\ packets \in Seq([kind : {Resend, OrderResend}, order : Nat])
      BY <1>0 DEF IInv, Sender
    <2> QED BY <1>1, <2>4, <2>5, <2>6, <2>7 DEF Sender
  <1>3. Traffic' /\ Truthful' /\ Accounted' /\ ConfirmedArrived'
    BY <1>0, <1>1 DEF IInv, Traffic, Truthful, Accounted, ConfirmedArrived, receiverVars
  <1>4. Exact(window, accepted)' /\ Drained(orderer)' /\ Given(packets, received, orderer.next)'
    BY <1>0 DEF IInv, receiverVars
  <1> QED BY <1>2, <1>3, <1>4 DEF IInv

(* Each order number goes to one message. *)
LEMMA SendOrderResendKeeps ==
    ASSUME NoWrap, IInv, NEW order \in writers, SendOrderResend(order)
    PROVE  IInv' /\ \A n \in Messages : IsOrderResend(n) => Packet(n).order # order
  <1> DEFINE m == [kind |-> OrderResend, order |-> order]
  <1>l. PICK l \in Nat : l = Len(packets)
    BY Ranges
  <1>w. order \in Nat /\ order < nextOrder
    BY DEF IInv, Sender
  <1>0. /\ m \in [kind : {Resend, OrderResend}, order : Nat] /\ Number(m)
        /\ UNCHANGED <<mirror, acks, receiverVars>> /\ nextOrder' = nextOrder
        /\ writers' = writers \ {order}
    BY <1>w DEF SendOrderResend
  <1>1. /\ packets' \in Seq([kind : {Resend, OrderResend}, order : Nat])
        /\ Len(packets') = l + 1 /\ Messages' = Messages \cup {l} /\ l \notin Messages
        /\ \A n \in Messages : packets'[n + 1] = packets[n + 1]
        /\ packets'[l + 1] = m
        /\ Traffic' /\ Exact(window, accepted)' /\ Truthful' /\ Drained(orderer)'
        /\ Given(packets, received, orderer.next)' /\ Accounted' /\ ConfirmedArrived'
    BY ONLY <1>0, <1>l, NumberKeeps, NoWrap, IInv
  <1>2. \A n \in Messages : IsOrderResend(n) =>
            /\ Packet(n).order < nextOrder /\ Packet(n).order \notin writers
            /\ \A k \in Messages : IsOrderResend(k) /\ Packet(k).order = Packet(n).order => k = n
    BY DEF IInv, Sender
  <1>3. Sender'
    <2>1. /\ nextOrder \in Nat /\ writers \subseteq 0 .. nextOrder - 1
          /\ nextOrder <= l + Cardinality(writers) /\ l + Cardinality(writers) <= MaxSent
          /\ l \in Nat /\ Cardinality(writers) \in Nat /\ MaxSent \in Nat /\ IsFiniteSet(writers)
      BY <1>l, Ranges, LinkAssumption DEF IInv, Sender
    <2>2. Cardinality(writers') = Cardinality(writers) - 1
      BY ONLY <1>0, <2>1, FS_RemoveElement, order \in writers
    <2>3. /\ \A n \in Messages : Packet(n)' = Packet(n) /\ IsOrderResend(n)' = IsOrderResend(n)
          /\ Packet(l)' = m /\ m.order = order
      <3>1. Packet(l)' = packets'[l + 1]
        BY DEF Packet
      <3> QED BY <1>1, <3>1 DEF Packet, IsOrderResend
    <2> HIDE DEF m
    <2>4. \A n \in Messages' : IsOrderResend(n)' =>
              /\ Packet(n)'.order < nextOrder /\ Packet(n)'.order \notin writers \ {order}
              /\ \A k \in Messages' : IsOrderResend(k)' /\ Packet(k)'.order = Packet(n)'.order => k = n
      BY ONLY <1>1, <1>2, <1>w, <2>3, order \in writers
    <2>5. /\ l + 1 + Cardinality(writers') <= MaxSent
          /\ nextOrder <= l + 1 + Cardinality(writers')
      BY ONLY <2>1, <2>2
    <2> QED BY <1>0, <1>1, <1>l, <2>1, <2>4, <2>5 DEF Sender
  <1> QED BY <1>1, <1>2, <1>3 DEF IInv

(* A message that was let through is new: its order number has not been given, and *)
(* no packet on the heap has it.                                                   *)
LEMMA NewIsAhead ==
    ASSUME NoWrap, IInv, NEW n \in Messages, n \notin accepted, IsOrderResend(n)
    PROVE  /\ Packet(n).order \in orderer.next .. HalfRange - 1
           /\ \A i \in DOMAIN orderer.heap : orderer.heap[i].key # Packet(n).order
  <1>1. \A m \in accepted : IsOrderResend(m) => Packet(m).order # Packet(n).order
    BY DEF IInv, Sender, Traffic
  <1>2. \A m : (Strict(packets, m) <=> IsOrderResend(m)) /\ Order(packets, m) = Packet(m).order
    BY DEF Strict, Order, IsOrderResend, Packet
  <1>3. Packet(n).order \in Nat /\ Packet(n).order < HalfRange
    <2>1. Packet(n).order < nextOrder
      BY DEF IInv, Sender
    <2> QED BY <2>1, Ranges
  <1>4. ~(Packet(n).order < orderer.next)
    <2> SUFFICES ASSUME Packet(n).order < orderer.next PROVE FALSE
      OBVIOUS
    <2>1. Packet(n).order \in 0 .. orderer.next - 1
      BY <1>3, GivenFacts
    <2>2. PICK i \in DOMAIN received :
             Strict(packets, received[i]) /\ Order(packets, received[i]) = Packet(n).order
      BY <2>1 DEF IInv, Given
    <2>3. received[i] \in accepted
      BY GivenFacts
    <2> QED BY <1>1, <1>2, <2>2, <2>3
  <1>5. ASSUME NEW i \in DOMAIN orderer.heap PROVE orderer.heap[i].key # Packet(n).order
    <2>1. orderer.heap[i] \in Held(orderer)
      BY DEF Held
    <2>2. /\ orderer.heap[i].data \in accepted /\ Strict(packets, orderer.heap[i].data)
          /\ orderer.heap[i].key = Order(packets, orderer.heap[i].data)
      BY <2>1 DEF IInv, Accounted
    <2> QED BY <1>1, <1>2, <2>2
  <1> QED BY <1>3, <1>4, <1>5, GivenFacts, Half

(* What the orderer hands out after a new ordered message continues what was given. *)
LEMMA HandedOn ==
    ASSUME NoWrap, IInv, NEW n \in Messages, n \notin accepted, IsOrderResend(n),
           NEW p \in Entries, p = [key |-> Packet(n).order, data |-> n],
           NEW r, r = Push(orderer, p, AllowInDump),
           NEW t, t = [i \in DOMAIN r.out |-> r.out[i].data],
           received' = received \o t, orderer' = r.orderer, accepted' = accepted \cup {n},
           packets' = packets
    PROVE  /\ t \in Seq(Nat) /\ Drained(orderer')
           /\ Given(packets, received', orderer'.next)
           /\ Accounted'
  <1> DEFINE e == orderer.next
             out == r.out
  <1>1. Drained(orderer) /\ Given(packets, received, e) /\ e \in Nat
    BY GivenFacts DEF IInv
  <1>2. /\ p.key \in e .. HalfRange - 1 /\ p.data = n
        /\ \A i \in DOMAIN orderer.heap : orderer.heap[i].key # p.key
    BY NewIsAhead
  <1>3. /\ Drained(orderer') /\ Run(out, e) /\ orderer'.next = e + Len(out)
        /\ Packets(out) \cup Held(orderer') = Held(orderer) \cup {p}
    BY ONLY <1>1, <1>2, PushRuns, p \in Entries, r = Push(orderer, p, AllowInDump), orderer' = r.orderer
       DEF e, out
  <1> HIDE DEF out, e
  <1>4. /\ out \in Seq(Entries) /\ \A i \in DOMAIN out : out[i].key = e + i - 1
        /\ t = [i \in DOMAIN out |-> out[i].data]
    BY <1>3 DEF Run, out
  <1>5. t \in Seq(Nat) /\ Len(t) = Len(out) /\ DOMAIN t = DOMAIN out /\ \A i \in DOMAIN t : t[i] = out[i].data
    <2>1. \A i \in DOMAIN out : out[i] \in Entries
      BY ONLY <1>4
    <2>2. \A i \in DOMAIN out : out[i].data \in Nat
      BY ONLY <2>1 DEF Entries
    <2> QED BY ONLY <1>4, <2>2
  <1>6. \A q \in Held(orderer) : /\ q.data \in accepted /\ Strict(packets, q.data)
                                 /\ q.key = Order(packets, q.data) /\ q.key > e /\ q.key \in Int
    <2>1. \A i \in DOMAIN orderer.heap : orderer.heap[i].key \in e + 1 .. HalfRange - 1
      BY <1>1 DEF Drained, e
    <2>2. \A i \in DOMAIN orderer.heap : orderer.heap[i].key > e /\ orderer.heap[i].key \in Int
      BY ONLY <1>1, <2>1, Half
    <2>3. \A q \in Held(orderer) : q.key > e /\ q.key \in Int
      BY ONLY <2>2 DEF Held
    <2>4. \A q \in Held(orderer) : /\ q.data \in accepted /\ Strict(packets, q.data)
                                   /\ q.key = Order(packets, q.data)
      BY DEF IInv, Accounted
    <2> QED BY <2>3, <2>4
  <1>7. Strict(packets, p.data) /\ p.key = Order(packets, p.data)
    BY <1>2 DEF Strict, Order, IsOrderResend, Packet
  <1>8. \A m \in ToSet(received) : m \in accepted
    BY DEF IInv, Accounted
  <1>9. \A q \in Held(orderer) : q.data \notin ToSet(received)
    <2>1. \A i \in DOMAIN received : Strict(packets, received[i]) => Order(packets, received[i]) < e
      BY <1>1 DEF Given
    <2>2. \A i \in DOMAIN received : Order(packets, received[i]) \in Nat
      BY GivenFacts DEF Numbered
    <2>3. \A m \in ToSet(received) : Strict(packets, m) => Order(packets, m) < e /\ Order(packets, m) \in Nat
      BY ONLY <2>1, <2>2 DEF ToSet
    <2> QED BY ONLY <1>1, <1>6, <2>3
  <1>10. ASSUME NEW q \in Packets(out) \cup Held(orderer')
         PROVE  /\ q.data \in accepted' /\ Strict(packets, q.data)
                /\ q.key = Order(packets, q.data) /\ q.data \notin ToSet(received)
    <2>1. q \in Held(orderer) \/ q = p
      BY ONLY <1>3, <1>10
    <2> QED BY ONLY <1>2, <1>6, <1>7, <1>8, <1>9, <2>1, n \notin accepted, accepted' = accepted \cup {n}
  <1>11. \A i \in DOMAIN t : /\ Strict(packets, t[i]) /\ Order(packets, t[i]) = e + i - 1
                             /\ t[i] \notin ToSet(received) /\ t[i] \in accepted'
    <2> TAKE i \in DOMAIN t
    <2>1. out[i] \in Packets(out) /\ t[i] = out[i].data /\ out[i].key = e + i - 1
      BY ONLY <1>4, <1>5, i \in DOMAIN t DEF Packets
    <2> QED BY ONLY <1>10, <2>1
  <1>12. Given(packets, received', orderer'.next)
    <2>1. Numbered(packets, received)
      BY GivenFacts
    <2>2. Given(packets, received \o t, e + Len(t))
      BY ONLY <1>1, <1>5, <1>11, <2>1, GivenRun
    <2> QED BY <1>3, <1>5, <2>2
  <1>13. ToSet(received') = ToSet(received) \cup ToSet(t)
    BY <1>5, GivenFacts, Concat
  <1>14. \A m \in ToSet(received') : m \in accepted'
    <2>1. \A m \in ToSet(t) : m \in accepted'
      BY ONLY <1>11 DEF ToSet
    <2> QED BY <1>8, <1>13, <2>1
  <1>15. \A q \in Packets(out) : q.data \in ToSet(t)
    BY ONLY <1>5 DEF Packets, ToSet
  <1>16. ASSUME NEW m \in accepted'
         PROVE  m \in ToSet(received') \/ (Strict(packets, m) /\ \E q \in Held(orderer') : q.data = m)
    <2>1. m \in ToSet(received) \/ \E q \in Held(orderer) \cup {p} : q.data = m
      BY <1>2, <1>16 DEF IInv, Accounted
    <2>2. m \in ToSet(received) \/ \E q \in Packets(out) \cup Held(orderer') : q.data = m
      BY ONLY <1>3, <2>1
    <2> QED BY ONLY <1>10, <1>13, <1>15, <2>2
  <1>17. Accounted'
    BY <1>10, <1>14, <1>16 DEF Accounted
  <1> QED BY <1>3, <1>5, <1>12, <1>17

(* A message that arrives is let through once, and given when it is its turn. *)
LEMMA ReceiveDataKeeps ==
    ASSUME NoWrap, IInv, NEW n \in data, ReceiveData(n)
    PROVE  /\ IInv'
           /\ n \in Messages
           /\ \/ accepted' = accepted /\ received' = received
              \/ /\ n \notin accepted /\ accepted' = accepted \cup {n}
                 /\ \E t \in Seq(Nat) : received' = received \o t
  <1> DEFINE ok == Accepts(window, Wrap(n))
  <1>n. n \in Messages /\ n \in Low /\ n \in Nat /\ Wrap(n) = n /\ Packet(n).order \in Nat
    <2>1. n \in Messages
      BY DEF IInv, Traffic
    <2> QED BY <2>1, Ranges, LowNumbers, Half DEF Low
  <1>0. /\ window' = AfterCheck(window, n) /\ accepted' = IF ok THEN accepted \cup {n} ELSE accepted
        /\ UNCHANGED <<packets, nextOrder, writers, resending, mirror, data, acks>>
        /\ ackDue' = {n}
    BY <1>n DEF ReceiveData, senderVars
  <1>1. ok => n \notin accepted
    BY <1>n, AcceptsNew, Ranges DEF IInv
  <1>2. Exact(window', accepted')
    <2>1. Exact(window, accepted) /\ accepted \in SUBSET Nat
      BY Ranges DEF IInv
    <2>2. Exact(AfterCheck(window, n), IF Accepts(window, n) THEN accepted \cup {n} ELSE accepted)
      BY ONLY <1>n, <2>1, CheckKeepsExact
    <2> QED BY <1>0, <1>n, <2>2
  <1> HIDE DEF ok
  <1>3. Messages' = Messages /\ \A m : Packet(m)' = Packet(m) /\ IsOrderResend(m)' = IsOrderResend(m)
    BY <1>0 DEF Messages, Packet, IsOrderResend
  <1>4. Sender'
    BY <1>0, <1>3 DEF IInv, Sender
  <1>5. Traffic'
    BY <1>0, <1>3, <1>n DEF IInv, Traffic
  <1>6. accepted \subseteq accepted'
    BY <1>0
  <1>7. Truthful'
    BY <1>0, <1>6 DEF IInv, Truthful, Claims
  <1>8. ConfirmedArrived'
    BY <1>0, <1>3, <1>6 DEF IInv, ConfirmedArrived
  <1>9. CASE ~ok
    <2>1. accepted' = accepted /\ received' = received /\ orderer' = orderer
      BY <1>9, <1>0 DEF ReceiveData, ok
    <2>2. Accounted' /\ Drained(orderer)' /\ Given(packets, received, orderer.next)'
      BY <1>0, <2>1 DEF IInv, Accounted
    <2> QED BY <1>0, <1>2, <1>4, <1>5, <1>7, <1>8, <1>n, <2>1, <2>2 DEF IInv
  <1>10. CASE ok /\ ~IsOrderResend(n)
    <2>1. /\ accepted' = accepted \cup {n} /\ received' = Append(received, n) /\ orderer' = orderer
          /\ n \notin accepted
      BY <1>0, <1>1, <1>10 DEF ReceiveData, IsOrderResend, ok
    <2>2. n \notin ToSet(received) /\ ~Strict(packets, n)
      BY <1>10, <2>1 DEF IInv, Accounted, Strict, IsOrderResend, Packet
    <2>3. Given(packets, received', orderer'.next)
      BY <1>n, <2>1, <2>2, GivenFacts, GivenOther DEF IInv
    <2>4. received' = received \o <<n>> /\ <<n>> \in Seq(Nat) /\ ToSet(<<n>>) = {n}
      <3>1. received \in Seq(Nat)
        BY GivenFacts
      <3>2. received' = received \o <<n>> /\ <<n>> \in Seq(Nat)
        BY ONLY <1>n, <2>1, <3>1
      <3>3. ToSet(<<n>>) = {n}
        BY DEF ToSet
      <3> QED BY <3>2, <3>3
    <2>5. ToSet(received') = ToSet(received) \cup {n}
      <3>1. received \in Seq(Nat)
        BY GivenFacts
      <3> QED BY ONLY <2>4, <3>1, Concat
    <2>6. Accounted'
      <3>1. /\ \A m \in ToSet(received) : m \in accepted
            /\ \A p \in Held(orderer) :
                p.data \in accepted /\ Strict(packets, p.data) /\ p.key = Order(packets, p.data)
            /\ \A m \in accepted :
                m \in ToSet(received) \/ (Strict(packets, m) /\ \E p \in Held(orderer) : p.data = m)
        BY DEF IInv, Accounted
      <3>2. /\ \A m \in ToSet(received') : m \in accepted'
            /\ \A p \in Held(orderer) :
                p.data \in accepted' /\ Strict(packets, p.data) /\ p.key = Order(packets, p.data)
            /\ \A m \in accepted' :
                m \in ToSet(received') \/ (Strict(packets, m) /\ \E p \in Held(orderer) : p.data = m)
        BY ONLY <2>1, <2>5, <3>1
      <3> QED BY <1>0, <2>1, <3>2 DEF Accounted
    <2>7. Given(packets, received, orderer.next)' /\ Drained(orderer)'
      BY <1>0, <2>1, <2>3 DEF IInv
    <2> QED BY <1>0, <1>2, <1>4, <1>5, <1>7, <1>8, <1>n, <2>1, <2>4, <2>6, <2>7 DEF IInv
  <1>11. CASE ok /\ IsOrderResend(n)
    <2> DEFINE p == [key |-> Packet(n).order, data |-> n]
               r == Push(orderer, p, AllowInDump)
               t == [i \in DOMAIN r.out |-> r.out[i].data]
    <2>1. n \notin accepted /\ accepted' = accepted \cup {n}
      BY <1>0, <1>1, <1>11
    <2>2. Packet(n).order \in Low /\ Wrap(Packet(n).order) = Packet(n).order /\ p \in Entries
      <3>1. Packet(n).order \in Low
        <4>1. Packet(n).order \in orderer.next .. HalfRange - 1
          BY <1>n, <1>11, <2>1, NewIsAhead
        <4> QED BY <4>1, GivenFacts, Half DEF Low
      <3> QED BY <1>n, <3>1, LowNumbers, Half DEF Low, Entries
    <2>3. /\ orderer' = r.orderer /\ received' = received \o t
      BY <1>11, <2>2 DEF ReceiveData, IsOrderResend, ok
    <2> HIDE DEF p, r, t
    <2>4. /\ t \in Seq(Nat) /\ Drained(orderer')
          /\ Given(packets, received', orderer'.next)
          /\ Accounted'
      BY <1>0, <1>n, <1>11, <2>1, <2>2, <2>3, HandedOn DEF p, r, t
    <2>5. Given(packets, received, orderer.next)' /\ Drained(orderer)'
      BY <1>0, <2>4
    <2>6. Exact(window, accepted)'
      BY <1>2
    <2> QED BY ONLY <1>4, <1>5, <1>7, <1>8, <1>n, <2>1, <2>3, <2>4, <2>5, <2>6 DEF IInv
  <1> QED BY <1>9, <1>10, <1>11

(* Every step keeps the invariant. *)
LEMMA NextIInv == NoWrap /\ IInv /\ [Next]_vars => IInv'
  <1> SUFFICES ASSUME NoWrap, IInv, [Next]_vars PROVE IInv'
    OBVIOUS
  <1>1. CASE SendResend
    BY <1>1, SendResendKeeps
  <1>2. CASE TakeOrder
    BY <1>2, TakeOrderKeeps
  <1>3. ASSUME NEW order \in writers, SendOrderResend(order) PROVE IInv'
    BY <1>3, SendOrderResendKeeps
  <1>4. ASSUME NEW n \in Messages, ResendTimer(n) PROVE IInv'
    BY <1>4, ResendTimerKeeps
  <1>5. ASSUME NEW ack \in acks, ReceiveAck(ack) PROVE IInv'
    BY <1>5, ReceiveAckKeeps
  <1>6. ASSUME NEW ack \in acks, LoseAck(ack) PROVE IInv'
    BY <1>6, LosingKeeps
  <1>7. ASSUME NEW n \in data, ReceiveData(n) PROVE IInv'
    BY <1>7, ReceiveDataKeeps
  <1>8. ASSUME NEW n \in data, LoseData(n) PROVE IInv'
    BY <1>8, LosingKeeps
  <1>9. CASE \/ \E n \in ackDue : RequestAck(n)
             \/ \E call \in retries : RetryAck(call)
             \/ \E index \in recent : Age(index)
             \/ Piggyback
    BY <1>9, ReportingKeeps
  <1>10. CASE UNCHANGED vars
    BY <1>10, LosingKeeps
  <1> QED BY <1>1, <1>2, <1>3, <1>4, <1>5, <1>6, <1>7, <1>8, <1>9, <1>10 DEF Next

(* The invariant holds in every state. *)
LEMMA Invariance == NoWrap => (Spec => []IInv)
  <1> SUFFICES ASSUME NoWrap PROVE Spec => []IInv
    OBVIOUS
  <1>1. Init => IInv
    BY InitIInv
  <1>2. IInv /\ [Next]_vars => IInv'
    BY NextIInv
  <1> QED BY <1>1, <1>2, PTL DEF Spec

-----------------------------------------------------------------------------
(* Types: the words a report is asked for are words of the window *)

(* One step of the recursion of a & b. *)
AndStep(f, a, b) == IF a = 0 \/ b = 0 THEN 0
                    ELSE 2 * f[a \div 2][b \div 2] + (a % 2) * (b % 2)

(* f is a & b on 0 .. n. *)
IsAnd(f, n) == \A a \in 0 .. n : \A b \in Numbers : f[a][b] = AndStep(f, a, b)

(* Half of a counter value. *)
LEMMA Halves ==
    ASSUME NEW a \in Nat
    PROVE  /\ a \div 2 \in Nat /\ a % 2 \in 0 .. 1 /\ a = 2 * (a \div 2) + (a % 2)
           /\ a # 0 => a \div 2 <= a - 1
           /\ a \in Numbers => a \div 2 \in Numbers
  <1>1. a \div 2 \in Nat /\ a % 2 \in 0 .. 1 /\ a = 2 * (a \div 2) + (a % 2)
    OBVIOUS
  <1>2. a \div 2 <= a /\ (a # 0 => a \div 2 <= a - 1)
    BY <1>1
  <1> QED BY <1>1, <1>2, ModulusAssumption DEF Numbers

(* The recursion has a solution: row by row. *)
LEMMA AndExists == \E f : IsAnd(f, Modulus - 1)
  <1> DEFINE S == {n \in Nat : \E f : IsAnd(f, n)}
             m == Modulus - 1
  <1>0. m \in Nat
    BY ModulusAssumption
  <1>1. \E f : IsAnd(f, 0)
    <2> DEFINE f == [a \in 0 .. 0 |-> [b \in Numbers |-> 0]]
    <2>1. \A a \in 0 .. 0 : \A b \in Numbers : f[a][b] = 0 /\ a = 0
      OBVIOUS
    <2> HIDE DEF f
    <2>2. IsAnd(f, 0)
      BY ONLY <2>1 DEF IsAnd, AndStep
    <2> QED BY <2>2
  <1>2. ASSUME NEW n \in Nat, NEW g, IsAnd(g, n) PROVE \E f : IsAnd(f, n + 1)
    <2> DEFINE f == [a \in 0 .. n + 1 |-> [b \in Numbers |->
                        IF a <= n THEN g[a][b] ELSE AndStep(g, a, b)]]
    <2>1. \A a \in 0 .. n : \A b \in Numbers : f[a][b] = g[a][b]
      OBVIOUS
    <2>2. \A b \in Numbers : f[n + 1][b] = AndStep(g, n + 1, b)
      OBVIOUS
    <2> HIDE DEF f
    <2>3. \A a \in 0 .. n + 1 : \A b \in Numbers : AndStep(f, a, b) = AndStep(g, a, b)
      <3> TAKE a \in 0 .. n + 1
      <3> TAKE b \in Numbers
      <3>1. a # 0 => a \div 2 \in 0 .. n
        <4>1. a \in Nat /\ a <= n + 1
          OBVIOUS
        <4>2. a \div 2 \in Nat /\ (a # 0 => a \div 2 <= a - 1)
          BY ONLY <4>1, Halves
        <4> QED BY ONLY <4>1, <4>2, n \in Nat
      <3>2. b \div 2 \in Numbers
        BY Halves, ModulusAssumption DEF Numbers
      <3> QED BY ONLY <2>1, <3>1, <3>2 DEF AndStep
    <2>4. \A a \in 0 .. n + 1 : a \in 0 .. n \/ a = n + 1
      OBVIOUS
    <2>5. \A a \in 0 .. n : \A b \in Numbers : g[a][b] = AndStep(g, a, b)
      BY <1>2 DEF IsAnd
    <2>6. IsAnd(f, n + 1)
      BY ONLY <2>1, <2>2, <2>3, <2>4, <2>5 DEF IsAnd
    <2> QED BY <2>6
  <1> HIDE DEF m
  <1>3. PICK k \in 0 .. m : (\A i \in 1 .. k : i \in S) /\ (k < m => k + 1 \notin S)
    <2> HIDE DEF S
    <2> QED BY ONLY <1>0, LongestPrefix, Zenon
  <1>4. k \in S
    <2>1. CASE k = 0
      BY <1>1, <2>1
    <2>2. CASE k # 0
      BY <1>0, <1>3, <2>2
    <2> QED BY <2>1, <2>2
  <1>5. k + 1 \in S
    BY <1>2, <1>4
  <1>6. k = m
    BY <1>0, <1>3, <1>5
  <1> QED BY <1>4, <1>6 DEF m

(* What BitAnd computes in one step. *)
LEMMA AndEquation == IsAnd(BitAnd, Modulus - 1)
  <1>1. PICK f : IsAnd(f, Modulus - 1)
    BY AndExists
  <1> DEFINE h == [a \in Numbers |-> [b \in Numbers |-> f[a][b]]]
             Solves(g) == g = [a \in Numbers |-> [b \in Numbers |->
                                  IF a = 0 \/ b = 0 THEN 0
                                  ELSE 2 * g[a \div 2][b \div 2] + (a % 2) * (b % 2)]]
  <1>2. \A a, b \in Numbers : h[a][b] = f[a][b]
    OBVIOUS
  <1>3. \A a, b \in Numbers : AndStep(h, a, b) = f[a][b]
    <2> HIDE DEF h
    <2> TAKE a, b \in Numbers
    <2>1. a \div 2 \in Numbers /\ b \div 2 \in Numbers
      BY Halves, ModulusAssumption DEF Numbers
    <2>2. f[a][b] = AndStep(f, a, b)
      BY <1>1 DEF IsAnd, Numbers
    <2>3. AndStep(f, a, b) = AndStep(h, a, b)
      BY ONLY <1>2, <2>1 DEF AndStep
    <2> QED BY ONLY <2>2, <2>3
  <1>4. \E g : Solves(g)
    <2>1. h = [a \in Numbers |-> [b \in Numbers |-> AndStep(h, a, b)]]
      <3> DEFINE Cell(a, b) == AndStep(h, a, b)
      <3>1. \A a, b \in Numbers : Cell(a, b) = f[a][b]
        BY <1>3
      <3> HIDE DEF Cell
      <3>2. \A a \in Numbers : [b \in Numbers |-> Cell(a, b)] = [b \in Numbers |-> f[a][b]]
        BY ONLY <3>1
      <3>3. h = [a \in Numbers |-> [b \in Numbers |-> Cell(a, b)]]
        BY ONLY <3>2 DEF h
      <3> QED BY <3>3 DEF Cell
    <2> HIDE DEF h
    <2>2. Solves(h)
      BY <2>1, Zenon DEF AndStep
    <2> HIDE DEF Solves
    <2> QED BY <2>2
  <1>5. Solves(BitAnd)
    BY ONLY <1>4, Zenon DEF BitAnd, Solves
  <1>6. \A a, b \in Numbers : BitAnd[a][b] = AndStep(BitAnd, a, b)
    BY ONLY <1>5 DEF Solves, AndStep
  <1> QED BY <1>6 DEF IsAnd, Numbers

(* A masked number is not above the mask. *)
LEMMA AndBound ==
    ASSUME NEW x \in Numbers, NEW mask \in Numbers
    PROVE  BitAnd[x][mask] \in 0 .. mask
  <1> DEFINE m == Modulus - 1
             P(n) == \A a \in 0 .. n : \A b \in Numbers : BitAnd[a][b] \in 0 .. b
             S == {n \in Nat : P(n)}
  <1>0. m \in Nat /\ Numbers = 0 .. m
    BY ModulusAssumption DEF Numbers
  <1>1. \A a, b \in Numbers : BitAnd[a][b] = AndStep(BitAnd, a, b)
    BY AndEquation, <1>0 DEF IsAnd, m
  <1>2. P(0)
    <2>1. 0 \in Numbers
      BY <1>0
    <2>2. \A b \in Numbers : BitAnd[0][b] = 0 /\ b \in Nat
      BY <1>0, <1>1, <2>1 DEF AndStep
    <2>3. \A a \in 0 .. 0 : a = 0
      OBVIOUS
    <2>4. \A b \in Numbers : 0 \in 0 .. b
      BY <2>2
    <2> QED BY ONLY <2>2, <2>3, <2>4 DEF P
  <1>3. ASSUME NEW n \in Nat, P(n), n < m PROVE P(n + 1)
    <2> SUFFICES ASSUME NEW a \in 0 .. n + 1, NEW b \in Numbers PROVE BitAnd[a][b] \in 0 .. b
      OBVIOUS
    <2>0. a \in Nat /\ b \in Nat /\ a \in Numbers
      BY <1>0, <1>3
    <2>1. BitAnd[a][b] = AndStep(BitAnd, a, b)
      BY ONLY <1>1, <2>0, b \in Numbers
    <2>2. CASE a = 0 \/ b = 0
      <3>1. BitAnd[a][b] = 0
        BY ONLY <2>1, <2>2 DEF AndStep
      <3> QED BY ONLY <2>0, <3>1
    <2>3. CASE ~(a = 0 \/ b = 0)
      <3>1. /\ a \div 2 \in 0 .. n /\ b \div 2 \in Numbers /\ b \div 2 \in Nat
            /\ a % 2 \in 0 .. 1 /\ b % 2 \in 0 .. 1 /\ b = 2 * (b \div 2) + (b % 2)
        <4>1. /\ a \div 2 \in Nat /\ a % 2 \in 0 .. 1 /\ a \div 2 <= a - 1
          BY ONLY <2>0, <2>3, Halves
        <4>2. /\ b \div 2 \in Nat /\ b % 2 \in 0 .. 1 /\ b = 2 * (b \div 2) + (b % 2)
              /\ b \div 2 \in Numbers
          BY ONLY <2>0, Halves, b \in Numbers
        <4>3. a <= n + 1
          OBVIOUS
        <4> QED BY ONLY <2>0, <4>1, <4>2, <4>3, n \in Nat
      <3> DEFINE y == BitAnd[a \div 2][b \div 2]
                 c == b \div 2
                 d == b % 2
                 r == (a % 2) * (b % 2)
      <3>2. y \in 0 .. c
        BY ONLY <1>3, <3>1 DEF P, y, c
      <3>3. r \in Nat /\ r <= d
        <4>1. a % 2 = 0 \/ a % 2 = 1
          BY ONLY <3>1
        <4>2. CASE a % 2 = 0
          BY ONLY <3>1, <4>2 DEF r, d
        <4>3. CASE a % 2 = 1
          BY ONLY <3>1, <4>3 DEF r, d
        <4> QED BY <4>1, <4>2, <4>3
      <3>4. BitAnd[a][b] = 2 * y + r
        BY ONLY <2>1, <2>3 DEF AndStep, y, r
      <3>5. c \in Nat /\ d \in Nat /\ b = 2 * c + d
        BY ONLY <3>1 DEF c, d
      <3> HIDE DEF y, c, d, r
      <3> QED BY ONLY <3>2, <3>3, <3>4, <3>5
    <2> QED BY <2>2, <2>3
  <1> HIDE DEF m, P
  <1>4. PICK k \in 0 .. m : (\A i \in 1 .. k : i \in S) /\ (k < m => k + 1 \notin S)
    <2> HIDE DEF S
    <2> QED BY ONLY <1>0, LongestPrefix, Zenon
  <1>5. k \in Nat /\ P(k)
    <2>1. CASE k = 0
      BY <1>2, <2>1
    <2>2. CASE k # 0
      BY <1>0, <1>4, <2>2
    <2> QED BY <2>1, <2>2
  <1>6. k = m
    <2> SUFFICES ASSUME k < m PROVE FALSE
      BY <1>0
    <2>1. P(k + 1) /\ k + 1 \in Nat
      BY <1>3, <1>5
    <2> QED BY <1>4, <2>1
  <1> QED BY <1>0, <1>5, <1>6 DEF P

(* handleACKSend asks for a word the window has: its index into                 *)
(* lastACKTimestampsUnixNano is never out of range.                             *)
LEMMA IndexInWindow ==
    ASSUME NEW n \in Int, window.right \in Numbers
    PROVE  WordIndex(n) \in Words
  <1> DEFINE x == BitAnd[Jump(Wrap(n), window.right)][Size - 1]
             q == x \div WordBits
  <1>1. Jump(Wrap(n), window.right) \in Numbers
    BY WrapType, ModulusAssumption DEF Jump, Numbers
  <1>2. Size - 1 \in Numbers
    BY SizeFacts, ModulusAssumption DEF Numbers
  <1>3. x \in 0 .. Size - 1
    BY ONLY <1>1, <1>2, AndBound DEF x
  <1> HIDE DEF x
  <1>4. WordBits \in Nat /\ WordBits > 0 /\ WordCount \in Nat /\ WordCount > 0 /\ Size = WordBits * WordCount
    BY WindowAssumption DEF Size
  <1>5. x \in Nat /\ x < Size
    BY <1>3, SizeFacts
  <1>6. q \in Nat /\ WordBits * q <= x
    BY ONLY <1>4, <1>5
  <1> HIDE DEF q
  <1>7. q < WordCount
    <2> SUFFICES ASSUME q >= WordCount PROVE FALSE
      BY <1>4, <1>6
    <2>1. PICK d \in Nat : q = WordCount + d
      <3>1. q - WordCount \in Nat /\ q = WordCount + (q - WordCount)
        BY <1>4, <1>6
      <3> QED BY <3>1
    <2>2. WordBits * q = WordBits * WordCount + WordBits * d
      BY ONLY <1>4, <2>1
    <2>3. WordBits * d >= 0 /\ WordBits * d \in Int /\ WordBits * WordCount \in Int /\ WordBits * q \in Int
      BY ONLY <1>4, <1>6, <2>1
    <2> QED BY ONLY <1>4, <1>5, <1>6, <2>2, <2>3
  <1>8. q \in 0 .. WordCount - 1
    BY ONLY <1>4, <1>6, <1>7
  <1> QED BY <1>8 DEF WordIndex, Words, q, x

(* What the types say beyond the invariant: of order numbers, reports, stamps and *)
(* delayed calls.                                                                *)
Bounded ==
    /\ \A n \in Messages : Packet(n).order <= MaxSent
    /\ acks \subseteq Reports /\ IsFiniteSet(acks) /\ Cardinality(acks) <= MaxAcks
    /\ recent \subseteq Words
    /\ retries \subseteq [n : Messages, fresh : SUBSET Words]

(* A report of words the window has. *)
LEMMA ReportType ==
    ASSUME IInv, NEW word \in Words
    PROVE  GetWindowData(window, word + 1) \in Reports
  <1>1. window.right \in Numbers /\ window.bits \subseteq Distances
    BY DEF IInv, Exact, Windows
  <1>2. word + 1 \in 1 .. WordCount
    BY WindowAssumption DEF Words
  <1>3. window.bits \cap (0 .. (word + 1) * WordBits - 1) \in SUBSET Distances
    BY <1>1
  <1> QED BY ONLY <1>1, <1>2, <1>3 DEF GetWindowData, Reports

(* The network holds at most MaxAcks reports. *)
LEMMA TransmitBounded ==
    ASSUME IsFiniteSet(acks), Cardinality(acks) <= MaxAcks, NEW ack, Transmit(ack)
    PROVE  IsFiniteSet(acks') /\ Cardinality(acks') <= MaxAcks
  <1>0. /\ IsFiniteSet(acks \cup {ack}) /\ MaxAcks \in Nat /\ Cardinality(acks) \in Nat
        /\ Cardinality(acks \cup {ack}) = IF ack \in acks THEN Cardinality(acks) ELSE Cardinality(acks) + 1
    BY FS_AddElement, FS_CardinalityType, LinkAssumption
  <1>1. CASE Cardinality(acks \cup {ack}) <= MaxAcks /\ acks' = acks \cup {ack}
    BY <1>0, <1>1
  <1>2. ASSUME NEW lost \in acks, acks' = (acks \ {lost}) \cup {ack}
        PROVE  IsFiniteSet(acks') /\ Cardinality(acks') <= MaxAcks
    <2>1. IsFiniteSet(acks \ {lost}) /\ Cardinality(acks \ {lost}) = Cardinality(acks) - 1
      BY FS_RemoveElement
    <2> DEFINE rest == acks \ {lost}
    <2> HIDE DEF rest
    <2>2. IsFiniteSet(rest) /\ Cardinality(rest) \in Nat
      BY <2>1, FS_CardinalityType DEF rest
    <2>3. /\ IsFiniteSet(rest \cup {ack})
          /\ Cardinality(rest \cup {ack}) =
                IF ack \in rest THEN Cardinality(rest) ELSE Cardinality(rest) + 1
      BY ONLY <2>2, FS_AddElement
    <2>4. acks' = rest \cup {ack} /\ Cardinality(rest) = Cardinality(acks) - 1
      BY <1>2, <2>1 DEF rest
    <2> QED BY ONLY <1>0, <2>2, <2>3, <2>4, Cardinality(acks) <= MaxAcks
  <1> QED BY <1>1, <1>2 DEF Transmit

(* Sending a report keeps the types. *)
LEMMA SendAckBounded ==
    ASSUME IInv, Bounded, NEW word \in Words, NEW pending, pending \subseteq retries,
           Transmit(GetWindowData(window, word + 1)),
           Stamp({WordCount - 1 - i : i \in 0 .. word}, pending)
    PROVE  /\ acks' \subseteq Reports /\ IsFiniteSet(acks') /\ Cardinality(acks') <= MaxAcks
           /\ recent' \subseteq Words
           /\ retries' \subseteq [n : Messages, fresh : SUBSET Words]
  <1> DEFINE stamped == {WordCount - 1 - i : i \in 0 .. word}
  <1>1. stamped \subseteq Words
    BY WindowAssumption DEF Words
  <1> HIDE DEF stamped
  <1>2. acks' \subseteq Reports
    BY ReportType, TransmitAdds DEF Bounded
  <1>3. IsFiniteSet(acks') /\ Cardinality(acks') <= MaxAcks
    BY TransmitBounded DEF Bounded
  <1>4. recent' \subseteq Words
    BY <1>1 DEF Stamp, Bounded, stamped
  <1>5. ASSUME NEW call \in pending
        PROVE  [call EXCEPT !.fresh = @ \cup stamped] \in [n : Messages, fresh : SUBSET Words]
    <2>1. call \in [n : Messages, fresh : SUBSET Words]
      BY DEF Bounded
    <2> QED BY <1>1, <2>1
  <1>6. retries' = {[call EXCEPT !.fresh = @ \cup stamped] : call \in pending}
    BY DEF Stamp, stamped
  <1> QED BY <1>2, <1>3, <1>4, <1>5, <1>6

(* Every step keeps the types. *)
LEMMA NextBounded == NoWrap /\ IInv /\ Bounded /\ [Next]_vars => Bounded'
  <1> SUFFICES ASSUME NoWrap, IInv, Bounded, [Next]_vars PROVE Bounded'
    OBVIOUS
  <1>w. window.right \in Numbers
    BY DEF IInv, Exact, Windows
  <1>1. ASSUME packets' = packets, acks' \subseteq acks, recent' \subseteq recent, retries' \subseteq retries
        PROVE  Bounded'
    <2>1. Messages' = Messages /\ \A n : Packet(n)' = Packet(n)
      BY <1>1 DEF Messages, Packet
    <2>2. IsFiniteSet(acks') /\ Cardinality(acks') <= Cardinality(acks)
      BY <1>1, FS_Subset DEF Bounded
    <2>3. Cardinality(acks') \in Nat /\ Cardinality(acks) \in Nat /\ MaxAcks \in Nat
      BY <2>2, FS_CardinalityType, LinkAssumption DEF Bounded
    <2> QED BY <1>1, <2>1, <2>2, <2>3 DEF Bounded
  <1>2. ASSUME NEW m \in [kind : {Resend, OrderResend}, order : Nat], Number(m), m.order <= MaxSent,
               UNCHANGED <<mirror, acks, receiverVars>>
        PROVE  Bounded'
    <2>1. PICK l \in Nat : l = Len(packets)
      BY Ranges
    <2>2. /\ Messages' = Messages \cup {l}
          /\ \A n \in Messages : packets'[n + 1] = packets[n + 1]
          /\ packets'[l + 1] = m
      BY <1>2, <2>1, NumberKeeps
    <2>3. \A n \in Messages' : Packet(n)'.order <= MaxSent
      <3>1. \A n \in Messages : Packet(n)' = Packet(n)
        BY <2>2 DEF Packet
      <3>2. Packet(l)' = m
        BY <2>2 DEF Packet
      <3> QED BY <1>2, <2>2, <3>1, <3>2 DEF Bounded
    <2>4. retries' \subseteq [n : Messages', fresh : SUBSET Words]
      <3>1. \A call \in retries : call \in [n : Messages, fresh : SUBSET Words]
        BY DEF Bounded
      <3>2. [n : Messages, fresh : SUBSET Words] \subseteq [n : Messages', fresh : SUBSET Words]
        BY <2>2
      <3>3. retries' = retries
        BY <1>2 DEF receiverVars
      <3> QED BY ONLY <3>1, <3>2, <3>3
    <2> QED BY <1>2, <2>3, <2>4 DEF Bounded, receiverVars
  <1>3. ASSUME packets' = packets,
               /\ acks' \subseteq Reports /\ IsFiniteSet(acks') /\ Cardinality(acks') <= MaxAcks
               /\ recent' \subseteq Words
               /\ retries' \subseteq [n : Messages, fresh : SUBSET Words]
        PROVE  Bounded'
    <2>1. Messages' = Messages /\ \A n : Packet(n)' = Packet(n)
      BY <1>3 DEF Messages, Packet
    <2> QED BY <1>3, <2>1 DEF Bounded
  <1>4. CASE SendResend
    <2> DEFINE m == [kind |-> Resend, order |-> 0]
    <2>1. m \in [kind : {Resend, OrderResend}, order : Nat] /\ m.order = 0
      OBVIOUS
    <2>2. Number(m) /\ UNCHANGED <<mirror, acks, receiverVars>>
      BY <1>4 DEF SendResend
    <2> QED BY <1>2, <2>1, <2>2, LinkAssumption
  <1>5. ASSUME NEW order \in writers, SendOrderResend(order) PROVE Bounded'
    <2> DEFINE m == [kind |-> OrderResend, order |-> order]
    <2>1. order \in Nat /\ order <= MaxSent
      <3>1. /\ order \in Nat /\ order < nextOrder
            /\ nextOrder <= Len(packets) + Cardinality(writers)
            /\ Len(packets) + Cardinality(writers) <= MaxSent
        BY DEF IInv, Sender
      <3> QED BY <3>1, Ranges, LinkAssumption
    <2>2. m \in [kind : {Resend, OrderResend}, order : Nat] /\ m.order = order
      BY <2>1
    <2>3. Number(m) /\ UNCHANGED <<mirror, acks, receiverVars>>
      BY <1>5 DEF SendOrderResend
    <2> QED BY <1>2, <2>1, <2>2, <2>3
  <1>6. CASE \/ TakeOrder
             \/ \E n \in Messages : ResendTimer(n)
             \/ \E ack \in acks : ReceiveAck(ack) \/ LoseAck(ack)
             \/ \E n \in data : ReceiveData(n) \/ LoseData(n)
             \/ \E index \in recent : Age(index)
             \/ UNCHANGED vars
    <2>1. packets' = packets /\ acks' \subseteq acks /\ recent' \subseteq recent /\ retries' \subseteq retries
      BY <1>6 DEF TakeOrder, ResendTimer, ReceiveAck, LoseAck, ReceiveData, LoseData, Age,
                  vars, senderVars, receiverVars
    <2> QED BY <1>1, <2>1
  <1>7. ASSUME NEW n \in ackDue, RequestAck(n) PROVE Bounded'
    <2>0. n \in Messages /\ n \in Int
      BY Ranges DEF IInv, Traffic
    <2>1. packets' = packets /\ WordIndex(n) \in Words
      BY <1>7, <1>w, <2>0, IndexInWindow DEF RequestAck, senderVars
    <2>2. CASE SendAck(WordIndex(n), retries)
      BY <1>3, <2>1, <2>2, SendAckBounded DEF SendAck
    <2>3. CASE retries' = retries \cup {[n |-> n, fresh |-> {}]} /\ UNCHANGED <<acks, recent>>
      <3>1. [n |-> n, fresh |-> {}] \in [n : Messages, fresh : SUBSET Words]
        BY <2>0
      <3>2. retries' \subseteq [n : Messages, fresh : SUBSET Words]
        BY <2>3, <3>1 DEF Bounded
      <3> QED BY <1>3, <2>1, <2>3, <3>2 DEF Bounded
    <2> QED BY <1>7, <2>2, <2>3 DEF RequestAck
  <1>8. ASSUME NEW call \in retries, RetryAck(call) PROVE Bounded'
    <2>0. call.n \in Messages /\ call.n \in Int
      <3>1. call \in [n : Messages, fresh : SUBSET Words]
        BY DEF Bounded
      <3> QED BY <3>1, Ranges
    <2>1. packets' = packets /\ WordIndex(call.n) \in Words
      BY <1>8, <1>w, <2>0, IndexInWindow DEF RetryAck, senderVars
    <2>2. CASE SendAck(WordIndex(call.n), retries \ {call})
      BY <1>3, <2>1, <2>2, SendAckBounded DEF SendAck
    <2>3. CASE retries' = retries \ {call} /\ UNCHANGED <<acks, recent>>
      BY <1>1, <2>1, <2>3
    <2> QED BY <1>8, <2>2, <2>3 DEF RetryAck
  <1>9. CASE Piggyback
    <2>1. 0 \in Words /\ {WordCount - 1 - i : i \in 0 .. 0} = {WordCount - 1} /\ 0 + 1 = 1
      <3>1. WordCount \in Nat /\ WordCount > 0
        BY WindowAssumption
      <3>2. \A i \in 0 .. 0 : WordCount - 1 - i = WordCount - 1
        BY <3>1
      <3>3. 0 \in 0 .. 0
        OBVIOUS
      <3>4. {WordCount - 1 - i : i \in 0 .. 0} = {WordCount - 1}
        BY ONLY <3>2, <3>3
      <3> QED BY <3>1, <3>4 DEF Words
    <2>2. /\ Transmit(GetWindowData(window, 0 + 1))
          /\ Stamp({WordCount - 1 - i : i \in 0 .. 0}, retries) /\ packets' = packets
      BY <1>9, <2>1 DEF Piggyback, senderVars
    <2> QED BY <1>3, <2>1, <2>2, SendAckBounded
  <1> QED BY <1>4, <1>5, <1>6, <1>7, <1>8, <1>9 DEF Next

-----------------------------------------------------------------------------
(* What the stabilizer promises for frames 5 and 8 *)

(* Types, with two things a unit test would not reach: the word a report is asked    *)
(* for is one lastACKTimestampsUnixNano has an entry for, and what is in flight and  *)
(* on the heap stays about messages that were sent.                                  *)
THEOREM LinkTypeCorrect == NoWrap => (Spec => []TypeOK)
  <1> SUFFICES ASSUME NoWrap PROVE Spec => []TypeOK
    OBVIOUS
  <1>1. Init => Bounded
    <2> SUFFICES ASSUME Init PROVE Bounded
      OBVIOUS
    <2>1. acks = {} /\ recent = {} /\ retries = {} /\ Messages = {}
      BY DEF Init, Messages
    <2> QED BY <2>1, FS_EmptySet, LinkAssumption DEF Bounded
  <1>2. IInv /\ Bounded /\ [Next]_vars => Bounded'
    BY NextBounded
  <1>3. ASSUME IInv, Bounded PROVE TypeOK
    <2>1. packets \in Seq([kind : {Resend, OrderResend}, order : 0 .. MaxSent])
      <3> DEFINE R == [kind : {Resend, OrderResend}, order : Nat]
                 Q == [kind : {Resend, OrderResend}, order : 0 .. MaxSent]
      <3>1. packets \in Seq(R)
        BY <1>3 DEF IInv, Sender
      <3>2. \A i \in DOMAIN packets : packets[i] \in R
        <4> HIDE DEF R
        <4> QED BY ONLY <3>1
      <3>3. \A i \in DOMAIN packets : packets[i].order <= MaxSent
        <4> TAKE i \in DOMAIN packets
        <4>1. i - 1 \in Messages /\ (i - 1) + 1 = i
          BY <1>3, Ranges
        <4>2. Packet(i - 1).order <= MaxSent
          BY <1>3, <4>1 DEF Bounded
        <4> QED BY <4>1, <4>2 DEF Packet
      <3>4. \A i \in DOMAIN packets : packets[i] \in Q
        <4> TAKE i \in DOMAIN packets
        <4>1. packets[i] \in R /\ packets[i].order <= MaxSent /\ MaxSent \in Nat
          BY <3>2, <3>3, LinkAssumption
        <4> QED BY ONLY <4>1
      <3> HIDE DEF R, Q
      <3>5. packets \in Seq(Q)
        BY ONLY <3>1, <3>4
      <3> QED BY <3>5 DEF Q
    <2>2. nextOrder \in 0 .. MaxSent /\ writers \subseteq 0 .. MaxSent - 1
      <3>1. /\ nextOrder \in Nat /\ writers \subseteq 0 .. nextOrder - 1
            /\ nextOrder <= Len(packets) + Cardinality(writers)
            /\ Len(packets) + Cardinality(writers) <= MaxSent
        BY <1>3 DEF IInv, Sender
      <3>2. nextOrder <= MaxSent /\ MaxSent \in Nat
        BY <1>3, <3>1, Ranges, LinkAssumption
      <3> QED BY ONLY <3>1, <3>2
    <2>3. {mirror, window} \subseteq Windows
      BY <1>3 DEF IInv, Exact, Truthful
    <2>4. received \in Seq(Messages)
      <3>1. received \in Seq(Nat) /\ \A i \in DOMAIN received : received[i] \in Messages
        BY <1>3, GivenFacts
      <3> QED BY ONLY <3>1
    <2> QED BY <1>3, <2>1, <2>2, <2>3, <2>4 DEF IInv, Traffic, Bounded, TypeOK
  <1> QED BY <1>1, <1>2, <1>3, Invariance, PTL DEF Spec

(* resendWrite stops as confirmed only for a message ApplyWindowCheck let through:   *)
(* reports lost, repeated, overtaken or cut to a part of the window never make the   *)
(* sender forget a message the receiver does not have.                               *)
THEOREM ConfirmedHasArrived == NoWrap => (Spec => []ConfirmedArrived)
  <1> SUFFICES ASSUME NoWrap PROVE Spec => []ConfirmedArrived
    OBVIOUS
  <1>1. IInv => ConfirmedArrived
    BY DEF IInv
  <1> QED BY <1>1, Invariance, PTL

(* ordererPrecise keeps back a message only while one with a lower order number is   *)
(* missing: what HandleRead has is in readFunc's hands as early as strict order lets. *)
THEOREM WithholdsNothing == NoWrap => (Spec => []NothingWithheld)
  <1> SUFFICES ASSUME NoWrap PROVE Spec => []NothingWithheld
    OBVIOUS
  <1>1. ASSUME IInv PROVE NothingWithheld
    <2> SUFFICES ASSUME NEW n \in accepted,
                        IsOrderResend(n) => \A k \in 0 .. Packet(n).order - 1 :
                              \E m \in accepted : IsOrderResend(m) /\ Packet(m).order = k,
                        n \notin ToSet(received)
                 PROVE  FALSE
      BY DEF NothingWithheld
    <2>1. \A m : (Strict(packets, m) <=> IsOrderResend(m)) /\ Order(packets, m) = Packet(m).order
      BY DEF Strict, Order, IsOrderResend, Packet
    <2>2. PICK p \in Held(orderer) : p.data = n /\ IsOrderResend(n) /\ p.key = Packet(n).order
      BY <1>1, <2>1 DEF IInv, Accounted
    <2>3. \A q \in Held(orderer) : q.key > orderer.next
      <3>1. \A i \in DOMAIN orderer.heap : orderer.heap[i].key \in orderer.next + 1 .. HalfRange - 1
        BY <1>1 DEF IInv, Drained
      <3>2. \A i \in DOMAIN orderer.heap : orderer.heap[i].key > orderer.next
        BY <1>1, <3>1, GivenFacts, Half
      <3> QED BY <3>2 DEF Held
    <2>4. orderer.next \in 0 .. Packet(n).order - 1
      <3>1. n \in Messages
        BY <1>1 DEF IInv, Traffic
      <3>2. Packet(n).order \in Nat /\ Packet(n).order > orderer.next /\ orderer.next \in Nat
        BY <1>1, <2>2, <2>3, <3>1, Ranges, GivenFacts
      <3> QED BY <3>2
    <2>5. PICK m \in accepted : IsOrderResend(m) /\ Packet(m).order = orderer.next
      BY <2>2, <2>4
    <2>6. m \notin ToSet(received)
      <3>1. \A i \in DOMAIN received : Strict(packets, received[i]) => Order(packets, received[i]) < orderer.next
        BY <1>1 DEF IInv, Given
      <3>2. \A i \in DOMAIN received : received[i] # m
        BY <1>1, <2>1, <2>5, <3>1, GivenFacts
      <3> QED BY <3>2 DEF ToSet
    <2>7. PICK q \in Held(orderer) : q.data = m /\ q.key = Order(packets, m)
      BY <1>1, <2>6 DEF IInv, Accounted
    <2>8. q.key = orderer.next /\ q.key > orderer.next
      BY <2>1, <2>3, <2>5, <2>7
    <2> QED BY <1>1, <2>8, GivenFacts
  <1> QED BY <1>1, Invariance, PTL

-----------------------------------------------------------------------------
(* The link implements the channel *)

ConfirmedMessages == {n \in Messages : resending[n + 1] = Confirmed}

(* What readFunc was given is something an application may have been given. *)
LEMMA GivenIsLegal ==
    ASSUME NEW messages, NEW s, NEW e \in Nat, NEW present, Given(messages, s, e), Numbered(messages, s),
           ToSet(s) \subseteq present
    PROVE  Channel!Legal(messages, present, s)
  <1>1. \A i \in DOMAIN s : Channel!IsOrdered(messages, s[i]) <=> Strict(messages, s[i])
    BY DEF Channel!IsOrdered, Strict
  <1>2. ASSUME NEW i \in DOMAIN s, Strict(messages, s[i])
        PROVE  Channel!OrdersBefore(messages, s, i) = 0 .. messages[s[i] + 1].order - 1
    <2>0. s \in Seq(Nat) /\ i \in Nat /\ \A j \in 1 .. i - 1 : j \in DOMAIN s
      BY DEF Given
    <2>1. Channel!OrdersBefore(messages, s, i) =
             {Order(messages, s[j]) : j \in {k \in 1 .. i - 1 : Strict(messages, s[k])}}
      BY DEF Channel!OrdersBefore, Channel!IsOrdered, Strict, Order
    <2>2. /\ \A j \in 1 .. i - 1 : Strict(messages, s[j]) => Order(messages, s[j]) < Order(messages, s[i])
          /\ \A k \in 0 .. Order(messages, s[i]) - 1 :
                \E j \in 1 .. i - 1 : Strict(messages, s[j]) /\ Order(messages, s[j]) = k
      BY <1>2 DEF Given
    <2>3. Order(messages, s[i]) \in Nat /\ \A j \in 1 .. i - 1 : Order(messages, s[j]) \in Nat
      BY <2>0 DEF Numbered
    <2>4. {Order(messages, s[j]) : j \in {k \in 1 .. i - 1 : Strict(messages, s[k])}}
             = 0 .. Order(messages, s[i]) - 1
      BY ONLY <2>2, <2>3
    <2> QED BY <2>1, <2>4 DEF Order
  <1>3. IsInjective(s)
    BY DEF Given
  <1> QED BY <1>1, <1>2, <1>3 DEF Channel!Legal, Channel!IsInjective, Channel!ToSet, IsInjective, ToSet

(* A sequence is a prefix of every extension. *)
LEMMA Extends ==
    ASSUME NEW T, NEW s \in Seq(T), NEW t \in Seq(T), Len(s) <= Len(t),
           \A i \in 1 .. Len(s) : t[i] = s[i]
    PROVE  Channel!IsPrefix(s, t)
  <1>1. Len(s) \in 0 .. Len(s) /\ Len(s) \in 0 .. Len(t)
    OBVIOUS
  <1> DEFINE a == SubSeq(s, 1, Len(s))
             b == SubSeq(t, 1, Len(s))
  <1>2. a \in Seq(T) /\ Len(a) = Len(s) /\ \A i \in 1 .. Len(s) : a[i] = s[i]
    BY ONLY <1>1, s \in Seq(T), PartOf DEF a
  <1>3. b \in Seq(T) /\ Len(b) = Len(s) /\ \A i \in 1 .. Len(s) : b[i] = t[i]
    BY ONLY <1>1, t \in Seq(T), PartOf DEF b
  <1> HIDE DEF a, b
  <1>4. \A i \in 1 .. Len(s) : a[i] = b[i]
    BY <1>2, <1>3
  <1>5. a = b
    BY ONLY <1>2, <1>3, <1>4, SeqEqual
  <1> QED BY <1>5 DEF Channel!IsPrefix, a, b

(* A message the sender numbers is one the channel sends. *)
LEMMA NumberSends ==
    ASSUME NoWrap, IInv, NEW m \in [kind : {Resend, OrderResend}, order : Nat], Number(m),
           UNCHANGED <<mirror, acks, receiverVars>>,
           m.kind = OrderResend => \A n \in Messages : IsOrderResend(n) => Packet(n).order # m.order
    PROVE  Channel!ChannelSend
  <1> DEFINE R == [kind : {Resend, OrderResend}, order : Nat]
  <1>1. PICK l \in Nat : l = Len(packets)
    BY Ranges
  <1>2. /\ packets' \in Seq(R) /\ Len(packets') = l + 1 /\ Messages' = Messages \cup {l}
        /\ l \notin Messages
        /\ \A n \in Messages : packets'[n + 1] = packets[n + 1] /\ resending'[n + 1] = resending[n + 1]
        /\ packets'[l + 1] = m /\ resending'[l + 1] = 0
    BY <1>1, NumberKeeps
  <1>3. packets \in Seq(R)
    BY DEF IInv, Sender
  <1>4. \A i \in 1 .. l : i - 1 \in Messages /\ packets'[i] = packets[i] /\ i \in DOMAIN packets
    <2> TAKE i \in 1 .. l
    <2>1. i - 1 \in Messages /\ (i - 1) + 1 = i /\ i \in DOMAIN packets
      BY <1>1, Ranges
    <2> QED BY <1>2, <2>1
  <1> HIDE DEF R
  <1>5. Channel!IsPrefix(packets, packets')
    <2>1. Len(packets) <= Len(packets') /\ \A i \in 1 .. Len(packets) : packets'[i] = packets[i]
      BY <1>1, <1>2, <1>4
    <2> QED BY ONLY <1>2, <1>3, <2>1, Extends
  <1>6. Channel!Last(packets') = m
    BY <1>2 DEF Channel!Last
  <1>7. m.kind = OrderResend =>
           \A i \in DOMAIN packets : packets[i].kind = OrderResend => packets[i].order # m.order
    <2>1. \A i \in DOMAIN packets : i - 1 \in Messages /\ Packet(i - 1) = packets[i]
      <3> TAKE i \in DOMAIN packets
      <3>1. i - 1 \in Messages /\ (i - 1) + 1 = i
        BY Ranges
      <3> QED BY <3>1 DEF Packet
    <2> QED BY <2>1 DEF IsOrderResend
  <1>8. accepted' = accepted /\ received' = received
    BY DEF receiverVars
  <1>9. ConfirmedMessages' = ConfirmedMessages
    BY <1>2 DEF ConfirmedMessages, Confirmed
  <1> QED BY <1>1, <1>2, <1>5, <1>6, <1>7, <1>8, <1>9 DEF Channel!ChannelSend, ConfirmedMessages, R

(* Every step of the link is a step of the channel, or one the channel does not see. *)
LEMMA StepRefines ==
    ASSUME NoWrap, IInv, [Next]_vars
    PROVE  [Channel!ChannelNext]_(Channel!channelVars)
  <1> DEFINE unseen == UNCHANGED Channel!channelVars
  <1>u. ASSUME packets' = packets, accepted' = accepted, received' = received,
               ConfirmedMessages' = ConfirmedMessages
        PROVE  unseen
    BY <1>u DEF Channel!channelVars, ConfirmedMessages
  <1>v. ASSUME UNCHANGED <<packets, resending, accepted, received>>
        PROVE  unseen
    BY <1>v, <1>u DEF ConfirmedMessages, Messages
  <1> HIDE DEF unseen
  <1>1. CASE SendResend
    <2> DEFINE m == [kind |-> Resend, order |-> 0]
    <2>1. /\ m \in [kind : {Resend, OrderResend}, order : Nat] /\ Number(m)
          /\ UNCHANGED <<mirror, acks, receiverVars>> /\ m.kind # OrderResend
      BY <1>1, LinkAssumption DEF SendResend
    <2> QED BY <2>1, NumberSends DEF Channel!ChannelNext
  <1>2. ASSUME NEW order \in writers, SendOrderResend(order) PROVE Channel!ChannelNext
    <2> DEFINE m == [kind |-> OrderResend, order |-> order]
    <2>1. order \in Nat
      BY DEF IInv, Sender
    <2>2. /\ m \in [kind : {Resend, OrderResend}, order : Nat] /\ Number(m)
          /\ UNCHANGED <<mirror, acks, receiverVars>> /\ m.order = order
      BY <1>2, <2>1 DEF SendOrderResend
    <2>3. \A n \in Messages : IsOrderResend(n) => Packet(n).order # order
      BY <1>2, SendOrderResendKeeps
    <2> QED BY <2>2, <2>3, NumberSends DEF Channel!ChannelNext
  <1>3. ASSUME NEW n \in Messages, ResendTimer(n) PROVE Channel!ChannelNext \/ unseen
    <2>1. /\ packets' = packets /\ accepted' = accepted /\ received' = received
          /\ Messages' = Messages /\ resending[n + 1] >= 0
      BY <1>3 DEF ResendTimer, receiverVars, Messages
    <2>2. \A m \in Messages : resending'[m + 1] = Confirmed => resending[m + 1] = Confirmed
                                 \/ (m = n /\ n \in accepted)
      BY <1>3, ResendTimerKeeps
    <2>3. \A m \in Messages : m # n => resending'[m + 1] = resending[m + 1]
      <3>1. \A m \in Messages : m # n => m + 1 # n + 1 /\ m + 1 \in DOMAIN resending
        BY Ranges DEF IInv, Traffic
      <3> QED BY <1>3, <3>1 DEF ResendTimer
    <2>4. resending[n + 1] # Confirmed
      BY <2>1 DEF Confirmed
    <2>5. ConfirmedMessages' = ConfirmedMessages \cup
             (IF resending'[n + 1] = Confirmed THEN {n} ELSE {})
      BY <2>1, <2>3, <2>4 DEF ConfirmedMessages, Confirmed
    <2>6. CASE resending'[n + 1] = Confirmed
      <3>1. n \in accepted
        BY <2>2, <2>4, <2>6
      <3>2. ConfirmedMessages' = ConfirmedMessages \cup {n}
        BY <2>5, <2>6
      <3>3. Channel!ChannelConfirm
        BY <2>1, <3>1, <3>2 DEF Channel!ChannelConfirm, ConfirmedMessages
      <3> QED BY <3>3 DEF Channel!ChannelNext
    <2>7. CASE resending'[n + 1] # Confirmed
      BY <1>u, <2>1, <2>5, <2>7
    <2> QED BY <2>6, <2>7
  <1>4. ASSUME NEW n \in data, ReceiveData(n) PROVE Channel!ChannelNext \/ unseen
    <2>0. packets' = packets /\ resending' = resending
      BY <1>4 DEF ReceiveData, senderVars
    <2>1. /\ IInv' /\ n \in Messages
          /\ \/ accepted' = accepted /\ received' = received
             \/ /\ n \notin accepted /\ accepted' = accepted \cup {n}
                /\ \E t \in Seq(Nat) : received' = received \o t
      BY <1>4, ReceiveDataKeeps
    <2>2. CASE accepted' = accepted /\ received' = received
      BY <1>v, <2>0, <2>2
    <2>3. CASE /\ n \notin accepted /\ accepted' = accepted \cup {n}
               /\ \E t \in Seq(Nat) : received' = received \o t
      <3>1. n \in 0 .. Len(packets) - 1
        BY <2>1 DEF Messages
      <3>2. Channel!IsPrefix(received, received')
        <4>1. PICK t \in Seq(Nat) : received' = received \o t
          BY <2>3
        <4>2. received \in Seq(Nat)
          BY GivenFacts
        <4>3. /\ received \o t \in Seq(Nat) /\ Len(received) <= Len(received \o t)
              /\ \A i \in 1 .. Len(received) : (received \o t)[i] = received[i]
          BY ONLY <4>2, t \in Seq(Nat), ConcatProperties
        <4> QED BY <4>1, <4>2, <4>3, Extends
      <3>3. Channel!Legal(packets, accepted', received')
        <4>1. Given(packets', received', orderer'.next)
          BY <2>1 DEF IInv
        <4>2. /\ orderer'.next \in Nat
              /\ \A i \in DOMAIN received' : Order(packets', received'[i]) \in Nat
              /\ ToSet(received') \subseteq accepted'
          <5>1. orderer'.next \in Nat
            BY <2>1, ModulusAssumption DEF IInv, Drained, Numbers
          <5>2. ToSet(received') \subseteq accepted'
            BY <2>1 DEF IInv, Accounted
          <5>3. accepted' \subseteq Messages'
            BY <2>1 DEF IInv, Traffic
          <5>4. \A m \in Messages' : Order(packets', m) \in Nat
            <6>1. Messages' = Messages
              BY <2>0 DEF Messages
            <6> QED BY <2>0, <6>1, Ranges DEF Order, Packet
          <5>5. \A i \in DOMAIN received' : received'[i] \in ToSet(received')
            BY DEF ToSet
          <5> QED BY <5>1, <5>2, <5>3, <5>4, <5>5
        <4> QED BY <2>0, <4>1, <4>2, GivenIsLegal DEF Numbered
      <3>4. ConfirmedMessages' = ConfirmedMessages
        BY <2>0 DEF ConfirmedMessages, Messages
      <3>5. Channel!ChannelArrive
        BY <2>0, <2>3, <3>1, <3>2, <3>3, <3>4 DEF Channel!ChannelArrive, ConfirmedMessages
      <3> QED BY <3>5 DEF Channel!ChannelNext
    <2> QED BY <2>1, <2>2, <2>3
  <1>5. CASE \/ TakeOrder
             \/ \E ack \in acks : ReceiveAck(ack) \/ LoseAck(ack)
             \/ \E n \in data : LoseData(n)
             \/ \E n \in ackDue : RequestAck(n)
             \/ \E call \in retries : RetryAck(call)
             \/ \E index \in recent : Age(index)
             \/ Piggyback
             \/ UNCHANGED vars
    <2>1. UNCHANGED <<packets, resending, accepted, received>>
      BY <1>5 DEF TakeOrder, ReceiveAck, LoseAck, LoseData, RequestAck, RetryAck, Age, Piggyback,
                  vars, senderVars, receiverVars
    <2>2. unseen
      BY <1>v, <2>1
    <2> QED BY <2>2 DEF unseen
  <1> QED BY <1>1, <1>2, <1>3, <1>4, <1>5 DEF Next, unseen

(* For the two applications the frames 5 and 8 are a channel that delivers each      *)
(* message at most once, the strictly ordered ones in the order of their numbers     *)
(* without a gap, and that tells the sender the truth about what has arrived.        *)
THEOREM LinkImplementsChannel == NoWrap => (Spec => ImplementsChannel)
  <1> SUFFICES ASSUME NoWrap PROVE Spec => ImplementsChannel
    OBVIOUS
  <1>1. Init => Channel!ChannelInit
    <2> SUFFICES ASSUME Init PROVE Channel!ChannelInit
      OBVIOUS
    <2>1. packets = <<>> /\ accepted = {} /\ received = <<>> /\ Messages = {}
      BY DEF Init, Messages
    <2> QED BY <2>1 DEF Channel!ChannelInit
  <1>2. IInv /\ [Next]_vars => [Channel!ChannelNext]_(Channel!channelVars)
    BY StepRefines
  <1> QED BY <1>1, <1>2, Invariance, PTL DEF Spec, ImplementsChannel, Channel!ChannelSpec
====
