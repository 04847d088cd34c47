---- MODULE OrderingProofs ----
(***************************************************************************)
(* The packet orderer under the stabilizer's goroutines: proofs for every  *)
(* counter width and any number of packets, sent from any number on.       *)
(***************************************************************************)
EXTENDS StabilizerOrdering, SerialNumbersProofs, FiniteSetTheorems, SequenceTheorems,
        WellFoundedInduction

-----------------------------------------------------------------------------
(* Serial numbers *)

(* Truncated numbers in reach of each other are equal if the true ones are. *)
LEMMA WrapInjective ==
    ASSUME NEW a \in Int, NEW b \in Int, b - a \in -HalfRange .. HalfRange, Wrap(a) = Wrap(b)
    PROVE  a = b
  <1>1. ~(b > a)
    BY FutureIsGreater, WrapType, Half, ModulusAssumption DEF IsSequenceNumberInFuture, Jump
  <1>2. ~(a > b)
    <2>1. a - b \in -HalfRange .. HalfRange
      BY Half
    <2> QED BY <2>1, FutureIsGreater, WrapType, Half, ModulusAssumption
            DEF IsSequenceNumberInFuture, Jump
  <1> QED BY <1>1, <1>2

(* The counter after and before a truncated number. *)
LEMMA SuccPred ==
    ASSUME NEW n \in Int
    PROVE  Succ(Wrap(n)) = Wrap(n + 1) /\ Pred(Wrap(n)) = Wrap(n - 1)
  <1>1. Jump(Wrap(n), Wrap(n + 1)) = 1 /\ Jump(Wrap(n - 1), Wrap(n)) = 1
    BY JumpWrap, ModulusAssumption
  <1>2. Wrap(n) \in Numbers /\ Wrap(n + 1) \in Numbers /\ Wrap(n - 1) \in Numbers
    BY WrapType
  <1> QED BY <1>1, <1>2, ModulusAssumption DEF Jump, Succ, Pred, Numbers

-----------------------------------------------------------------------------
(* The orderer *)

Entries == [key : Numbers, data : Nat]

SortedByData(q) == \A i, j \in DOMAIN q : i < j => q[i].data < q[j].data

(* An orderer that expects the number e: what it stores is at or after e, in order. *)
Expects(o, e) ==
    /\ o \in [first : BOOLEAN, next : Numbers, heap : Seq(Entries)]
    /\ o.next = Wrap(e)
    /\ SortedByData(o.heap)
    /\ \A i \in DOMAIN o.heap : /\ o.heap[i].key = Wrap(o.heap[i].data)
                                /\ o.heap[i].data \in e .. e + HalfRange - 1
    /\ o.first => o.heap = <<>>

(* Packets handed out that lead from the number e to the number f. *)
Leads(out, e, f) ==
    /\ out \in Seq(Entries) /\ SortedByData(out)
    /\ \A i \in DOMAIN out : out[i].data \in e .. f - 1
    /\ f = IF out = <<>> THEN e ELSE out[Len(out)].data + 1

InHeap(o) == {o.heap[i].data : i \in DOMAIN o.heap}

(* A part of a sequence. *)
LEMMA Part ==
    ASSUME NEW q \in Seq(Entries), NEW k \in 0 .. Len(q)
    PROVE  /\ SubSeq(q, 1, k) \in Seq(Entries) /\ Len(SubSeq(q, 1, k)) = k
           /\ \A i \in 1 .. k : SubSeq(q, 1, k)[i] = q[i]
           /\ SubSeq(q, k + 1, Len(q)) \in Seq(Entries)
           /\ Len(SubSeq(q, k + 1, Len(q))) = Len(q) - k
           /\ \A i \in 1 .. Len(q) - k : SubSeq(q, k + 1, Len(q))[i] = q[k + i]
           /\ DOMAIN SubSeq(q, 1, k) = 1 .. k
           /\ DOMAIN SubSeq(q, k + 1, Len(q)) = 1 .. Len(q) - k
  BY PartOf

(* However many packets are popped, what is left expects the one after them. *)
LEMMA PopExpects ==
    ASSUME NEW e \in Nat, NEW o, Expects(o, e), NEW k \in 0 .. Len(o.heap)
    PROVE  \E f \in e .. e + HalfRange :
               /\ Expects(Pop(o, k).orderer, f) /\ Leads(Pop(o, k).out, e, f)
               /\ InHeap(Pop(o, k).orderer) = {o.heap[i].data : i \in k + 1 .. Len(o.heap)}
               /\ InHeap(Pop(o, k).orderer) \subseteq InHeap(o)
               /\ Pop(o, k).orderer.first = o.first
               /\ Pop(o, k).out = <<>> => Pop(o, k).orderer = o
  <1> DEFINE q == o.heap
             r == Pop(o, k)
             f == IF k = 0 THEN e ELSE q[k].data + 1
  <1>0. /\ q \in Seq(Entries) /\ SortedByData(q) /\ o.next = Wrap(e)
        /\ \A i \in DOMAIN q : q[i].key = Wrap(q[i].data) /\ q[i].data \in e .. e + HalfRange - 1
        /\ o \in [first : BOOLEAN, next : Numbers, heap : Seq(Entries)]
    BY DEF Expects
  <1>1. f \in e .. e + HalfRange
    BY <1>0, Half
  <1>2. Leads(r.out, e, f)
    <2>1. r.out = SubSeq(q, 1, k)
      BY DEF Pop
    <2> DEFINE out == SubSeq(q, 1, k)
    <2>2. /\ out \in Seq(Entries) /\ Len(out) = k /\ DOMAIN out = 1 .. k
          /\ \A i \in 1 .. k : out[i] = q[i]
      BY <1>0, Part
    <2> HIDE DEF out
    <2>3. SortedByData(out)
      BY <1>0, <2>2 DEF SortedByData
    <2>4. \A i \in 1 .. k : q[i].data \in e .. f - 1
      BY <1>0 DEF SortedByData, Entries
    <2>5. f = IF out = <<>> THEN e ELSE out[Len(out)].data + 1
      BY <2>2
    <2> QED BY <2>1, <2>2, <2>3, <2>4, <2>5 DEF Leads, out
  <1>s. {q[i].data : i \in k + 1 .. Len(q)} \subseteq InHeap(o)
    <2>1. \A i \in k + 1 .. Len(q) : i \in DOMAIN q
      BY <1>0
    <2> QED BY <2>1 DEF InHeap
  <1>3. CASE k = 0
    <2>1. r.orderer = o /\ f = e
      BY <1>3 DEF Pop
    <2>2. InHeap(r.orderer) = {o.heap[i].data : i \in k + 1 .. Len(o.heap)}
      BY <1>0, <1>3, <2>1 DEF InHeap
    <2> QED BY <1>1, <1>2, <1>s, <2>1, <2>2
  <1>4. CASE k # 0
    <2> DEFINE rest == SubSeq(q, k + 1, Len(q))
    <2>1. r.orderer = [o EXCEPT !.heap = rest, !.next = Succ(q[k].key)]
      BY <1>4 DEF Pop
    <2>2. /\ rest \in Seq(Entries) /\ DOMAIN rest = 1 .. Len(q) - k
          /\ \A i \in 1 .. Len(q) - k : rest[i] = q[k + i]
      BY <1>0, Part
    <2> HIDE DEF rest
    <2>a. /\ k \in DOMAIN q /\ q[k].data \in Nat /\ q[k].key = Wrap(q[k].data) /\ f = q[k].data + 1
          /\ \A i \in 1 .. Len(q) - k : k + i \in DOMAIN q /\ k < k + i
          /\ \A i, j \in DOMAIN rest : i < j => k + i < k + j
      BY <1>0, <1>4, <2>2 DEF Entries
    <2>b. \A i \in DOMAIN rest : /\ f <= rest[i].data /\ rest[i].data \in e .. e + HalfRange - 1
                                 /\ rest[i].key = Wrap(rest[i].data)
      <3>1. ASSUME NEW i \in DOMAIN rest
            PROVE  /\ q[k].data < rest[i].data /\ rest[i].data \in e .. e + HalfRange - 1
                   /\ rest[i].key = Wrap(rest[i].data)
        BY <1>0, <2>2, <2>a DEF SortedByData
      <3> QED BY ONLY <2>a, <3>1, Half
    <2> HIDE DEF f
    <2>3. Succ(q[k].key) = Wrap(f) /\ Wrap(f) \in Numbers
      <3>1. q[k].data \in Int /\ f \in Int
        BY ONLY <2>a
      <3>2. Succ(Wrap(q[k].data)) = Wrap(q[k].data + 1) /\ Wrap(f) \in Numbers
        BY ONLY <3>1, SuccPred, WrapType
      <3> QED BY ONLY <2>a, <3>2
    <2>4. r.orderer = [first |-> o.first, next |-> Wrap(f), heap |-> rest]
      BY <1>0, <2>1, <2>3
    <2>5. SortedByData(rest)
      BY ONLY <1>0, <2>2, <2>a DEF SortedByData
    <2>6. \A i \in DOMAIN rest : /\ rest[i].key = Wrap(rest[i].data)
                                 /\ rest[i].data \in f .. f + HalfRange - 1
      BY ONLY <1>1, <2>b, Half, e \in Nat
    <2>7. o.first => rest = <<>>
      BY <1>4 DEF Expects
    <2>8. Expects(r.orderer, f)
      BY <1>0, <2>2, <2>3, <2>4, <2>5, <2>6, <2>7 DEF Expects
    <2>9. InHeap(r.orderer) = {q[i].data : i \in k + 1 .. Len(q)}
      <3>1. InHeap(r.orderer) = {rest[i].data : i \in 1 .. Len(q) - k}
        <4>1. r.orderer.heap = rest
          BY ONLY <2>4
        <4> QED BY ONLY <2>2, <4>1 DEF InHeap
      <3> DEFINE m == Len(q)
      <3>a. m \in Nat /\ k \in 0 .. m /\ \A i \in 1 .. m - k : rest[i] = q[k + i]
        BY <1>0, <2>2
      <3> HIDE DEF m
      <3>b. \A i \in k + 1 .. m : i - k \in 1 .. m - k /\ k + (i - k) = i
        BY ONLY <3>a
      <3>2. \A i \in k + 1 .. Len(q) : i - k \in 1 .. Len(q) - k /\ rest[i - k] = q[i]
        BY ONLY <3>a, <3>b DEF m
      <3>3. \A i \in 1 .. Len(q) - k : k + i \in k + 1 .. Len(q) /\ rest[i] = q[k + i]
        BY ONLY <3>a DEF m
      <3> QED BY <3>1, <3>2, <3>3
    <2>10. r.out # <<>>
      BY <1>0, <1>4, Part DEF Pop
    <2> QED BY <1>1, <1>2, <1>s, <2>4, <2>8, <2>9, <2>10
  <1> QED BY <1>3, <1>4

(* A packet on its way through the orderer. *)
Entry(n) == [key |-> Wrap(n), data |-> n]

(* A packet as it is pushed: its truncated number and the true one. *)
LEMMA EntryType ==
    ASSUME NEW n \in Nat
    PROVE  Entry(n) \in Entries /\ Entry(n).key = Wrap(n) /\ Entry(n).data = n
  BY WrapType DEF Entry, Entries

(* A packet that came too early takes its place on the heap. *)
LEMMA StoreExpects ==
    ASSUME NEW e \in Nat, NEW o, Expects(o, e), ~o.first,
           NEW n \in e .. e + HalfRange - 1, n \notin InHeap(o)
    PROVE  /\ Expects(Store(o, Entry(n)), e) /\ ~Store(o, Entry(n)).first
           /\ InHeap(Store(o, Entry(n))) = InHeap(o) \cup {n}
  <1> DEFINE q == o.heap
             p == Entry(n)
             ahead == {i \in DOMAIN q : ~IsSequenceNumberInFuture(p.key, q[i].key)}
  <1>0. /\ q \in Seq(Entries) /\ SortedByData(q) /\ o.next = Wrap(e)
        /\ \A i \in DOMAIN q : /\ q[i].key = Wrap(q[i].data)
                               /\ q[i].data \in e .. e + HalfRange - 1 /\ q[i].data # n
        /\ o \in [first : BOOLEAN, next : Numbers, heap : Seq(Entries)]
    BY DEF Expects, InHeap
  <1>n. n \in Nat /\ p \in Entries /\ p.key = Wrap(n) /\ p.data = n
    <2>1. n \in Nat
      BY Half
    <2> QED BY ONLY <2>1, EntryType
  <1> HIDE DEF q, p
  <1>1. \A i \in DOMAIN q : i \in ahead <=> q[i].data < n
    <2>1. ASSUME NEW i \in DOMAIN q
          PROVE  IsSequenceNumberInFuture(Wrap(n), Wrap(q[i].data)) <=> q[i].data > n
      <3>1. q[i].data \in Int /\ q[i].data - n \in -HalfRange .. HalfRange /\ n \in Int
        BY ONLY <1>0, <1>n, Half, e \in Nat, n \in e .. e + HalfRange - 1
      <3> QED BY ONLY <3>1, FutureIsGreater
    <2>2. \A i \in DOMAIN q : q[i].data \in Nat /\ q[i].data # n
      BY ONLY <1>0, Half, e \in Nat
    <2> QED BY ONLY <1>0, <1>n, <2>1, <2>2
  <1>2. PICK k \in 0 .. Len(q) : ahead = 1 .. k
    <2> HIDE DEF ahead
    <2>1. PICK k \in 0 .. Len(q) : /\ \A i \in 1 .. k : i \in ahead
                                   /\ k < Len(q) => k + 1 \notin ahead
      <3>1. Len(q) \in Nat
        BY <1>0
      <3> QED BY ONLY <3>1, LongestPrefix, Zenon
    <2>2. ASSUME NEW i \in k + 1 .. Len(q)
          PROVE  i \notin ahead
      <3>1. k + 1 \in DOMAIN q /\ i \in DOMAIN q /\ k + 1 <= i
        BY <1>0
      <3>2. ~(q[k + 1].data < n)
        <4>1. k < Len(q)
          BY <1>0
        <4>2. k + 1 \notin ahead
          BY ONLY <2>1, <4>1
        <4> QED BY ONLY <1>1, <3>1, <4>2
      <3>3. i = k + 1 \/ q[k + 1].data < q[i].data
        BY <1>0, <3>1 DEF SortedByData
      <3>4. q[k + 1].data \in Nat /\ q[i].data \in Nat
        BY <1>0, <3>1, Half
      <3> QED BY <1>1, <1>n, <3>1, <3>2, <3>3, <3>4
    <2>3. ahead \subseteq 1 .. Len(q)
      BY <1>0 DEF ahead
    <2>4. ahead = 1 .. k
      <3>1. \A i \in 1 .. Len(q) : i \in 1 .. k \/ i \in k + 1 .. Len(q)
        BY <1>0
      <3> QED BY ONLY <2>1, <2>2, <2>3, <3>1
    <2> QED BY <2>4
  <1>3. Cardinality(ahead) = k
    <2>1. k \in Nat
      BY <1>0
    <2>2. Cardinality(1 .. k) = k
      BY ONLY <2>1, FS_Interval
    <2> QED BY ONLY <1>2, <2>2
  <1>4. \A i \in 1 .. k : q[i].data < n
    BY <1>0, <1>1, <1>2
  <1>5. \A i \in k + 1 .. Len(q) : n < q[i].data
    <2>1. \A i \in k + 1 .. Len(q) : i \in DOMAIN q /\ ~(q[i].data < n) /\ q[i].data # n /\ q[i].data \in Nat
      BY <1>0, <1>1, <1>2, Half
    <2> QED BY <1>n, <2>1
  <1> DEFINE a == SubSeq(q, 1, k)
             b == SubSeq(q, k + 1, Len(q))
             r == a \o <<p>> \o b
  <1>6. /\ a \in Seq(Entries) /\ Len(a) = k /\ \A i \in 1 .. k : a[i] = q[i]
        /\ b \in Seq(Entries) /\ Len(b) = Len(q) - k /\ \A i \in 1 .. Len(q) - k : b[i] = q[k + i]
    BY <1>0, Part
  <1>7. Store(o, p) = [first |-> o.first, next |-> o.next, heap |-> r]
    <2>1. Store(o, p) = [o EXCEPT !.heap = r]
      BY <1>3 DEF Store, q
    <2> HIDE DEF r
    <2> QED BY <1>0, <2>1
  <1> HIDE DEF a, b, ahead
  <1>8. /\ r \in Seq(Entries) /\ DOMAIN r = 1 .. Len(q) + 1
        /\ \A i \in 1 .. k : r[i] = q[i]
        /\ r[k + 1] = p
        /\ \A i \in k + 2 .. Len(q) + 1 : r[i] = q[i - 1]
    <2> DEFINE c == a \o <<p>>
    <2>1. /\ c \in Seq(Entries) /\ Len(c) = k + 1 /\ \A i \in 1 .. k : c[i] = q[i]
          /\ c[k + 1] = p
      BY <1>6, <1>n
    <2> HIDE DEF c
    <2>2. r = c \o b
      BY DEF c
    <2>3. /\ c \o b \in Seq(Entries) /\ Len(c \o b) = Len(q) + 1
          /\ \A i \in 1 .. k + 1 : (c \o b)[i] = c[i]
          /\ \A i \in k + 2 .. Len(q) + 1 : (c \o b)[i] = b[i - (k + 1)]
      BY <1>0, <1>6, <2>1, ConcatProperties
    <2>4. \A i \in k + 2 .. Len(q) + 1 : b[i - (k + 1)] = q[i - 1]
      <3>1. \A i \in k + 2 .. Len(q) + 1 : i - (k + 1) \in 1 .. Len(q) - k /\ k + (i - (k + 1)) = i - 1
        BY <1>0
      <3> QED BY <1>6, <3>1
    <2>5. DOMAIN (c \o b) = 1 .. Len(q) + 1
      BY <2>3
    <2>6. \A i \in 1 .. k : i \in 1 .. k + 1
      BY <1>0
    <2>7. k + 1 \in 1 .. k + 1
      BY <1>0
    <2> HIDE DEF r
    <2> QED BY ONLY <2>1, <2>2, <2>3, <2>4, <2>5, <2>6, <2>7
  <1> HIDE DEF r
  <1>9. \A i \in DOMAIN r : \/ i \in 1 .. k /\ i \in DOMAIN q
                            \/ i = k + 1
                            \/ i \in k + 2 .. Len(q) + 1 /\ i - 1 \in k + 1 .. Len(q) /\ i - 1 \in DOMAIN q
    BY <1>0, <1>8
  <1>10. SortedByData(r)
    <2> SUFFICES ASSUME NEW i \in DOMAIN r, NEW j \in DOMAIN r, i < j
                 PROVE  r[i].data < r[j].data
      BY DEF SortedByData
    <2>1. \A x, y \in DOMAIN q : x < y => q[x].data < q[y].data
      BY <1>0 DEF SortedByData
    <2>2. i \in Int /\ j \in Int
      BY <1>8
    <2>3. CASE i \in 1 .. k
      <3>1. r[i] = q[i] /\ i \in DOMAIN q /\ q[i].data < n /\ q[i].data \in Nat
        BY <1>0, <1>4, <1>8, <2>3, Half
      <3>2. CASE j \in 1 .. k
        BY <1>0, <1>8, <2>1, <3>1, <3>2
      <3>3. CASE j = k + 1
        BY <1>8, <1>n, <3>1, <3>3
      <3>4. CASE j \in k + 2 .. Len(q) + 1
        <4>1. r[j] = q[j - 1] /\ j - 1 \in k + 1 .. Len(q) /\ i < j - 1 /\ j - 1 \in DOMAIN q
          BY <1>0, <1>8, <2>3, <3>4
        <4> QED BY <2>1, <3>1, <4>1
      <3> QED BY <1>9, <3>2, <3>3, <3>4
    <2>4. CASE i = k + 1
      BY <1>5, <1>8, <1>9, <1>n, <2>2, <2>4
    <2>5. CASE i \in k + 2 .. Len(q) + 1
      <3>1. j \in k + 2 .. Len(q) + 1 /\ i - 1 < j - 1
        BY <1>9, <2>2, <2>5
      <3> QED BY <1>8, <1>9, <2>1, <2>5, <3>1
    <2> QED BY <1>9, <2>3, <2>4, <2>5
  <1>11. \A i \in DOMAIN r : r[i].key = Wrap(r[i].data) /\ r[i].data \in e .. e + HalfRange - 1
    BY <1>0, <1>8, <1>9, <1>n
  <1>12. {r[i].data : i \in DOMAIN r} = InHeap(o) \cup {n}
    <2>1. \A i \in DOMAIN r : r[i].data \in {q[j].data : j \in DOMAIN q} \cup {n}
      BY <1>8, <1>9, <1>n
    <2>2. n \in {r[i].data : i \in DOMAIN r}
      <3>1. k + 1 \in DOMAIN r
        BY <1>0, <1>8
      <3> QED BY <1>8, <1>n, <3>1
    <2>3. \A j \in DOMAIN q : q[j].data \in {r[i].data : i \in DOMAIN r}
      <3>1. ASSUME NEW j \in DOMAIN q
            PROVE  \E i \in DOMAIN r : r[i] = q[j]
        <4>1. CASE j \in 1 .. k
          BY <1>0, <1>8, <4>1
        <4>2. CASE j \in k + 1 .. Len(q)
          <5>1. j + 1 \in k + 2 .. Len(q) + 1 /\ j + 1 - 1 = j /\ j + 1 \in DOMAIN r
            BY <1>0, <1>8, <4>2
          <5> QED BY <1>8, <5>1
        <4> QED BY <1>0, <4>1, <4>2
      <3> QED BY <3>1
    <2> QED BY <2>1, <2>2, <2>3 DEF InHeap, q
  <1>13. Expects(Store(o, p), e) /\ ~Store(o, p).first
    BY <1>0, <1>7, <1>8, <1>10, <1>11 DEF Expects
  <1>14. InHeap(Store(o, p)) = InHeap(o) \cup {n}
    <2>1. Store(o, p).heap = r
      BY ONLY <1>7
    <2> QED BY <1>12, <2>1 DEF InHeap
  <1> QED BY <1>13, <1>14 DEF p

-----------------------------------------------------------------------------
(* What the orderer's calls leave and hand out *)

(* The export loop pops some packets. *)
LEMMA DrainPops ==
    ASSUME NEW e \in Nat, NEW o, Expects(o, e)
    PROVE  \E k \in 0 .. Len(o.heap) : Drain(o) = Pop(o, k)
  <1> DEFINE S == {i \in Nat : o.heap[i].key = (o.next + i - 1) % Modulus}
             k == PrefixLength(o.heap, LAMBDA i : o.heap[i].key = (o.next + i - 1) % Modulus)
  <1>1. Len(o.heap) \in Nat
    BY DEF Expects
  <1>2. \E j \in 0 .. Len(o.heap) : /\ \A i \in 1 .. j : i \in S
                                    /\ j < Len(o.heap) => j + 1 \notin S
    <2> HIDE DEF S
    <2> QED BY ONLY <1>1, LongestPrefix, Zenon
  <1>3. \E j \in 0 .. Len(o.heap) :
            /\ \A i \in 1 .. j : o.heap[i].key = (o.next + i - 1) % Modulus
            /\ j < Len(o.heap) => ~(o.heap[j + 1].key = (o.next + (j + 1) - 1) % Modulus)
    <2>1. PICK j \in 0 .. Len(o.heap) : /\ \A i \in 1 .. j : i \in S
                                        /\ j < Len(o.heap) => j + 1 \notin S
      BY <1>2
    <2>2. j + 1 \in Nat
      BY <1>1
    <2>3. \A i \in 1 .. j : o.heap[i].key = (o.next + i - 1) % Modulus
      BY <2>1, Zenon
    <2>4. j < Len(o.heap) => ~(o.heap[j + 1].key = (o.next + (j + 1) - 1) % Modulus)
      BY <2>1, <2>2, Zenon
    <2> HIDE DEF S
    <2> QED BY ONLY <2>3, <2>4, Zenon
  <1>4. k \in 0 .. Len(o.heap)
    BY <1>3, Zenon DEF PrefixLength
  <1>5. Drain(o) = Pop(o, k)
    BY DEF Drain
  <1> QED BY <1>4, <1>5

(* DumpAll with gaps allowed pops some packets. *)
LEMMA DumpAllPops ==
    ASSUME NEW e \in Nat, NEW o, Expects(o, e)
    PROVE  \E k \in 0 .. Len(o.heap) : DumpAll(o, AllowInDumpAndPush) = Pop(o, k)
  <1> DEFINE S == {i \in Nat : AllowInDumpAndPush = AllowNone => o.heap[i].key = (o.next + i - 1) % Modulus}
             k == DumpLength(o, AllowInDumpAndPush, LAMBDA key : TRUE)
  <1>1. Len(o.heap) \in Nat
    BY DEF Expects
  <1>2. \E j \in 0 .. Len(o.heap) : /\ \A i \in 1 .. j : i \in S
                                    /\ j < Len(o.heap) => j + 1 \notin S
    <2> HIDE DEF S
    <2> QED BY ONLY <1>1, LongestPrefix, Zenon
  <1>3. \E j \in 0 .. Len(o.heap) :
            /\ \A i \in 1 .. j :
                   /\ TRUE
                   /\ AllowInDumpAndPush = AllowNone => o.heap[i].key = (o.next + i - 1) % Modulus
            /\ j < Len(o.heap) =>
                   ~(/\ TRUE
                     /\ AllowInDumpAndPush = AllowNone =>
                            o.heap[j + 1].key = (o.next + (j + 1) - 1) % Modulus)
    <2>1. PICK j \in 0 .. Len(o.heap) : /\ \A i \in 1 .. j : i \in S
                                        /\ j < Len(o.heap) => j + 1 \notin S
      BY <1>2
    <2>2. j + 1 \in Nat
      BY <1>1
    <2>3. \A i \in 1 .. j : AllowInDumpAndPush = AllowNone => o.heap[i].key = (o.next + i - 1) % Modulus
      BY <2>1, Zenon
    <2>4. j < Len(o.heap) => ~(AllowInDumpAndPush = AllowNone =>
                                   o.heap[j + 1].key = (o.next + (j + 1) - 1) % Modulus)
      BY <2>1, <2>2, Zenon
    <2> HIDE DEF S
    <2> QED BY ONLY <2>3, <2>4, Zenon
  <1>4. k \in 0 .. Len(o.heap)
    BY <1>3, Zenon DEF DumpLength, PrefixLength
  <1>5. DumpAll(o, AllowInDumpAndPush) = Pop(o, k)
    BY DEF DumpAll
  <1> QED BY <1>4, <1>5

(* The timer of n leaves nothing of n behind. *)
LEMMA DumpPops ==
    ASSUME NEW e \in Nat, NEW o, Expects(o, e), NEW n \in Nat, n - e \in -HalfRange .. HalfRange - 1
    PROVE  \E k \in 0 .. Len(o.heap) :
               /\ Dump(o, Wrap(n), AllowInDumpAndPush) = Pop(o, k)
               /\ \A i \in k + 1 .. Len(o.heap) : o.heap[i].data # n
  <1> DEFINE q == o.heap
             Within(key) == ~IsSequenceNumberInFuture(Wrap(n), key)
  <1>0. /\ q \in Seq(Entries) /\ SortedByData(q) /\ o.next = Wrap(e) /\ Len(q) \in Nat
        /\ \A i \in DOMAIN q : q[i].key = Wrap(q[i].data) /\ q[i].data \in e .. e + HalfRange - 1
    BY DEF Expects
  <1>1. IsSequenceNumberInFuture(Pred(o.next), Wrap(n)) <=> n >= e
    <2>1. Pred(o.next) = Wrap(e - 1)
      BY <1>0, SuccPred
    <2>2. e - 1 \in Int /\ n - (e - 1) \in -HalfRange .. HalfRange
      BY Half
    <2>3. IsSequenceNumberInFuture(Wrap(e - 1), Wrap(n)) <=> n > e - 1
      BY ONLY <2>2, FutureIsGreater, n \in Nat
    <2> QED BY <2>1, <2>3
  <1>2. CASE n < e
    <2>1. Dump(o, Wrap(n), AllowInDumpAndPush) = [orderer |-> o, out |-> <<>>]
      BY <1>1, <1>2 DEF Dump
    <2>2. SubSeq(q, 1, 0) = <<>>
      BY SubSeqEmpty
    <2>3. Pop(o, 0) = [orderer |-> o, out |-> <<>>]
      BY <2>2 DEF Pop
    <2>4. \A i \in 0 + 1 .. Len(q) : q[i].data # n
      BY <1>0, <1>2, Half
    <2> QED BY <1>0, <2>1, <2>3, <2>4
  <1>3. CASE n >= e
    <2> DEFINE S == {i \in Nat : Within(q[i].key)}
               k == DumpLength(o, AllowInDumpAndPush, Within)
    <2>1. PICK j \in 0 .. Len(q) : (\A i \in 1 .. j : i \in S) /\ (j < Len(q) => j + 1 \notin S)
      <3> HIDE DEF S, q
      <3> QED BY ONLY <1>0, LongestPrefix, Zenon
    <2>2. \A i \in 1 .. j : Within(q[i].key)
      BY <2>1, Zenon
    <2>3. j < Len(q) => ~Within(q[j + 1].key)
      <3>1. j + 1 \in Nat
        BY <1>0
      <3> QED BY <2>1, <3>1, Zenon
    <2>4. AllowInDumpAndPush # AllowNone
      BY OptionsAssumption
    <2>5. /\ k \in 0 .. Len(q)
          /\ k < Len(q) => ~Within(q[k + 1].key)
      BY <2>2, <2>3, <2>4, Zenon DEF DumpLength, PrefixLength
    <2>6. Dump(o, Wrap(n), AllowInDumpAndPush) = Pop(o, k)
      BY <1>1, <1>3 DEF Dump
    <2> HIDE DEF k
    <2>7. ASSUME NEW i \in k + 1 .. Len(q)
          PROVE  q[i].data # n
      <3>1. k < Len(q) /\ k + 1 \in DOMAIN q /\ i \in DOMAIN q /\ k + 1 <= i
        BY <1>0, <2>5
      <3>2. IsSequenceNumberInFuture(Wrap(n), Wrap(q[k + 1].data))
        BY <1>0, <2>5, <3>1
      <3>3. q[k + 1].data \in Int /\ q[k + 1].data - n \in -HalfRange .. HalfRange
        BY <1>0, <1>3, <3>1, Half
      <3>4. q[k + 1].data > n
        BY ONLY <3>2, <3>3, FutureIsGreater, n \in Nat
      <3>5. i = k + 1 \/ q[k + 1].data < q[i].data
        BY <1>0, <2>5, <3>1 DEF SortedByData
      <3> QED BY <3>3, <3>4, <3>5
    <2> QED BY <2>5, <2>6, <2>7
  <1> QED BY <1>2, <1>3

(* What is handed out in two parts. *)
LEMMA LeadsOn ==
    ASSUME NEW e \in Nat, NEW f \in Nat, NEW g \in Nat, NEW s, NEW t, Leads(s, e, f), Leads(t, f, g)
    PROVE  Leads(s \o t, e, g)
  <1>0. /\ s \in Seq(Entries) /\ t \in Seq(Entries) /\ SortedByData(s) /\ SortedByData(t)
        /\ \A i \in DOMAIN s : s[i].data \in e .. f - 1
        /\ \A i \in DOMAIN t : t[i].data \in f .. g - 1
        /\ f = IF s = <<>> THEN e ELSE s[Len(s)].data + 1
        /\ g = IF t = <<>> THEN f ELSE t[Len(t)].data + 1
    BY DEF Leads
  <1>1. e <= f /\ f <= g
    <2>1. s # <<>> => Len(s) \in DOMAIN s
      BY <1>0
    <2>2. t # <<>> => Len(t) \in DOMAIN t
      BY <1>0
    <2> QED BY <1>0, <2>1, <2>2
  <1> DEFINE u == s \o t
  <1>2. /\ u \in Seq(Entries) /\ Len(u) = Len(s) + Len(t)
        /\ \A i \in 1 .. Len(s) : u[i] = s[i]
        /\ \A i \in Len(s) + 1 .. Len(s) + Len(t) : u[i] = t[i - Len(s)]
    BY <1>0, ConcatProperties
  <1> HIDE DEF u
  <1>3. Len(s) \in Nat /\ Len(t) \in Nat /\ DOMAIN u = 1 .. Len(s) + Len(t)
        /\ DOMAIN s = 1 .. Len(s) /\ DOMAIN t = 1 .. Len(t)
    BY <1>0, <1>2
  <1>4. \A i \in DOMAIN u :
            \/ i \in DOMAIN s /\ u[i] = s[i]
            \/ i \in Len(s) + 1 .. Len(s) + Len(t) /\ i - Len(s) \in DOMAIN t /\ u[i] = t[i - Len(s)]
    BY <1>2, <1>3
  <1>5. SortedByData(u)
    <2> SUFFICES ASSUME NEW i \in DOMAIN u, NEW j \in DOMAIN u, i < j
                 PROVE  u[i].data < u[j].data
      BY DEF SortedByData
    <2>1. CASE i \in DOMAIN s /\ j \in DOMAIN s
      BY <1>0, <1>2, <1>3, <2>1 DEF SortedByData
    <2>2. CASE i \in DOMAIN s /\ j \notin DOMAIN s
      BY <1>0, <1>2, <1>3, <1>4, <2>2
    <2>3. CASE i \notin DOMAIN s
      <3>1. i - Len(s) \in DOMAIN t /\ j - Len(s) \in DOMAIN t /\ i - Len(s) < j - Len(s)
            /\ u[i] = t[i - Len(s)] /\ u[j] = t[j - Len(s)]
        BY <1>3, <1>4, <2>3
      <3> QED BY <1>0, <3>1 DEF SortedByData
    <2> QED BY <2>1, <2>2, <2>3
  <1>6. \A i \in DOMAIN u : u[i].data \in e .. g - 1
    <2>1. ASSUME NEW i \in DOMAIN s PROVE s[i].data \in e .. g - 1
      BY ONLY <1>0, <1>1, i \in DOMAIN s, e \in Nat, f \in Nat, g \in Nat
    <2>2. ASSUME NEW i \in DOMAIN t PROVE t[i].data \in e .. g - 1
      BY ONLY <1>0, <1>1, i \in DOMAIN t, e \in Nat, f \in Nat, g \in Nat
    <2> QED BY ONLY <1>4, <2>1, <2>2
  <1>7. g = IF u = <<>> THEN e ELSE u[Len(u)].data + 1
    <2>1. CASE t = <<>>
      <3>1. u = s /\ g = f
        BY <1>0, <2>1 DEF u
      <3> QED BY <1>0, <3>1
    <2>2. CASE t # <<>>
      <3>1. u # <<>> /\ u[Len(u)] = t[Len(t)]
        BY <1>0, <1>2, <1>3, <2>2
      <3> QED BY <1>0, <2>2, <3>1
    <2> QED BY <2>1, <2>2
  <1> QED BY <1>2, <1>5, <1>6, <1>7 DEF Leads, u

(* A single packet handed out. *)
LEMMA LeadsOne ==
    ASSUME NEW n \in Nat
    PROVE  Leads(<<Entry(n)>>, n, n + 1)
  <1>1. Entry(n) \in Entries /\ Entry(n).data = n
    BY EntryType
  <1> QED BY <1>1 DEF Leads, SortedByData

(* Nothing handed out. *)
LEMMA LeadsNowhere ==
    ASSUME NEW e
    PROVE  Leads(<<>>, e, e)
  BY DEF Leads, SortedByData

(* The counter starts at 0. *)
LEMMA WrapZero == Wrap(0) = 0
  <1>1. 0 \div Modulus \in Int /\ 0 % Modulus \in Numbers
        /\ 0 = Modulus * (0 \div Modulus) + (0 % Modulus)
    BY DivMod
  <1> DEFINE d == 0 \div Modulus
  <1> HIDE DEF d
  <1>2. ~(d > 0)
    <2>1. d > 0 => Modulus * d >= Modulus * 0 + Modulus
      BY <1>1, Quotients DEF d
    <2> QED BY <1>1, <2>1, ModulusAssumption DEF Numbers, d
  <1>3. ~(d < 0)
    <2>1. d < 0 => Modulus * 0 >= Modulus * d + Modulus
      BY <1>1, Quotients DEF d
    <2> QED BY <1>1, <2>1, ModulusAssumption DEF Numbers, d
  <1>4. d = 0
    BY <1>1, <1>2, <1>3 DEF d
  <1> QED BY <1>1, <1>4, ModulusAssumption DEF Wrap, d, Numbers

(* A packet in order lets the heap follow. *)
LEMMA PassesOn ==
    ASSUME NEW o, NEW n \in Nat, Expects(o, n), n \notin InHeap(o)
    PROVE  /\ Expects([o EXCEPT !.next = Succ(Entry(n).key)], n + 1)
           /\ InHeap([o EXCEPT !.next = Succ(Entry(n).key)]) = InHeap(o)
           /\ [o EXCEPT !.next = Succ(Entry(n).key)].first = o.first
  <1> DEFINE p == [o EXCEPT !.next = Succ(Entry(n).key)]
  <1>1. Succ(Entry(n).key) = Wrap(n + 1) /\ Wrap(n + 1) \in Numbers
    BY EntryType, SuccPred, WrapType
  <1>2. p = [first |-> o.first, next |-> Wrap(n + 1), heap |-> o.heap]
    BY <1>1 DEF Expects
  <1>3. \A i \in DOMAIN o.heap : o.heap[i].data \in n + 1 .. n + 1 + HalfRange - 1
    BY Half DEF Expects, InHeap
  <1>4. Expects(p, n + 1)
    BY <1>1, <1>2, <1>3 DEF Expects
  <1>5. p.heap = o.heap /\ p.first = o.first
    BY ONLY <1>2
  <1> QED BY <1>4, <1>5 DEF InHeap

(* A push hands out what leads on, and stores at most its packet. *)
LEMMA PushExpects ==
    ASSUME NEW e \in Nat, NEW o, Expects(o, e), o.first => e = 0,
           NEW n \in Nat, n - e \in -HalfRange .. HalfRange - 1, n \notin InHeap(o)
    PROVE  LET r == Push(o, Entry(n), AllowNone)
           IN  \E f \in Nat : /\ Expects(r.orderer, f) /\ Leads(r.out, e, f)
                              /\ InHeap(r.orderer) \subseteq InHeap(o) \cup {n}
                              /\ ~r.orderer.first
  <1> DEFINE p == Entry(n)
             r == Push(o, p, AllowNone)
             Good(s) == \E f \in Nat : /\ Expects(s.orderer, f) /\ Leads(s.out, e, f)
                                       /\ InHeap(s.orderer) \subseteq InHeap(o) \cup {n}
                                       /\ ~s.orderer.first
  <1>0. /\ p \in Entries /\ p.key = Wrap(n) /\ p.data = n /\ o.next = Wrap(e)
        /\ o \in [first : BOOLEAN, next : Numbers, heap : Seq(Entries)]
    BY EntryType DEF Expects
  <1> HIDE DEF p
  <1>1. IsTooOld(o, p) <=> ~o.first /\ n < e
    <2>1. Pred(o.next) = Wrap(e - 1)
      BY <1>0, SuccPred
    <2>2. e - 1 \in Int /\ n - (e - 1) \in -HalfRange .. HalfRange
      BY Half
    <2>3. IsSequenceNumberInFuture(Wrap(e - 1), Wrap(n)) <=> n > e - 1
      BY ONLY <2>2, FutureIsGreater, n \in Nat
    <2> QED BY <1>0, <2>1, <2>3 DEF IsTooOld
  <1>2. CASE IsTooOld(o, p)
    <2>1. r = [orderer |-> o, out |-> <<>>]
      BY <1>2 DEF Push
    <2> HIDE DEF r
    <2> QED BY <1>1, <1>2, <2>1, LeadsNowhere DEF r, p
  <1>3. CASE o.first
    <2>1. e = 0 /\ o.heap = <<>> /\ r = PushFirst(o, p)
      BY <1>1, <1>3, OptionsAssumption DEF Push, Expects
    <2> DEFINE o1 == [o EXCEPT !.first = FALSE]
    <2>a. o1 = [first |-> FALSE, next |-> Wrap(0), heap |-> <<>>]
      <3>1. o.next = Wrap(0) /\ o.heap = <<>>
        BY ONLY <1>0, <2>1
      <3>2. o1 = [first |-> FALSE, next |-> o.next, heap |-> o.heap]
        <4>1. o \in [first : BOOLEAN, next : Numbers, heap : Seq(Entries)]
          BY ONLY <1>0
        <4>2. \A x : [o EXCEPT !.first = x] = [first |-> x, next |-> o.next, heap |-> o.heap]
          BY ONLY <4>1
        <4> QED BY ONLY <4>2, Zenon DEF o1
      <3> QED BY ONLY <3>1, <3>2
    <2>b. o1.heap = <<>> /\ ~o1.first
      BY ONLY <2>a
    <2>2. InHeap(o1) = {}
      BY ONLY <2>b DEF InHeap
    <2>3. Expects(o1, 0)
      BY <1>0, <2>1, <2>a DEF Expects, SortedByData
    <2>4. CASE p.key = 0
      <3>1. n = 0
        <4>1. 0 - n \in -HalfRange .. HalfRange /\ Wrap(n) = Wrap(0)
          BY <1>0, <2>1, <2>4, WrapZero, Half
        <4> QED BY ONLY <4>1, WrapInjective, n \in Nat
      <3>2. r = [orderer |-> [o EXCEPT !.first = FALSE, !.next = Succ(p.key)], out |-> <<p>>]
        BY <2>1, <2>4 DEF PushFirst
      <3>3. [o EXCEPT !.first = FALSE, !.next = Succ(p.key)] = [o1 EXCEPT !.next = Succ(p.key)]
        BY <1>0
      <3> HIDE DEF o1, r
      <3>4. /\ Expects([o1 EXCEPT !.next = Succ(p.key)], 1) /\ InHeap([o1 EXCEPT !.next = Succ(p.key)]) = {}
            /\ ~[o1 EXCEPT !.next = Succ(p.key)].first
        <4>1. Expects(o1, n) /\ n \notin InHeap(o1)
          BY ONLY <2>2, <2>3, <3>1
        <4>2. /\ Expects([o1 EXCEPT !.next = Succ(p.key)], n + 1)
              /\ InHeap([o1 EXCEPT !.next = Succ(p.key)]) = InHeap(o1)
              /\ [o1 EXCEPT !.next = Succ(p.key)].first = o1.first
          BY ONLY <4>1, PassesOn, n \in Nat DEF p
        <4>3. n + 1 = 1
          BY <3>1
        <4> QED BY ONLY <2>2, <2>b, <4>2, <4>3
      <3>5. Leads(<<p>>, 0, 1)
        <4>1. n + 1 = 1
          BY <3>1
        <4>2. Leads(<<p>>, n, n + 1)
          BY LeadsOne DEF p
        <4> QED BY ONLY <3>1, <4>1, <4>2
      <3>6. r.orderer = [o1 EXCEPT !.next = Succ(p.key)] /\ r.out = <<p>>
        BY ONLY <3>2, <3>3
      <3>7. Good(r)
        BY <2>1, <3>4, <3>5, <3>6
      <3> QED BY ONLY <3>7 DEF r, p
    <2>5. CASE p.key # 0
      <3>1. r = [orderer |-> Store(o1, p), out |-> <<>>]
        BY <2>1, <2>5 DEF PushFirst
      <3>2. n \in 0 .. 0 + HalfRange - 1
        BY <2>1, Half
      <3> HIDE DEF o1, r
      <3>3. /\ Expects(Store(o1, p), 0) /\ ~Store(o1, p).first /\ InHeap(Store(o1, p)) = {n}
        <4>1. n \notin InHeap(o1) /\ 0 \in Nat
          BY ONLY <2>2
        <4>2. /\ Expects(Store(o1, p), 0) /\ ~Store(o1, p).first
              /\ InHeap(Store(o1, p)) = InHeap(o1) \cup {n}
          BY ONLY <2>3, <2>b, <3>2, <4>1, StoreExpects DEF p
        <4> QED BY ONLY <2>2, <4>2
      <3> QED BY <2>1, <3>1, <3>3, LeadsNowhere DEF r, p
    <2> QED BY <2>4, <2>5
  <1>4. CASE ~o.first /\ n >= e
    <2>1. r = PushInOrder(o, p)
      BY <1>1, <1>4, OptionsAssumption DEF Push
    <2> DEFINE before == Drain(o)
               o2     == [before.orderer EXCEPT !.next = Succ(p.key)]
               after  == Drain(o2)
    <2>2. PICK k \in 0 .. Len(o.heap) : before = Pop(o, k)
      BY DrainPops
    <2>3. PICK f \in e .. e + HalfRange :
              /\ Expects(before.orderer, f) /\ Leads(before.out, e, f)
              /\ InHeap(before.orderer) \subseteq InHeap(o) /\ ~before.orderer.first
              /\ before.out = <<>> => before.orderer = o
      <3> HIDE DEF before
      <3>1. PICK f \in e .. e + HalfRange :
                /\ Expects(before.orderer, f) /\ Leads(before.out, e, f)
                /\ InHeap(before.orderer) \subseteq InHeap(o)
                /\ before.orderer.first = o.first
                /\ before.out = <<>> => before.orderer = o
        BY <2>2, PopExpects
      <3> QED BY <1>4, <3>1
    <2>f. f \in Nat /\ n - f \in -HalfRange .. HalfRange
      BY <1>4, Half
    <2> HIDE DEF before
    <2>4. CASE before.orderer.next = p.key
      <3>1. n = f
        <4>1. Wrap(f) = Wrap(n)
          BY <1>0, <2>3, <2>4 DEF Expects
        <4> QED BY ONLY <2>f, <4>1, WrapInjective, n \in Nat
      <3>2. r = [orderer |-> after.orderer, out |-> before.out \o <<p>> \o after.out]
        BY <2>1, <2>4 DEF PushInOrder, before
      <3>3. Expects(o2, n + 1) /\ InHeap(o2) \subseteq InHeap(o) /\ ~o2.first
        BY <2>3, <3>1, PassesOn DEF p
      <3> HIDE DEF o2, r
      <3>4. PICK j \in 0 .. Len(o2.heap) : after = Pop(o2, j)
        BY <3>3, DrainPops
      <3> HIDE DEF after
      <3>5. PICK g \in n + 1 .. n + 1 + HalfRange :
                /\ Expects(after.orderer, g) /\ Leads(after.out, n + 1, g)
                /\ InHeap(after.orderer) \subseteq InHeap(o2)
                /\ after.orderer.first = o2.first
        <4>1. n + 1 \in Nat
          OBVIOUS
        <4> QED BY ONLY <3>3, <3>4, <4>1, PopExpects
      <3>7. g \in Nat
        BY Half
      <3>8. Leads(before.out \o <<p>>, e, n + 1)
        <4>1. Leads(<<p>>, n, n + 1)
          BY LeadsOne DEF p
        <4>2. Leads(before.out, e, n)
          BY ONLY <2>3, <3>1
        <4> QED BY ONLY <4>1, <4>2, LeadsOn, e \in Nat, n \in Nat
      <3>9. Leads(before.out \o <<p>> \o after.out, e, g)
        <4>1. n + 1 \in Nat /\ Leads(after.out, n + 1, g)
          BY ONLY <3>5, n \in Nat
        <4> QED BY ONLY <3>7, <3>8, <4>1, LeadsOn, e \in Nat
      <3>10. r.orderer = after.orderer /\ r.out = before.out \o <<p>> \o after.out
        BY ONLY <3>2
      <3>11. Good(r)
        BY ONLY <3>3, <3>5, <3>7, <3>9, <3>10
      <3> QED BY ONLY <3>11 DEF r, p
    <2>5. CASE before.orderer.next # p.key /\ before.out = <<>>
      <3>1. r = [orderer |-> Store(o, p), out |-> <<>>]
        BY <2>1, <2>5 DEF PushInOrder, before
      <3>2. n \in e .. e + HalfRange - 1
        BY <1>4, Half
      <3> HIDE DEF r
      <3>3. /\ Expects(Store(o, p), e) /\ ~Store(o, p).first /\ InHeap(Store(o, p)) = InHeap(o) \cup {n}
        BY <1>4, <3>2, StoreExpects DEF p
      <3> QED BY <3>1, <3>3, LeadsNowhere DEF r, p
    <2>6. CASE before.orderer.next # p.key /\ before.out # <<>>
      <3>1. r = before
        BY <2>1, <2>6 DEF PushInOrder, before
      <3> HIDE DEF r
      <3> QED BY <2>3, <2>f, <3>1 DEF r, p
    <2> QED BY <2>4, <2>5, <2>6
  <1> QED BY <1>1, <1>2, <1>3, <1>4

(* An instant packet never waits: the orderer jumps to it. *)
LEMMA PushJumps ==
    ASSUME NEW e \in Nat, NEW o, Expects(o, e), o.first => e = 0, o.heap = <<>>,
           NEW n \in Nat, n - e \in -HalfRange .. HalfRange - 1
    PROVE  LET r == Push(o, Entry(n), AllowInDumpAndPush)
           IN  \E f \in Nat : /\ Expects(r.orderer, f) /\ Leads(r.out, e, f)
                              /\ r.orderer.heap = <<>>
                              /\ r.orderer.first => f = 0
  <1> DEFINE p == Entry(n)
             r == Push(o, p, AllowInDumpAndPush)
  <1>0. /\ p \in Entries /\ p.key = Wrap(n) /\ p.data = n /\ o.next = Wrap(e)
        /\ o \in [first : BOOLEAN, next : Numbers, heap : Seq(Entries)]
    BY EntryType DEF Expects
  <1> HIDE DEF p
  <1>1. IsTooOld(o, p) <=> ~o.first /\ n < e
    <2>1. Pred(o.next) = Wrap(e - 1)
      BY <1>0, SuccPred
    <2>2. e - 1 \in Int /\ n - (e - 1) \in -HalfRange .. HalfRange
      BY Half
    <2>3. IsSequenceNumberInFuture(Wrap(e - 1), Wrap(n)) <=> n > e - 1
      BY ONLY <2>2, FutureIsGreater, n \in Nat
    <2> QED BY <1>0, <2>1, <2>3 DEF IsTooOld
  <1>2. CASE IsTooOld(o, p)
    <2>1. r = [orderer |-> o, out |-> <<>>]
      BY <1>2 DEF Push
    <2> HIDE DEF r
    <2>2. r.orderer = o /\ r.out = <<>> /\ ~o.first
      BY ONLY <1>1, <1>2, <2>1
    <2> QED BY <2>2, LeadsNowhere DEF r, p
  <1>3. CASE ~IsTooOld(o, p)
    <2>1. n >= e
      BY <1>1, <1>3
    <2>2. r = [orderer |-> [o EXCEPT !.first = FALSE, !.next = Succ(p.key)], out |-> <<p>>]
      BY <1>3 DEF Push
    <2>3. Succ(p.key) = Wrap(n + 1) /\ Wrap(n + 1) \in Numbers
      <3>1. n \in Int /\ n + 1 \in Int
        OBVIOUS
      <3>2. Succ(Wrap(n)) = Wrap(n + 1) /\ Wrap(n + 1) \in Numbers
        BY ONLY <3>1, SuccPred, WrapType
      <3> QED BY ONLY <1>0, <3>2
    <2> HIDE DEF r
    <2>4. r.orderer = [first |-> FALSE, next |-> Wrap(n + 1), heap |-> <<>>]
      <3>1. o \in [first : BOOLEAN, next : Numbers, heap : Seq(Entries)] /\ o.heap = <<>>
        BY ONLY <1>0, o.heap = <<>>
      <3>2. \A x : [o EXCEPT !.first = x] = [first |-> x, next |-> o.next, heap |-> o.heap]
        BY ONLY <3>1
      <3>3. [o EXCEPT !.first = FALSE] = [first |-> FALSE, next |-> o.next, heap |-> o.heap]
        BY ONLY <3>2, Zenon
      <3>4. [o EXCEPT !.first = FALSE, !.next = Succ(p.key)]
                = [[o EXCEPT !.first = FALSE] EXCEPT !.next = Succ(p.key)]
        BY <1>0
      <3>5. [o EXCEPT !.first = FALSE, !.next = Succ(p.key)]
                = [first |-> FALSE, next |-> Succ(p.key), heap |-> o.heap]
        <4>1. \A x, y : [[first |-> x, next |-> o.next, heap |-> o.heap] EXCEPT !.next = y]
                           = [first |-> x, next |-> y, heap |-> o.heap]
          BY ONLY TRUE
        <4>2. [[first |-> FALSE, next |-> o.next, heap |-> o.heap] EXCEPT !.next = Succ(p.key)]
                  = [first |-> FALSE, next |-> Succ(p.key), heap |-> o.heap]
          BY ONLY <4>1, Zenon
        <4> QED BY ONLY <3>3, <3>4, <4>2, Zenon
      <3> QED BY ONLY <2>2, <2>3, <3>1, <3>5
    <2>5. Expects(r.orderer, n + 1) /\ r.orderer.heap = <<>> /\ ~r.orderer.first
      BY <2>3, <2>4 DEF Expects, SortedByData
    <2>6. r.out = <<p>> /\ Leads(<<p>>, e, n + 1)
      BY <1>0, <2>1, <2>2 DEF Leads, SortedByData
    <2>7. n + 1 \in Nat
      OBVIOUS
    <2> QED BY <2>5, <2>6, <2>7 DEF r, p
  <1> QED BY <1>2, <1>3

-----------------------------------------------------------------------------
(* What the orderer has handed out *)

(* The number expected after the packets x, when the sender began with `start`. *)
ExpectedAfter(x, start) == IF x = <<>> THEN start ELSE x[Len(x)] + 1

(* Packets handed out in order, all of them behind the one expected. *)
History(x, start) ==
    /\ x \in Seq(Nat) /\ Increasing(x)
    /\ \A i \in DOMAIN x : x[i] < ExpectedAfter(x, start)

(* What leads on from the number expected extends the history. *)
LEMMA Joined ==
    ASSUME NEW x, NEW start \in Nat, History(x, start), NEW out, NEW f \in Nat,
           Leads(out, ExpectedAfter(x, start), f)
    PROVE  /\ History(x \o Payloads(out), start)
           /\ ExpectedAfter(x \o Payloads(out), start) = f
  <1> DEFINE e == ExpectedAfter(x, start)
             t == Payloads(out)
             y == x \o t
  <1>1. e \in Nat
    BY DEF ExpectedAfter, History
  <1>2. /\ x \in Seq(Nat) /\ Increasing(x) /\ \A i \in DOMAIN x : x[i] < e
        /\ e = IF x = <<>> THEN start ELSE x[Len(x)] + 1
        /\ out \in Seq(Entries) /\ SortedByData(out)
        /\ \A i \in DOMAIN out : out[i].data \in e .. f - 1
        /\ f = IF out = <<>> THEN e ELSE out[Len(out)].data + 1
    BY DEF History, Leads, ExpectedAfter
  <1> HIDE DEF e
  <1>3. /\ t \in Seq(Nat) /\ Len(t) = Len(out) /\ DOMAIN t = 1 .. Len(out)
        /\ \A i \in 1 .. Len(out) : t[i] = out[i].data
    <2>1. \A i \in DOMAIN out : out[i].data \in Nat
      BY <1>2 DEF Entries
    <2>2. DOMAIN out = 1 .. Len(out) /\ Len(out) \in Nat
      BY <1>2
    <2>3. t = [i \in 1 .. Len(out) |-> out[i].data]
      BY <2>2 DEF Payloads
    <2> QED BY <2>1, <2>2, <2>3
  <1> HIDE DEF t
  <1>4. /\ y \in Seq(Nat) /\ Len(y) = Len(x) + Len(out) /\ DOMAIN y = 1 .. Len(x) + Len(out)
        /\ \A i \in 1 .. Len(x) : y[i] = x[i]
        /\ \A i \in Len(x) + 1 .. Len(x) + Len(out) : y[i] = t[i - Len(x)]
    <2>1. /\ x \o t \in Seq(Nat) /\ Len(x \o t) = Len(x) + Len(t)
          /\ \A i \in 1 .. Len(x) + Len(t) :
                (x \o t)[i] = IF i <= Len(x) THEN x[i] ELSE t[i - Len(x)]
      BY ONLY <1>2, <1>3, ConcatProperties
    <2>2. Len(x) \in Nat /\ Len(t) \in Nat /\ Len(t) = Len(out)
      BY ONLY <1>2, <1>3
    <2> QED BY ONLY <2>1, <2>2 DEF y
  <1>5. /\ Len(x) \in Nat /\ Len(out) \in Nat
        /\ DOMAIN x = 1 .. Len(x) /\ DOMAIN out = 1 .. Len(out)
        /\ x = <<>> <=> Len(x) = 0
        /\ out = <<>> <=> Len(out) = 0
    BY <1>2
  <1> HIDE DEF y
  <1>6. \A i \in DOMAIN y :
            \/ i \in DOMAIN x /\ y[i] = x[i]
            \/ i \notin DOMAIN x /\ i - Len(x) \in DOMAIN out /\ y[i] = out[i - Len(x)].data
    <2> SUFFICES ASSUME NEW i \in DOMAIN y
                 PROVE  \/ i \in DOMAIN x /\ y[i] = x[i]
                        \/ i \notin DOMAIN x /\ i - Len(x) \in DOMAIN out /\ y[i] = out[i - Len(x)].data
      OBVIOUS
    <2>1. CASE i <= Len(x)
      BY <1>4, <1>5, <2>1
    <2>2. CASE i > Len(x)
      <3>1. /\ i \in Len(x) + 1 .. Len(x) + Len(out) /\ i \notin DOMAIN x
            /\ i - Len(x) \in 1 .. Len(out)
        BY ONLY <1>4, <1>5, <2>2, i \in DOMAIN y
      <3> QED BY ONLY <1>3, <1>4, <1>5, <3>1
    <2> QED BY <1>4, <1>5, <2>1, <2>2
  <1>7. e <= f
    <2>1. out # <<>> => Len(out) \in DOMAIN out
      BY <1>5
    <2> QED BY <1>1, <1>2, <2>1
  <1>8. \A i \in DOMAIN x : x[i] \in Nat
    BY <1>2
  <1>9. \A i \in DOMAIN out : out[i].data \in Nat
    BY <1>2 DEF Entries
  <1>10. Increasing(y)
    <2> SUFFICES ASSUME NEW i \in DOMAIN y, NEW j \in DOMAIN y, i < j
                 PROVE  y[i] < y[j]
      BY DEF Increasing
    <2>1. CASE i \in DOMAIN x /\ j \in DOMAIN x
      BY <1>2, <1>6, <2>1 DEF Increasing
    <2>2. CASE i \in DOMAIN x /\ j \notin DOMAIN x
      <3>1. y[i] < e /\ y[i] \in Nat
        BY <1>2, <1>6, <1>8, <2>2
      <3>2. e <= y[j] /\ y[j] \in Nat
        <4>1. ASSUME NEW l \in DOMAIN out PROVE e <= out[l].data
          BY ONLY <1>1, <1>2, <1>9, l \in DOMAIN out, f \in Nat
        <4>2. PICK l \in DOMAIN out : y[j] = out[l].data
          BY ONLY <1>6, <2>2, j \in DOMAIN y
        <4> QED BY ONLY <1>9, <4>1, <4>2
      <3> QED BY ONLY <1>1, <3>1, <3>2
    <2>3. CASE i \notin DOMAIN x
      <3>1. i - Len(x) \in DOMAIN out /\ j - Len(x) \in DOMAIN out /\ i - Len(x) < j - Len(x)
            /\ y[i] = out[i - Len(x)].data /\ y[j] = out[j - Len(x)].data
        BY <1>4, <1>5, <1>6, <2>3
      <3> QED BY ONLY <1>2, <3>1 DEF SortedByData
    <2> QED BY <2>1, <2>2, <2>3
  <1>11. \A i \in DOMAIN y : y[i] < f
    <2>1. ASSUME NEW i \in DOMAIN x PROVE x[i] < f
      BY ONLY <1>1, <1>2, <1>7, <1>8, i \in DOMAIN x, f \in Nat
    <2>2. ASSUME NEW i \in DOMAIN out PROVE out[i].data < f
      BY ONLY <1>1, <1>2, <1>9, i \in DOMAIN out, f \in Nat
    <2> QED BY ONLY <1>6, <2>1, <2>2
  <1>12. ExpectedAfter(y, start) = f
    <2>1. CASE out = <<>>
      <3>1. y = x /\ f = e
        BY <1>2, <1>3, <1>5, <2>1 DEF y
      <3> QED BY <3>1 DEF e
    <2>2. CASE out # <<>>
      <3>1. Len(y) \in DOMAIN y /\ Len(y) \notin DOMAIN x /\ Len(y) - Len(x) = Len(out) /\ y # <<>>
        BY <1>4, <1>5, <2>2
      <3>2. y[Len(y)] = out[Len(out)].data
        BY <1>6, <3>1
      <3> QED BY <1>2, <2>2, <3>1, <3>2 DEF ExpectedAfter
    <2> QED BY <2>1, <2>2
  <1> QED BY <1>4, <1>10, <1>11, <1>12 DEF History, t, y

(* A dump of an orderer that may still wait for its very first packet. *)
LEMMA PopKeeps ==
    ASSUME NEW e \in Nat, NEW o, Expects(o, e), o.first => e = 0, NEW k \in 0 .. Len(o.heap)
    PROVE  \E f \in Nat : /\ Expects(Pop(o, k).orderer, f) /\ Leads(Pop(o, k).out, e, f)
                          /\ InHeap(Pop(o, k).orderer) = {o.heap[i].data : i \in k + 1 .. Len(o.heap)}
                          /\ InHeap(Pop(o, k).orderer) \subseteq InHeap(o)
                          /\ Pop(o, k).orderer.first => f = 0
  <1> DEFINE r == Pop(o, k)
  <1>1. PICK f \in e .. e + HalfRange :
            /\ Expects(r.orderer, f) /\ Leads(r.out, e, f)
            /\ InHeap(r.orderer) = {o.heap[i].data : i \in k + 1 .. Len(o.heap)}
            /\ InHeap(r.orderer) \subseteq InHeap(o)
            /\ r.orderer.first = o.first
            /\ r.out = <<>> => r.orderer = o
    BY PopExpects
  <1>2. f \in Nat
    BY Half
  <1>3. o.first => r.out = <<>>
    <2>1. o.first => k = 0
      BY DEF Expects
    <2> QED BY <2>1, SubSeqEmpty DEF Pop
  <1>4. r.orderer.first => f = 0
    BY <1>1, <1>3 DEF Leads
  <1> QED BY <1>1, <1>2, <1>4

-----------------------------------------------------------------------------
(* The stabilizer *)

(* What ExportedInOrder needs of the senders: either instant frames only, or      *)
(* timeout frames only over a network that does not duplicate them.  The orderer  *)
(* jumps over what it has stored when the frames are mixed, and stores the second *)
(* copy of a waiting packet like a packet of its own.                             *)
SeparateKinds ==
    /\ Instant # Timeout
    /\ \A p \in Profiles : p.kinds = {Instant} \/ (p.kinds = {Timeout} /\ ~p.duplicates)

(* The types of TypeOK that do not follow from the rest, and of the read loop's packet. *)
Known ==
    /\ profile \in Profiles
    /\ sent \in Numbered \cup {profile.start + MaxSent}
    /\ network \subseteq Packets
    /\ registered \in BOOLEAN
    /\ reader.phase \in {"idle", "push", "hand"}
    /\ reader.phase # "idle" => reader.packet \in Packets
    /\ timers \subseteq Numbered
    /\ \A out \in handing : out # <<>>

(* The orderer expects the packet after the last one it handed out. *)
InSequence ==
    /\ History(exported, profile.start)
    /\ Expects(orderer, ExpectedAfter(exported, profile.start))
    /\ orderer.first => ExpectedAfter(exported, profile.start) = 0

(* A packet is on its way to the orderer or on its heap, never both. *)
Fresh ==
    profile.kinds = {Timeout} =>
        /\ \A n \in Stored : n < sent
        /\ \A p \in network : p.n < sent /\ p.n \notin Stored
        /\ reader.phase = "push" =>
              /\ reader.packet.n < sent /\ reader.packet.n \notin Stored
              /\ \A p \in network : p.n # reader.packet.n

(* Instant frames never wait. *)
NothingWaits == profile.kinds = {Instant} => orderer.heap = <<>>

IInv == Known /\ InSequence /\ Fresh /\ NothingWaits /\ StoredIsTimed

(* The numbers of a profile. *)
LEMMA Numbering ==
    ASSUME SeparateKinds, Known
    PROVE  /\ profile.start \in Nat /\ MaxSent \in Nat /\ Numbered \subseteq Nat
           /\ profile.kinds = {Instant} \/ (profile.kinds = {Timeout} /\ ~profile.duplicates)
           /\ Instant # Timeout
           /\ \A p \in Packets : p.n \in Nat /\ p.n \in Numbered /\ p.kind \in profile.kinds
  <1>1. profile.start \in Nat
    BY ProfilesAssumption DEF Known
  <1> QED BY <1>1, MaxSentAssumption DEF SeparateKinds, Known, Numbered, Packets

(* The expected number, in terms of what was handed out. *)
LEMMA ExpectedMeaning == Expected = ExpectedAfter(exported, profile.start)
  BY DEF Expected, ExpectedAfter, Last

(* The expected number is a true order number. *)
LEMMA ExpectedNat ==
    ASSUME SeparateKinds, Known, InSequence
    PROVE  Expected \in Nat
  <1>1. profile.start \in Nat
    BY Numbering
  <1>2. exported \in Seq(Nat)
    BY DEF InSequence, History
  <1>3. exported # <<>> => exported[Len(exported)] \in Nat
    BY <1>2
  <1> QED BY <1>1, <1>3, ExpectedMeaning DEF ExpectedAfter

(* The invariant holds at the start. *)
LEMMA InitIInv == SeparateKinds /\ Init => IInv
  <1> SUFFICES ASSUME SeparateKinds, Init PROVE IInv
    OBVIOUS
  <1>1. Known
    BY MaxSentAssumption, ProfilesAssumption DEF Known, Init, Numbered, Packets, Idle
  <1>2. orderer = [first |-> profile.start = 0, next |-> Wrap(profile.start), heap |-> <<>>]
    BY DEF Init, OrdererAfter, NewPacketOrderer
  <1>3. InSequence
    <2>1. profile.start \in Nat /\ exported = <<>>
      BY <1>1, Numbering DEF Init
    <2>2. Wrap(profile.start) \in Numbers
      BY <2>1, WrapType
    <2>3. ExpectedAfter(exported, profile.start) = profile.start
      BY <2>1 DEF ExpectedAfter
    <2>4. History(exported, profile.start)
      BY <2>1 DEF History, Increasing
    <2>5. Expects(orderer, profile.start) /\ (orderer.first => profile.start = 0)
      <3> DEFINE zero == profile.start = 0
      <3>1. zero \in BOOLEAN
        OBVIOUS
      <3>2. orderer = [first |-> zero, next |-> Wrap(profile.start), heap |-> <<>>]
        BY <1>2
      <3> HIDE DEF zero
      <3>3. \A b \in BOOLEAN : \A o : o = [first |-> b, next |-> Wrap(profile.start), heap |-> <<>>] =>
                /\ o \in [first : BOOLEAN, next : Numbers, heap : Seq(Entries)]
                /\ o.next = Wrap(profile.start) /\ o.heap = <<>> /\ (o.first <=> b)
        BY ONLY <2>2
      <3>4. /\ orderer \in [first : BOOLEAN, next : Numbers, heap : Seq(Entries)]
            /\ orderer.next = Wrap(profile.start) /\ orderer.heap = <<>> /\ (orderer.first <=> zero)
        BY ONLY <3>1, <3>2, <3>3, Zenon
      <3> QED BY ONLY <3>4 DEF Expects, SortedByData, zero
    <2> QED BY <2>3, <2>4, <2>5 DEF InSequence
  <1>4. Stored = {} /\ orderer.heap = <<>>
    BY <1>2 DEF Stored
  <1> QED BY <1>1, <1>3, <1>4 DEF IInv, Fresh, NothingWaits, StoredIsTimed, Init, Idle

(* Steps of the network and of the goroutines leave the orderer as it is. *)
LEMMA Untouched ==
    ASSUME InSequence, NothingWaits,
           profile' = profile, orderer' = orderer, exported' = exported
    PROVE  /\ Stored' = Stored /\ Numbered' = Numbered /\ Packets' = Packets
           /\ InSequence' /\ NothingWaits'
  BY DEF Stored, Numbered, Packets, InSequence, NothingWaits

(* A packet that is sent has a number no packet had before. *)
LEMMA SendKeeps ==
    ASSUME SeparateKinds, IInv, NEW kind \in profile.kinds, Send(kind)
    PROVE  IInv'
  <1> DEFINE p == [n |-> sent, kind |-> kind]
  <1>1. Stored' = Stored /\ Packets' = Packets /\ Numbered' = Numbered /\ InSequence' /\ NothingWaits'
    BY Untouched DEF Send, IInv
  <1>2. p \in Packets /\ p.n = sent /\ network' = network \cup {p} /\ sent' = sent + 1 /\ sent \in Nat
    BY Numbering DEF Send, Packets, IInv
  <1>3. sent' \in Numbered \cup {profile.start + MaxSent}
    BY Numbering DEF Send, Numbered, IInv
  <1>4. Known'
    BY <1>1, <1>2, <1>3 DEF Known, Send, IInv
  <1>5. Fresh'
    <2> SUFFICES ASSUME profile.kinds = {Timeout}
                 PROVE  /\ \A n \in Stored : n < sent'
                        /\ \A q \in network' : q.n < sent' /\ q.n \notin Stored
                        /\ reader.phase = "push" =>
                              /\ reader.packet.n < sent' /\ reader.packet.n \notin Stored
                              /\ \A q \in network' : q.n # reader.packet.n
      BY <1>1 DEF Fresh, Send
    <2>1. /\ \A n \in Stored : n < sent
          /\ \A q \in network : q.n < sent /\ q.n \notin Stored
          /\ reader.phase = "push" =>
                /\ reader.packet.n < sent /\ reader.packet.n \notin Stored
                /\ \A q \in network : q.n # reader.packet.n
      BY DEF Fresh, IInv
    <2>2. \A n \in Stored : n \in Nat
      <3>1. orderer.heap \in Seq(Entries)
        BY DEF IInv, InSequence, Expects
      <3>2. \A i \in DOMAIN orderer.heap : orderer.heap[i].data \in Nat
        <4>1. \A i \in DOMAIN orderer.heap : orderer.heap[i] \in Entries
          BY ONLY <3>1
        <4> QED BY ONLY <4>1 DEF Entries
      <3> QED BY ONLY <3>2 DEF Stored
    <2>3. /\ \A q \in network : q.n \in Nat
          /\ reader.phase = "push" => reader.packet.n \in Nat
      BY Numbering DEF IInv, Known
    <2>4. sent \notin Stored
      BY <1>2, <2>1
    <2> HIDE DEF p
    <2> QED BY ONLY <1>2, <2>1, <2>2, <2>3, <2>4
  <1>6. StoredIsTimed'
    BY <1>1 DEF StoredIsTimed, Send, IInv
  <1> QED BY <1>1, <1>4, <1>5, <1>6 DEF IInv

(* A lost packet leaves the orderer alone. *)
LEMMA LoseKeeps ==
    ASSUME SeparateKinds, IInv, NEW p \in network, Lose(p)
    PROVE  IInv'
  <1>1. Stored' = Stored /\ Packets' = Packets /\ Numbered' = Numbered /\ InSequence' /\ NothingWaits'
    BY Untouched DEF Lose, IInv
  <1>2. Known'
    BY <1>1 DEF Known, Lose, IInv
  <1>3. Fresh'
    BY <1>1 DEF Fresh, Lose, IInv
  <1>4. StoredIsTimed'
    BY <1>1 DEF StoredIsTimed, Lose, IInv
  <1> QED BY <1>1, <1>2, <1>3, <1>4 DEF IInv

(* A timeout frame is received once: the network does not duplicate it. *)
LEMMA ReceiveKeeps ==
    ASSUME SeparateKinds, IInv, NEW p \in network, Receive(p)
    PROVE  IInv'
  <1>1. Stored' = Stored /\ Packets' = Packets /\ Numbered' = Numbered /\ InSequence' /\ NothingWaits'
    BY Untouched DEF Receive, IInv
  <1>2. \/ reader'.phase = "idle"
        \/ reader'.phase = "push" /\ reader'.packet = p
    BY DEF Receive, Idle, Pushing
  <1>3. p \in Packets
    BY DEF IInv, Known
  <1>4. Known'
    BY <1>1, <1>2, <1>3 DEF Known, Receive, IInv
  <1>5. Fresh'
    <2> SUFFICES ASSUME profile.kinds = {Timeout}
                 PROVE  Fresh'
      BY DEF Fresh, Receive
    <2>1. network' = network \ {p}
      BY Numbering DEF Receive, IInv
    <2>2. ASSUME NEW q \in network, q # p PROVE q.n # p.n
      <3>1. q \in Packets /\ p.kind = Timeout /\ q.kind = Timeout
        BY <1>3, Numbering DEF IInv, Known
      <3>2. q = [n |-> q.n, kind |-> Timeout] /\ p = [n |-> p.n, kind |-> Timeout]
        BY ONLY <1>3, <3>1 DEF Packets
      <3> QED BY ONLY <2>2, <3>2
    <2>3. p.n < sent /\ p.n \notin Stored
      BY DEF IInv, Fresh
    <2>4. /\ \A n \in Stored : n < sent
          /\ \A q \in network : q.n < sent /\ q.n \notin Stored
      BY DEF IInv, Fresh
    <2> QED BY <1>1, <1>2, <2>1, <2>2, <2>3, <2>4 DEF Fresh, Receive
  <1>6. StoredIsTimed'
    BY <1>1 DEF StoredIsTimed, Receive, IInv, Idle
  <1> QED BY <1>1, <1>4, <1>5, <1>6 DEF IInv

(* Handing a packet to readFunc changes nothing of the orderer. *)
LEMMA ReaderHandsKeeps ==
    ASSUME SeparateKinds, IInv, ReaderHands
    PROVE  IInv'
  <1>1. Stored' = Stored /\ Packets' = Packets /\ Numbered' = Numbered /\ InSequence' /\ NothingWaits'
    BY Untouched DEF ReaderHands, IInv
  <1>2. reader'.phase = "hand" /\ reader'.packet = reader.packet /\ reader.phase = "hand"
    BY DEF ReaderHands, Handing
  <1>3. Known'
    BY <1>1, <1>2 DEF Known, ReaderHands, IInv
  <1>4. Fresh'
    BY <1>1, <1>2 DEF Fresh, ReaderHands, IInv
  <1>5. StoredIsTimed'
    BY <1>1, <1>2 DEF StoredIsTimed, ReaderHands, IInv
  <1> QED BY <1>1, <1>3, <1>4, <1>5 DEF IInv

(* What the read loop stored gets its timer here. *)
LEMMA ReaderDoneKeeps ==
    ASSUME SeparateKinds, IInv, ReaderDone
    PROVE  IInv'
  <1>1. Stored' = Stored /\ Packets' = Packets /\ Numbered' = Numbered /\ InSequence' /\ NothingWaits'
    BY Untouched DEF ReaderDone, IInv
  <1>2. reader'.phase = "idle" /\ reader.phase = "hand" /\ reader.packet \in Packets
    BY DEF ReaderDone, Idle, IInv, Known
  <1>3. timers' = IF reader.packet.kind = Timeout THEN timers \cup {reader.packet.n} ELSE timers
    BY DEF ReaderDone
  <1>4. Known'
    <2>1. timers' \subseteq Numbered
      BY <1>2, <1>3, Numbering DEF IInv, Known
    <2> QED BY <1>1, <1>2, <2>1 DEF Known, ReaderDone, IInv
  <1>5. Fresh'
    BY <1>1, <1>2 DEF Fresh, ReaderDone, IInv
  <1>6. StoredIsTimed'
    <2>1. CASE profile.kinds = {Instant}
      <3>1. Stored = {}
        BY <2>1 DEF IInv, NothingWaits, Stored
      <3> QED BY <1>1, <3>1 DEF StoredIsTimed
    <2>2. CASE profile.kinds = {Timeout}
      <3>1. timers' = timers \cup {reader.packet.n}
        BY <1>2, <1>3, <2>2, Numbering DEF IInv
      <3> QED BY <1>1, <3>1 DEF StoredIsTimed, IInv
    <2> QED BY <2>1, <2>2, Numbering DEF IInv
  <1> QED BY <1>1, <1>4, <1>5, <1>6 DEF IInv

(* Nor does a timer goroutine that hands one over. *)
LEMMA TimerHandsKeeps ==
    ASSUME SeparateKinds, IInv, NEW out \in handing, TimerHands(out)
    PROVE  IInv'
  <1>1. Stored' = Stored /\ Packets' = Packets /\ Numbered' = Numbered /\ InSequence' /\ NothingWaits'
    BY Untouched DEF TimerHands, IInv
  <1>2. Known'
    BY <1>1 DEF Known, TimerHands, IInv
  <1>3. Fresh'
    BY <1>1 DEF Fresh, TimerHands, IInv
  <1>4. StoredIsTimed'
    BY <1>1 DEF StoredIsTimed, TimerHands, IInv
  <1> QED BY <1>1, <1>2, <1>3, <1>4 DEF IInv

(* What the orderer gets, and what it leaves when a goroutine dumps it. *)
LEMMA OrdererFacts ==
    ASSUME SeparateKinds, IInv
    PROVE  /\ Expected \in Nat /\ Expects(orderer, Expected)
           /\ orderer.first => Expected = 0
           /\ History(exported, profile.start) /\ Expected = ExpectedAfter(exported, profile.start)
           /\ Stored = InHeap(orderer)
  BY ExpectedNat, ExpectedMeaning DEF IInv, InSequence, Stored, InHeap

(* A call of the orderer that leads on keeps it in sequence. *)
LEMMA ExportInSequence ==
    ASSUME NEW o, NEW out, NEW f \in Nat, NEW start \in Nat, NEW x, History(x, start),
           Expects(o, f), Leads(out, ExpectedAfter(x, start), f), o.first => f = 0
    PROVE  /\ History(x \o Payloads(out), start)
           /\ Expects(o, ExpectedAfter(x \o Payloads(out), start))
           /\ o.first => ExpectedAfter(x \o Payloads(out), start) = 0
  BY Joined

(* The timer of n takes n off the heap, so that no stored packet loses its timer. *)
LEMMA FireKeeps ==
    ASSUME SeparateKinds, IInv, NEW n \in timers, Fire(n)
    PROVE  IInv'
  <1> DEFINE r == Dump(orderer, Wrap(n), AllowInDumpAndPush)
  <1>1. /\ orderer' = r.orderer /\ exported' = exported \o Payloads(r.out)
        /\ handing' = handing \cup ({Payloads(r.out)} \ {<<>>}) /\ timers' = timers \ {n}
        /\ InReach(n)
        /\ UNCHANGED <<profile, sent, network, registered, reader, delivered>>
    BY DEF Fire, Export, HandLater
  <1>2. n \in Nat /\ n - Expected \in -HalfRange .. HalfRange - 1
    BY <1>1, Numbering DEF IInv, Known, InReach
  <1>3. PICK k \in 0 .. Len(orderer.heap) :
            r = Pop(orderer, k) /\ \A i \in k + 1 .. Len(orderer.heap) : orderer.heap[i].data # n
    BY <1>2, OrdererFacts, DumpPops
  <1> HIDE DEF r
  <1>4. PICK f \in Nat :
            /\ Expects(r.orderer, f) /\ Leads(r.out, Expected, f)
            /\ InHeap(r.orderer) = {orderer.heap[i].data : i \in k + 1 .. Len(orderer.heap)}
            /\ InHeap(r.orderer) \subseteq InHeap(orderer)
            /\ r.orderer.first => f = 0
    BY <1>3, OrdererFacts, PopKeeps
  <1>5. Stored' = InHeap(r.orderer)
    BY <1>1 DEF Stored, InHeap
  <1>6. Stored' \subseteq Stored \ {n}
    <2>1. n \notin InHeap(r.orderer)
      BY <1>3, <1>4
    <2> QED BY <1>4, <1>5, <2>1, OrdererFacts
  <1>7. InSequence'
    <2>1. profile.start \in Nat
      BY Numbering DEF IInv
    <2>2. /\ History(exported', profile.start)
          /\ Expects(orderer', ExpectedAfter(exported', profile.start))
          /\ orderer'.first => ExpectedAfter(exported', profile.start) = 0
      BY <1>1, <1>4, <2>1, OrdererFacts, ExportInSequence
    <2> QED BY <1>1, <2>2 DEF InSequence
  <1>8. Known'
    BY <1>1 DEF IInv, Known, Numbered, Packets
  <1>9. Fresh'
    BY <1>1, <1>6 DEF IInv, Fresh
  <1>10. NothingWaits'
    <2>1. ASSUME profile.kinds = {Instant} PROVE r.orderer.heap = <<>>
      <3>1. orderer.heap = <<>> /\ k = 0
        BY <2>1 DEF IInv, NothingWaits
      <3> QED BY <1>3, <3>1 DEF Pop
    <2> QED BY <1>1, <2>1 DEF NothingWaits
  <1>11. StoredIsTimed'
    BY <1>1, <1>6 DEF IInv, StoredIsTimed
  <1> QED BY <1>7, <1>8, <1>9, <1>10, <1>11 DEF IInv

(* CleanupConnection pops, it stores nothing. *)
LEMMA CleanupKeeps ==
    ASSUME SeparateKinds, IInv, Cleanup
    PROVE  IInv'
  <1> DEFINE r == DumpAll(orderer, AllowInDumpAndPush)
  <1>1. /\ orderer' = r.orderer /\ exported' = exported \o Payloads(r.out)
        /\ handing' = handing \cup ({Payloads(r.out)} \ {<<>>}) /\ registered' = FALSE
        /\ UNCHANGED <<profile, sent, network, reader, timers, delivered>>
    BY DEF Cleanup, Export, HandLater
  <1>2. PICK k \in 0 .. Len(orderer.heap) : r = Pop(orderer, k)
    BY OrdererFacts, DumpAllPops
  <1> HIDE DEF r
  <1>3. PICK f \in Nat :
            /\ Expects(r.orderer, f) /\ Leads(r.out, Expected, f)
            /\ InHeap(r.orderer) \subseteq InHeap(orderer)
            /\ r.orderer.first => f = 0
    BY <1>2, OrdererFacts, PopKeeps
  <1>4. Stored' \subseteq Stored
    <2>1. Stored' = InHeap(r.orderer)
      BY <1>1 DEF Stored, InHeap
    <2> QED BY <1>3, <2>1, OrdererFacts
  <1>5. InSequence'
    <2>1. profile.start \in Nat
      BY Numbering DEF IInv
    <2>2. /\ History(exported', profile.start)
          /\ Expects(orderer', ExpectedAfter(exported', profile.start))
          /\ orderer'.first => ExpectedAfter(exported', profile.start) = 0
      BY <1>1, <1>3, <2>1, OrdererFacts, ExportInSequence
    <2> QED BY <1>1, <2>2 DEF InSequence
  <1>6. Known'
    BY <1>1 DEF IInv, Known, Numbered, Packets
  <1>7. Fresh'
    BY <1>1, <1>4 DEF IInv, Fresh
  <1>8. NothingWaits'
    <2>1. ASSUME profile.kinds = {Instant} PROVE r.orderer.heap = <<>>
      <3>1. orderer.heap = <<>> /\ k = 0
        BY <2>1 DEF IInv, NothingWaits
      <3> QED BY <1>2, <3>1 DEF Pop
    <2> QED BY <1>1, <2>1 DEF NothingWaits
  <1>9. StoredIsTimed'
    BY <1>1, <1>4 DEF IInv, StoredIsTimed
  <1> QED BY <1>5, <1>6, <1>7, <1>8, <1>9 DEF IInv

(* The orderer after a push, for either kind of frame. *)
LEMMA PushOutcome ==
    ASSUME SeparateKinds, IInv, reader.phase = "push", InReach(reader.packet.n)
    PROVE  LET n     == reader.packet.n
               allow == IF reader.packet.kind = Instant THEN AllowInDumpAndPush ELSE AllowNone
               r     == Push(orderer, [key |-> Wrap(n), data |-> n], allow)
           IN  /\ \E f \in Nat : /\ Expects(r.orderer, f) /\ Leads(r.out, Expected, f)
                                 /\ r.orderer.first => f = 0
               /\ InHeap(r.orderer) \subseteq Stored \cup {n}
               /\ profile.kinds = {Instant} => r.orderer.heap = <<>>
  <1> DEFINE n     == reader.packet.n
             allow == IF reader.packet.kind = Instant THEN AllowInDumpAndPush ELSE AllowNone
             r     == Push(orderer, Entry(n), allow)
  <1>1. reader.packet \in Packets /\ n \in Nat /\ n - Expected \in -HalfRange .. HalfRange - 1
    BY Numbering DEF IInv, Known, InReach
  <1>2. CASE profile.kinds = {Instant}
    <2>1. allow = AllowInDumpAndPush /\ orderer.heap = <<>>
      BY <1>1, <1>2, Numbering DEF IInv, NothingWaits
    <2> HIDE DEF n, allow
    <2>2. PICK f \in Nat : /\ Expects(r.orderer, f) /\ Leads(r.out, Expected, f)
                           /\ r.orderer.heap = <<>>
                           /\ r.orderer.first => f = 0
      BY <1>1, <2>1, OrdererFacts, PushJumps
    <2>3. InHeap(r.orderer) = {}
      BY ONLY <2>2 DEF InHeap
    <2> QED BY <2>2, <2>3 DEF Entry, n, allow
  <1>3. CASE profile.kinds = {Timeout}
    <2>1. allow = AllowNone /\ profile.kinds # {Instant} /\ n \notin Stored
      BY <1>1, <1>3, Numbering DEF IInv, Fresh
    <2> HIDE DEF n, allow
    <2>2. PICK f \in Nat : /\ Expects(r.orderer, f) /\ Leads(r.out, Expected, f)
                           /\ InHeap(r.orderer) \subseteq InHeap(orderer) \cup {n}
                           /\ ~r.orderer.first
      BY <1>1, <2>1, OrdererFacts, PushExpects
    <2> QED BY <2>1, <2>2, OrdererFacts DEF Entry, n, allow
  <1> QED BY <1>2, <1>3, Numbering DEF IInv

(* What a push stores, the read loop still has to time. *)
LEMMA PushKeeps ==
    ASSUME SeparateKinds, IInv, PushPacket
    PROVE  IInv'
  <1> DEFINE n     == reader.packet.n
             allow == IF reader.packet.kind = Instant THEN AllowInDumpAndPush ELSE AllowNone
             r     == Push(orderer, [key |-> Wrap(n), data |-> n], allow)
  <1>1. /\ orderer' = r.orderer /\ exported' = exported \o Payloads(r.out)
        /\ reader' = Handing(reader.packet, Payloads(r.out))
        /\ reader.phase = "push" /\ InReach(n)
        /\ UNCHANGED <<profile, sent, network, registered, timers, handing, delivered>>
    BY DEF PushPacket, Export
  <1>2. /\ \E f \in Nat : /\ Expects(r.orderer, f) /\ Leads(r.out, Expected, f)
                          /\ r.orderer.first => f = 0
        /\ InHeap(r.orderer) \subseteq Stored \cup {n}
        /\ profile.kinds = {Instant} => r.orderer.heap = <<>>
    BY <1>1, PushOutcome
  <1> HIDE DEF r
  <1>3. Stored' \subseteq Stored \cup {n}
    <2>1. Stored' = InHeap(r.orderer)
      BY <1>1 DEF Stored, InHeap
    <2> QED BY <1>2, <2>1
  <1>4. reader'.phase = "hand" /\ reader'.packet = reader.packet
    BY <1>1 DEF Handing
  <1>5. InSequence'
    <2>1. profile.start \in Nat
      BY Numbering DEF IInv
    <2>2. /\ History(exported', profile.start)
          /\ Expects(orderer', ExpectedAfter(exported', profile.start))
          /\ orderer'.first => ExpectedAfter(exported', profile.start) = 0
      BY <1>1, <1>2, <2>1, OrdererFacts, ExportInSequence
    <2> QED BY <1>1, <2>2 DEF InSequence
  <1>6. Known'
    BY <1>1, <1>4 DEF IInv, Known, Numbered, Packets
  <1>7. Fresh'
    <2> SUFFICES ASSUME profile.kinds = {Timeout}
                 PROVE  Fresh'
      BY <1>1 DEF Fresh
    <2>1. /\ \A m \in Stored : m < sent
          /\ \A p \in network : p.n < sent /\ p.n \notin Stored /\ p.n # n
          /\ n < sent
      BY <1>1 DEF IInv, Fresh
    <2> QED BY <1>1, <1>3, <1>4, <2>1 DEF Fresh
  <1>8. NothingWaits'
    BY <1>1, <1>2 DEF NothingWaits
  <1>9. StoredIsTimed'
    BY <1>1, <1>3, <1>4 DEF IInv, StoredIsTimed
  <1> QED BY <1>5, <1>6, <1>7, <1>8, <1>9 DEF IInv

(* Every step keeps the invariant. *)
LEMMA NextIInv == SeparateKinds /\ IInv /\ [Next]_vars => IInv'
  <1> SUFFICES ASSUME SeparateKinds, IInv, [Next]_vars PROVE IInv'
    OBVIOUS
  <1>1. ASSUME NEW kind \in profile.kinds, Send(kind) PROVE IInv'
    BY <1>1, SendKeeps
  <1>2. ASSUME NEW p \in network, Receive(p) PROVE IInv'
    BY <1>2, ReceiveKeeps
  <1>3. ASSUME NEW p \in network, Lose(p) PROVE IInv'
    BY <1>3, LoseKeeps
  <1>4. CASE PushPacket
    BY <1>4, PushKeeps
  <1>5. CASE ReaderHands
    BY <1>5, ReaderHandsKeeps
  <1>6. CASE ReaderDone
    BY <1>6, ReaderDoneKeeps
  <1>7. ASSUME NEW n \in timers, Fire(n) PROVE IInv'
    BY <1>7, FireKeeps
  <1>8. ASSUME NEW out \in handing, TimerHands(out) PROVE IInv'
    BY <1>8, TimerHandsKeeps
  <1>9. CASE Cleanup
    BY <1>9, CleanupKeeps
  <1>10. CASE UNCHANGED vars
    <2>1. /\ profile' = profile /\ orderer' = orderer /\ exported' = exported
          /\ UNCHANGED <<sent, network, registered, reader, timers, handing>>
      BY <1>10 DEF vars
    <2>2. Stored' = Stored /\ Packets' = Packets /\ Numbered' = Numbered /\ InSequence' /\ NothingWaits'
      BY <2>1, Untouched DEF IInv
    <2>3. Known' /\ Fresh' /\ StoredIsTimed'
      BY <2>1, <2>2 DEF IInv, Known, Fresh, StoredIsTimed
    <2> QED BY <2>2, <2>3 DEF IInv
  <1> QED BY <1>1, <1>2, <1>3, <1>4, <1>5, <1>6, <1>7, <1>8, <1>9, <1>10 DEF Next

(* The invariant holds in every state. *)
LEMMA Invariance == SeparateKinds => (Spec => []IInv)
  <1> SUFFICES ASSUME SeparateKinds PROVE Spec => []IInv
    OBVIOUS
  <1>1. Init => IInv
    BY InitIInv
  <1>2. IInv /\ [Next]_vars => IInv'
    BY NextIInv
  <1> QED BY <1>1, <1>2, PTL DEF Spec

-----------------------------------------------------------------------------
(* What the packet orderer promises *)

(* The types of the sender, the network, the goroutines and the orderer. *)
THEOREM TypeCorrect == SeparateKinds => (Spec => []TypeOK)
  <1> SUFFICES ASSUME SeparateKinds PROVE Spec => []TypeOK
    OBVIOUS
  <1>1. IInv => TypeOK
    BY OrdererFacts DEF IInv, Known, Expects, TypeOK
  <1> QED BY <1>1, Invariance, PTL

(* PushWithMissingPacketOption, Dump and DumpAll hand packets out in the order in    *)
(* which they were sent, none twice, whatever the width of the order number: across  *)
(* any number of wrap-arounds, losses and overtakings, timers firing in any order    *)
(* and the connection cleaned up at any moment.                                      *)
THEOREM HandedOutInOrder == SeparateKinds => (Spec => []ExportedInOrder)
  <1> SUFFICES ASSUME SeparateKinds PROVE Spec => []ExportedInOrder
    OBVIOUS
  <1>1. IInv => ExportedInOrder
    BY DEF IInv, InSequence, History, ExportedInOrder
  <1> QED BY <1>1, Invariance, PTL

(* No packet behind one handed out stays on the heap, where it would block all others. *)
THEOREM NothingStale == SeparateKinds => (Spec => []NoStaleStored)
  <1> SUFFICES ASSUME SeparateKinds PROVE Spec => []NoStaleStored
    OBVIOUS
  <1>1. IInv => NoStaleStored
    BY OrdererFacts, Half DEF Expects, NoStaleStored, Stored
  <1> QED BY <1>1, Invariance, PTL

(* A packet on the heap has a timer that will dump it, or the read loop that is about *)
(* to start one: no stored packet waits for traffic that may never come.              *)
THEOREM StoredHasTimer == SeparateKinds => (Spec => []StoredIsTimed)
  <1> SUFFICES ASSUME SeparateKinds PROVE Spec => []StoredIsTimed
    OBVIOUS
  <1>1. IInv => StoredIsTimed
    BY DEF IInv
  <1> QED BY <1>1, Invariance, PTL
====
