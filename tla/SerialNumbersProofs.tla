---- MODULE SerialNumbersProofs ----
(***************************************************************************)
(* Arithmetic of wrapped counters: as long as two true numbers are less    *)
(* than Modulus apart, the difference of their truncated values recovers   *)
(* their distance.  Then two facts about sequences that the proofs about   *)
(* stored packets share.                                                   *)
(***************************************************************************)
EXTENDS SerialNumbers, SequenceTheorems, WellFoundedInduction, TLAPS

(* Division with remainder by the modulus of the counter type. *)
LEMMA DivMod ==
    ASSUME NEW n \in Int
    PROVE  /\ n \div Modulus \in Int
           /\ n % Modulus \in Numbers
           /\ n = Modulus * (n \div Modulus) + (n % Modulus)
  BY ModulusAssumption DEF Numbers

(* Truncating any integer gives a value of the counter type. *)
LEMMA WrapType ==
    ASSUME NEW n \in Int
    PROVE  Wrap(n) \in Numbers
  BY DivMod DEF Wrap

(* A later turn of the counter begins at least one whole turn further on. *)
LEMMA Quotients ==
    ASSUME NEW p \in Int, NEW q \in Int, q > p
    PROVE  Modulus * q >= Modulus * p + Modulus
  <1>1. PICK d \in Nat : q = p + 1 + d
    <2>1. q - p - 1 \in Nat /\ q = p + 1 + (q - p - 1)
      OBVIOUS
    <2> QED BY <2>1
  <1>2. Modulus * q = Modulus * p + Modulus + Modulus * d
    BY <1>1, ModulusAssumption
  <1>3. Modulus * d >= 0
    BY ModulusAssumption
  <1> QED BY <1>2, <1>3, ModulusAssumption

(* The unsigned difference of two truncated numbers is their true difference *)
(* when the second is less than a modulus ahead.                             *)
LEMMA JumpWrap ==
    ASSUME NEW a \in Int, NEW b \in Int, b - a \in 0 .. Modulus - 1
    PROVE  Jump(Wrap(a), Wrap(b)) = b - a
  <1> DEFINE p == a \div Modulus
             q == b \div Modulus
  <1> HIDE DEF p, q
  <1>1. /\ p \in Int /\ q \in Int
        /\ Wrap(a) \in Numbers /\ Wrap(b) \in Numbers
        /\ a = Modulus * p + Wrap(a)
        /\ b = Modulus * q + Wrap(b)
    BY DivMod DEF p, q, Wrap
  <1>2. Modulus * p \in Int /\ Modulus * q \in Int
    BY <1>1, ModulusAssumption
  <1>3. q >= p
    <2> SUFFICES ASSUME p > q PROVE FALSE
      BY <1>1
    <2>1. Modulus * p >= Modulus * q + Modulus
      BY <1>1, Quotients
    <2> QED BY <2>1, <1>1, <1>2, ModulusAssumption DEF Numbers
  <1>4. ~(q > p + 1)
    <2> SUFFICES ASSUME q > p + 1 PROVE FALSE
      OBVIOUS
    <2>1. Modulus * q >= Modulus * (p + 1) + Modulus
      BY <1>1, Quotients
    <2>2. Modulus * (p + 1) = Modulus * p + Modulus
      BY <1>1, ModulusAssumption
    <2> QED BY <2>1, <2>2, <1>1, <1>2, ModulusAssumption DEF Numbers
  <1>5. CASE q = p
    BY <1>5, <1>1, <1>2, ModulusAssumption DEF Jump, Numbers
  <1>6. CASE q = p + 1
    <2>1. Modulus * q = Modulus * p + Modulus
      BY <1>6, <1>1, ModulusAssumption
    <2> QED BY <2>1, <1>1, <1>2, ModulusAssumption DEF Jump, Numbers
  <1> QED BY <1>1, <1>3, <1>4, <1>5, <1>6

(* The same when the second is behind: the difference is short of a full turn. *)
LEMMA JumpWrapBack ==
    ASSUME NEW a \in Int, NEW b \in Int, a - b \in 1 .. Modulus - 1
    PROVE  Jump(Wrap(a), Wrap(b)) = Modulus - (a - b)
  <1>1. Jump(Wrap(b), Wrap(a)) = a - b
    BY JumpWrap, ModulusAssumption
  <1>2. Wrap(a) \in Numbers /\ Wrap(b) \in Numbers
    BY WrapType
  <1> QED BY <1>1, <1>2, ModulusAssumption DEF Jump, Numbers

(* A value of the counter type is not changed by truncation. *)
LEMMA WrapSame ==
    ASSUME NEW n \in Numbers
    PROVE  Wrap(n) = n
  <1>1. n \in Int /\ 0 <= n /\ n < Modulus
    BY ModulusAssumption DEF Numbers
  <1>2. PICK q \in Int : n = Modulus * q + Wrap(n)
    BY <1>1, DivMod DEF Wrap
  <1>3. Wrap(n) \in Int /\ 0 <= Wrap(n) /\ Wrap(n) < Modulus
    BY <1>1, WrapType, ModulusAssumption DEF Numbers
  <1>4. Modulus * q \in Int /\ Modulus * 0 = 0
    BY <1>2, ModulusAssumption
  <1>5. ~(q > 0)
    BY <1>1, <1>2, <1>3, <1>4, Quotients, ModulusAssumption
  <1>6. ~(0 > q)
    BY <1>1, <1>2, <1>3, <1>4, Quotients, ModulusAssumption
  <1> QED BY <1>2, <1>3, <1>4, <1>5, <1>6

(* Half of the counter's range, as far as comparisons reach. *)
LEMMA Half == HalfRange \in Nat \ {0} /\ 2 * HalfRange <= Modulus - 1
  BY ModulusAssumption DEF HalfRange

(* Truncated numbers in reach of each other compare like the true ones. *)
LEMMA FutureIsGreater ==
    ASSUME NEW a \in Int, NEW b \in Int, b - a \in -HalfRange .. HalfRange
    PROVE  IsSequenceNumberInFuture(Wrap(a), Wrap(b)) <=> b > a
  <1>1. CASE b >= a
    <2>1. Jump(Wrap(a), Wrap(b)) = b - a
      BY <1>1, JumpWrap, Half, ModulusAssumption
    <2> QED BY <1>1, <2>1, Half DEF IsSequenceNumberInFuture
  <1>2. CASE a > b
    <2>1. Jump(Wrap(a), Wrap(b)) = Modulus - (a - b)
      BY <1>2, JumpWrapBack, Half, ModulusAssumption
    <2>2. Modulus - (a - b) > HalfRange
      BY Half, ModulusAssumption
    <2> QED BY <1>2, <2>1, <2>2, Half, ModulusAssumption DEF IsSequenceNumberInFuture
  <1> QED BY <1>1, <1>2

-----------------------------------------------------------------------------
(* Sequences *)

(* The longest prefix exists. *)
LEMMA LongestPrefix ==
    ASSUME NEW m \in Nat, NEW S
    PROVE  \E k \in 0 .. m : /\ \A i \in 1 .. k : i \in S
                             /\ k < m => k + 1 \notin S
  <1> DEFINE T == {k \in Nat : k = m \/ k + 1 \notin S}
  <1>1. m \in T /\ T \subseteq Nat
    OBVIOUS
  <1>2. PICK k \in T : \A j \in T : ~(<<j, k>> \in OpToRel(<, Nat))
    BY <1>1, WFMin, NatLessThanWellFounded, Zenon
  <1>3. k \in T /\ \A j \in T : ~(j < k)
    BY <1>1, <1>2, Zenon DEF OpToRel
  <1>4. k \in 0 .. m
    BY <1>1, <1>3
  <1>5. ASSUME NEW i \in 1 .. k PROVE i \in S
    <2>1. i - 1 \in Nat /\ i - 1 < k
      BY <1>4
    <2>2. i - 1 \notin T
      BY <1>3, <2>1
    <2> QED BY <1>4, <2>1, <2>2
  <1> QED BY <1>3, <1>4, <1>5

(* A part of a sequence. *)
LEMMA PartOf ==
    ASSUME NEW T, NEW q \in Seq(T), NEW k \in 0 .. Len(q)
    PROVE  /\ SubSeq(q, 1, k) \in Seq(T) /\ Len(SubSeq(q, 1, k)) = k
           /\ \A i \in 1 .. k : SubSeq(q, 1, k)[i] = q[i]
           /\ SubSeq(q, k + 1, Len(q)) \in Seq(T)
           /\ Len(SubSeq(q, k + 1, Len(q))) = Len(q) - k
           /\ \A i \in 1 .. Len(q) - k : SubSeq(q, k + 1, Len(q))[i] = q[k + i]
           /\ DOMAIN SubSeq(q, 1, k) = 1 .. k
           /\ DOMAIN SubSeq(q, k + 1, Len(q)) = 1 .. Len(q) - k
  <1>1. \A i \in 1 .. Len(q) : q[i] \in T
    OBVIOUS
  <1>2. /\ SubSeq(q, 1, k) \in Seq(T) /\ Len(SubSeq(q, 1, k)) = k
        /\ \A i \in 1 .. k : SubSeq(q, 1, k)[i] = q[i]
    <2>1. \A i \in 1 .. k : q[i] \in T
      BY <1>1
    <2>2. /\ SubSeq(q, 1, k) \in Seq(T)
          /\ Len(SubSeq(q, 1, k)) = IF 1 <= k THEN k - 1 + 1 ELSE 0
          /\ \A i \in 1 .. k - 1 + 1 : SubSeq(q, 1, k)[i] = q[1 + i - 1]
      BY <2>1, SubSeqProperties
    <2> QED BY <2>2
  <1>3. /\ SubSeq(q, k + 1, Len(q)) \in Seq(T)
        /\ Len(SubSeq(q, k + 1, Len(q))) = Len(q) - k
        /\ \A i \in 1 .. Len(q) - k : SubSeq(q, k + 1, Len(q))[i] = q[k + i]
    <2>1. k + 1 \in Int /\ Len(q) \in Int /\ \A i \in k + 1 .. Len(q) : q[i] \in T
      BY <1>1
    <2>2. /\ SubSeq(q, k + 1, Len(q)) \in Seq(T)
          /\ Len(SubSeq(q, k + 1, Len(q))) = IF k + 1 <= Len(q) THEN Len(q) - (k + 1) + 1 ELSE 0
          /\ \A i \in 1 .. Len(q) - (k + 1) + 1 : SubSeq(q, k + 1, Len(q))[i] = q[k + 1 + i - 1]
      BY <2>1, SubSeqProperties
    <2> QED BY <2>2
  <1> QED BY <1>2, <1>3
====
