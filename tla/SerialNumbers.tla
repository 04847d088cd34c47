---- MODULE SerialNumbers ----
(***************************************************************************)
(* Unsigned counters that wrap around, and the serial-number comparison    *)
(* the packet orderer and the replay window are built on.  The Go code is  *)
(* generic in the counter type (~uint8 | ~uint16 | ~uint32 | ~uint64);     *)
(* Modulus is 2^w for the w bits of that type, and a subtraction of two    *)
(* counters wraps modulo 2^w.                                              *)
(***************************************************************************)
EXTENDS Integers

CONSTANT Modulus

ASSUME ModulusAssumption == Modulus \in Nat /\ Modulus >= 4

Numbers == 0 .. Modulus - 1

(* The counter value of the n-th number: the conversion that truncates to w bits. *)
Wrap(n) == n % Modulus

(* to - from in unsigned arithmetic. *)
Jump(from, to) == IF to >= from THEN to - from ELSE to - from + Modulus

(* Mutant of Succ: the counter does not wrap. *)
SuccUnwrapped(n) == n + 1

(* number + 1 in unsigned arithmetic. *)
Succ(n) == IF n = Modulus - 1 THEN 0 ELSE n + 1

(* number - 1 in unsigned arithmetic. *)
Pred(n) == IF n = 0 THEN Modulus - 1 ELSE n - 1

(* (T(0) - 1) >> 1 *)
HalfRange == (Modulus - 1) \div 2

IsSequenceNumberInFuture(rightEdge, number) == Jump(rightEdge, number) \in 1 .. HalfRange
====
