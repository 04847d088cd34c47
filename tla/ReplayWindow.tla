---- MODULE ReplayWindow ----
(***************************************************************************)
(* The replay window of helpertools: which of the last Size numbers have   *)
(* been seen.  A window is a record                                        *)
(*   first  no number has been applied yet (isFirstValue)                  *)
(*   right  the highest number (rightEdge), a wrapped counter              *)
(*   bits   the set bits, as distances from the right edge: k \in bits     *)
(*          stands for the number right - k                                *)
(* The array of words is abstracted to that set; a left shift of the array *)
(* adds to every distance and drops what leaves the window.                *)
(***************************************************************************)
EXTENDS SerialNumbers

CONSTANTS WordBits,   \* bits of windowHolderType
          WordCount   \* words in the window (windowWordCount)

Size == WordBits * WordCount

(* What a usable window needs: it is not empty, and its size is a value of  *)
(* the counter type. MakeReplayWindow refuses a count of 0, but it compares *)
(* the size with the type only for words of one or two bytes, and there by  *)
(* a product of eight bits; for the rest it relies on its caller.           *)
ASSUME WindowAssumption == /\ WordBits \in Nat \ {0}
                           /\ WordCount \in Nat \ {0}
                           /\ Size \in Nat
                           /\ Size >= 1
                           /\ Size < Modulus

Distances == 0 .. Size - 1

Windows == [first : BOOLEAN, right : Numbers, bits : SUBSET Distances]

MakeReplayWindow == [first |-> TRUE, right |-> 0, bits |-> {}]

(* BitShiftArrayLeft on an array of `size` bits. *)
ShiftWithin(bits, k, size) == {d \in 0 .. size - 1 : d - k \in bits}

(* Mutant of Shift: bits pushed past the left end of the array are kept. *)
ShiftNoDrop(bits, k) == {d + k : d \in bits}

Shift(bits, k) == ShiftWithin(bits, k, Size)

(* A number the window moves forward to. *)
IsForward(w, n) == Jump(w.right, n) \in 1 .. HalfRange - 1

(* Mutant of Accepts: the bit of an older number is not looked at. *)
AcceptsIgnoringBits(w, n) == w.first \/ IsForward(w, n) \/ Jump(n, w.right) \in 1 .. Size - 1

(* Mutant of Accepts: the lowest bit of the window is treated as outside. *)
AcceptsNarrow(w, n) ==
    w.first \/ IsForward(w, n) \/ Jump(n, w.right) \in (1 .. Size - 2) \ w.bits

(* What ApplyWindowCheck(n) returns. *)
Accepts(w, n) == w.first \/ IsForward(w, n) \/ Jump(n, w.right) \in (1 .. Size - 1) \ w.bits

(* The window ApplyWindowCheck(n) leaves.  A jump of Size or more clears every *)
(* old bit, which is what the shift by that much does.                         *)
AfterCheck(w, n) ==
    IF w.first
    THEN [first |-> FALSE, right |-> n, bits |-> {0}]
    ELSE IF IsForward(w, n)
         THEN [w EXCEPT !.right = n, !.bits = {0} \cup Shift(@, Jump(w.right, n))]
         ELSE IF Accepts(w, n) THEN [w EXCEPT !.bits = @ \cup {Jump(n, w.right)}] ELSE w

(* Mutant of CheckValue: the lowest bit of the window is treated as outside. *)
CheckValueNarrow(w, n) == Jump(n, w.right) \in w.bits \ {Size - 1}

(* Mutant of CheckValue: a number that has left the window counts as seen. *)
CheckValueStale(w, n) == Jump(n, w.right) \in w.bits \cup (Size .. HalfRange - 1)

(* CheckValue: the number is inside the window and its bit is set. *)
CheckValue(w, n) == Jump(n, w.right) \in w.bits

(* GetWindowDataBytes(limit, _): the right edge and the `limit` rightmost words. *)
GetWindowData(w, limit) ==
    [right |-> w.right, words |-> limit, bits |-> w.bits \cap (0 .. limit * WordBits - 1)]

(* Mutant of JoinWindowData: an older window is ORed in without the shift. *)
JoinUnshifted(w, data) ==
    LET forward == Jump(w.right, data.right)
    IN  IF forward < HalfRange
        THEN [first |-> FALSE, right |-> data.right, bits |-> Shift(w.bits, forward) \cup data.bits]
        ELSE [w EXCEPT !.first = FALSE, !.bits = @ \cup data.bits]

(* JoinWindowData: OR the received words into the window.  Moved forward, the  *)
(* window is shifted; otherwise the received words are, within their length.   *)
JoinWindowData(w, data) ==
    LET forward == Jump(w.right, data.right)
        older   == Jump(data.right, w.right)
    IN  IF forward < HalfRange
        THEN [first |-> FALSE, right |-> data.right, bits |-> Shift(w.bits, forward) \cup data.bits]
        ELSE [w EXCEPT !.first = FALSE,
                       !.bits = @ \cup (ShiftWithin(data.bits, older, data.words * WordBits)
                                          \cap Distances)]
====
