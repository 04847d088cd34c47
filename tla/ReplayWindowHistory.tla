---- MODULE ReplayWindowHistory ----
(***************************************************************************)
(* A receiver's replay window and the sender's copy of it, against the     *)
(* true numbers they stand for.                                            *)
(*                                                                         *)
(* Numbers are naturals that never wrap; the code sees them truncated to   *)
(* its counter type (Wrap).  The receiver applies incoming numbers to      *)
(* `window` (incomingPacketsWindow, ApplyWindowCheck).  It reports the     *)
(* window in ACKs, which travel in any order and may be lost or repeated;  *)
(* the sender joins them into `mirror` (sendedPacketsACKsWindow,           *)
(* JoinWindowDataBytes) and asks CheckValue(mirror, n) to decide whether n *)
(* still has to be resent.                                                 *)
(*                                                                         *)
(* Truncated counters identify a number only while it is close enough to   *)
(* the edge it is compared with: InReach and JoinInReach name that limit   *)
(* on how far the network may reorder, and nothing else is assumed of it.  *)
(***************************************************************************)
EXTENDS ReplayWindow, FiniteSets

CONSTANTS Arrivals,   \* the numbers the network may bring, in any order, any number of times
          MaxAcks     \* how many ACKs may be in flight at once

ASSUME ArrivalsAssumption == Arrivals \subseteq Nat /\ MaxAcks \in Nat

VARIABLES window,     \* incomingPacketsWindow of the receiver
          top,        \* the true number window.right stands for
          accepted,   \* history: the true numbers ApplyWindowCheck let through
          acks,       \* ACKs in flight: [top: true number of the edge, data: the bytes]
          mirror,     \* sendedPacketsACKsWindow of the sender
          mirrorTop   \* the true number mirror.right stands for

vars == <<window, top, accepted, acks, mirror, mirrorTop>>

(* n is compared with the window's edge without ambiguity. *)
InReach(n) == window.first \/ n - top \in HalfRange - Modulus .. HalfRange - 1

(* A reported edge is compared with the mirror's edge without ambiguity. *)
JoinInReach(ack) == ack.top - mirrorTop \in HalfRange - Modulus .. HalfRange - 1

Init == /\ window = MakeReplayWindow
        /\ top = 0
        /\ accepted = {}
        /\ acks = {}
        /\ mirror = MakeReplayWindow
        /\ mirrorTop = 0

(* A packet with number n arrives: ApplyWindowCheck decides and updates the window. *)
Apply(n) ==
    /\ InReach(n)
    /\ window' = AfterCheck(window, Wrap(n))
    /\ top' = IF window.first \/ n > top THEN n ELSE top
    /\ accepted' = IF Accepts(window, Wrap(n)) THEN accepted \cup {n} ELSE accepted
    /\ UNCHANGED <<acks, mirror, mirrorTop>>

(* The receiver reports the rightmost `limit` words of its window. *)
Report(limit) ==
    /\ Cardinality(acks) < MaxAcks
    /\ acks' = acks \cup {[top |-> top, data |-> GetWindowData(window, limit)]}
    /\ UNCHANGED <<window, top, accepted, mirror, mirrorTop>>

(* The sender joins a report; the network may deliver it again later. *)
Join(ack) ==
    /\ JoinInReach(ack)
    /\ mirror' = JoinWindowData(mirror, ack.data)
    /\ mirrorTop' = IF ack.top > mirrorTop THEN ack.top ELSE mirrorTop
    /\ UNCHANGED <<window, top, accepted, acks>>

(* A report is lost. *)
Lose(ack) == acks' = acks \ {ack} /\ UNCHANGED <<window, top, accepted, mirror, mirrorTop>>

Next == \/ \E n \in Arrivals : Apply(n)
        \/ \E limit \in 1 .. WordCount : Report(limit)
        \/ \E ack \in acks : Join(ack) \/ Lose(ack)

Spec == Init /\ [][Next]_vars

-----------------------------------------------------------------------------
Reports == [right : Numbers, words : 1 .. WordCount, bits : SUBSET Distances]

(* Types of the two windows, the reports and the history. *)
TypeOK == /\ window \in Windows
          /\ top \in Nat
          /\ accepted \subseteq Nat
          /\ \A ack \in acks : ack.top \in Nat /\ ack.data \in Reports
          /\ mirror \in Windows
          /\ mirrorTop \in Nat

(* The window is exact: the edge is the highest number let through, and a bit *)
(* is set exactly when its number was.                                        *)
WindowMatches ==
    /\ window.right = Wrap(top)
    /\ window.first => accepted = {}
    /\ ~window.first => top \in accepted /\ \A n \in accepted : n <= top
    /\ \A d \in Distances : d \in window.bits <=> top - d \in accepted

(* A report never claims a number that was not let through. *)
AcksMatch ==
    \A ack \in acks : /\ ack.data.right = Wrap(ack.top)
                      /\ \A d \in ack.data.bits : ack.top - d \in accepted

(* Neither does the mirror, whatever it was joined from. *)
MirrorMatches ==
    /\ mirror.right = Wrap(mirrorTop)
    /\ \A d \in mirror.bits : mirrorTop - d \in accepted

(* The two windows and the reports in flight agree with the history of     *)
(* accepted numbers: the inductive invariant behind the three properties   *)
(* below.                                                                  *)
WindowsMatchHistory == WindowMatches /\ AcksMatch /\ MirrorMatches

(* ApplyWindowCheck never lets a number through that it let through before, *)
(* whatever arrived in between, in whatever order, and across wrap-arounds. *)
AtMostOnce ==
    \A n \in accepted : InReach(n) => ~Accepts(window, Wrap(n))

(* ApplyWindowCheck never turns away a number it has not seen, as long as the  *)
(* number has not fallen out of the window: a late packet is not lost to a     *)
(* shifted or wrapped window.                                                  *)
FreshAccepted ==
    \A n \in Arrivals \ accepted :
        InReach(n) /\ n > top - Size => Accepts(window, Wrap(n))

(* The sender stops resending n only if the receiver got n: CheckValue on the  *)
(* mirror is never true of a number that was not accepted, with reports lost,  *)
(* repeated, overtaken or limited to some words, and for every number from the *)
(* window up to the last one that does not alias into it.                      *)
AckSound ==
    \A n \in Arrivals :
        /\ n - mirrorTop \in 1 - Size .. Modulus - Size
        /\ CheckValue(mirror, Wrap(n))
        => n \in accepted
====
