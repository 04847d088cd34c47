---- MODULE MCReplayWindow ----
(***************************************************************************)
(* Model-checking instance of ReplayWindowHistory: a 3-bit counter, a      *)
(* window of two words of two bits each, numbers 0 .. MaxNumber so that the *)
(* counter wraps, and up to MaxAcks reports overtaking each other.         *)
(***************************************************************************)
EXTENDS ReplayWindowHistory

CONSTANT MaxNumber
MCArrivals == 0 .. MaxNumber
====
