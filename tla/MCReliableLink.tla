---- MODULE MCReliableLink ----
(***************************************************************************)
(* Model-checking instances of ReliableLink: a 3-bit counter; a word of    *)
(* two bits that three messages overrun, or two fill; and a word of one    *)
(* bit that two overrun.                                                   *)
(***************************************************************************)
EXTENDS ReliableLink
====
