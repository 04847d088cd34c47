---- MODULE MCStabilizerOrdering ----
(***************************************************************************)
(* Model-checking instance of StabilizerOrdering: a 3-bit order number     *)
(* that wraps, and senders that use instant frames over a network that     *)
(* duplicates, or timeout frames over one that only loses and reorders.    *)
(***************************************************************************)
EXTENDS StabilizerOrdering

Starts == {0, Modulus - 2}

InstantProfiles == [kinds : {{Instant}}, duplicates : {TRUE}, start : Starts]
TimeoutProfiles == [kinds : {{Timeout}}, duplicates : {FALSE}, start : Starts]
MCProfiles      == InstantProfiles \cup TimeoutProfiles
====
