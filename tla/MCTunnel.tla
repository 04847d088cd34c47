---- MODULE MCTunnel ----
(***************************************************************************)
(* Model-checking instances of Tunnel: a connection with data both ways    *)
(* and a quiet one that must not be mixed up with it, and one connection   *)
(* alone with more data.                                                   *)
(***************************************************************************)
EXTENDS Tunnel

CONSTANTS busy, quiet

OneEach(c) == IF c = busy THEN 1 ELSE 0
TwoEach(c) == 2
====
