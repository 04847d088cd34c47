---- MODULE MCJournalingRAMDatabase ----
(***************************************************************************)
(* Model-checking instance of JournalingRAMDatabase: two goroutines, two   *)
(* keys, two values and a journal saved after two entries.                 *)
(***************************************************************************)
EXTENDS JournalingRAMDatabase
====
