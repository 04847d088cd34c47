---- MODULE DurableMap ----
(***************************************************************************)
(* What a journaled map promises its one user: a restart brings back every *)
(* operation that returned.  Only the operation in progress may be lost,   *)
(* and then it is lost whole.                                              *)
(***************************************************************************)
CONSTANTS Keys, Values, Absent   \* Absent: the key is not in the map

Maps == [Keys -> Values \cup {Absent}]

VARIABLES store,    \* the map as its user sees it
          durable   \* the map a restart would bring back

mapVars == <<store, durable>>

MapInit == /\ store = [k \in Keys |-> Absent]
           /\ durable = store

(* An operation starts only when the previous one is durable. *)
Put == /\ durable = store
       /\ \E k \in Keys, v \in Values \cup {Absent} : store' = [store EXCEPT ![k] = v]
       /\ UNCHANGED durable

Sync == durable' = store /\ UNCHANGED store

Restart == store' = durable /\ UNCHANGED durable

MapNext == Put \/ Sync \/ Restart

MapSpec == MapInit /\ [][MapNext]_mapVars
====
