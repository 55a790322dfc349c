---------------------------- MODULE AbstractMap ----------------------------
(***************************************************************************)
(* What CSwissMap (cmake/swissmap) promises: a finite map, with the result *)
(* of the last completed call.                                             *)
(***************************************************************************)
CONSTANTS Key, Val, None

VARIABLES map,  \* the value of every key, None for an absent one
          ret   \* the last call that returned, and its result

Init == map = [k \in Key |-> None] /\ ret = None

Get(k) == ret' = <<"get", k, map[k]>> /\ UNCHANGED map

Put(k, v) == map' = [map EXCEPT ![k] = v] /\ ret' = <<"put", k, v>>

Remove(k) == /\ map' = [map EXCEPT ![k] = None]
             /\ ret' = <<"erase", k, map[k] # None>>

Next == \E k \in Key : Get(k) \/ Remove(k) \/ \E v \in Val : Put(k, v)

Spec == Init /\ [][Next]_<<map, ret>>
=============================================================================
