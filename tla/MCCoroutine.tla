---------------------------- MODULE MCCoroutine ----------------------------
(***************************************************************************)
(* Instances of Coroutine for TLC.  Coroutine objects are interchangeable  *)
(* (the allocator may return any free address), so they are symmetric.     *)
(***************************************************************************)
EXTENDS Coroutine, TLC

HandleSymmetry == Permutations(Handle)

\* The alignment loop of _align, for the capacities the instances use.
ASSUME /\ Align(0) = 15 /\ Align(1) = 1 /\ Align(2) = 3 /\ Align(3) = 3
       /\ Align(4) = 7 /\ Align(65535) = 65535
=============================================================================
