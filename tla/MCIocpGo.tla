------------------------------ MODULE MCIocpGo ------------------------------
(***************************************************************************)
(* Instances of IocpGo for TLC.                                            *)
(***************************************************************************)
EXTENDS IocpGo, TLC

Symm == Permutations(Sock) \cup Permutations(Io) \cup Permutations(Worker)
=============================================================================
