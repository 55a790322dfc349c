--------------------------- MODULE MCIocpServerEx ----------------------------
(***************************************************************************)
(* Instances of IocpServerEx for TLC.                                      *)
(***************************************************************************)
EXTENDS IocpServerEx, TLC

Symm == Permutations(Sock) \cup Permutations(Io) \cup Permutations(Worker)
=============================================================================
