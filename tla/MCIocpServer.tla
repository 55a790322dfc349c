---------------------------- MODULE MCIocpServer ----------------------------
(***************************************************************************)
(* Instances of IocpServer for TLC.                                        *)
(***************************************************************************)
EXTENDS IocpServer, TLC

Symm == Permutations(Sock) \cup Permutations(Io) \cup Permutations(Worker)
=============================================================================
