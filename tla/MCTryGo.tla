------------------------------- MODULE MCTryGo -------------------------------
(***************************************************************************)
(* The instances of CTry and of IocpGo for TLC.  The two systems have      *)
(* nothing to do with each other: the initial state chooses one of them,   *)
(* and the other stays in its initial state.                               *)
(***************************************************************************)
EXTENDS CTry, MCIocpGo

VARIABLE system

TryGoInit == system \in {"try", "go"} /\ Init /\ GoInit

TryGoNext ==
  \/ system = "try" /\ Next /\ UNCHANGED <<system, goVars>>
  \/ system = "go" /\ GoNext /\ UNCHANGED <<system, vars>>

TryGoSpec == TryGoInit /\ [][TryGoNext]_<<system, vars, goVars>>
=============================================================================
