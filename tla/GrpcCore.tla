------------------------------ MODULE GrpcCore ------------------------------
(***************************************************************************)
(* The gRPC library as the two programs of xmake/grpc-c use it (external): *)
(* how far each call has come between a client and the server.  Every      *)
(* client process makes one call, so a call also names its client.         *)
(***************************************************************************)
EXTENDS FiniteSets, Naturals

CONSTANTS Call,   \* the calls, one for each client process
          None    \* NULL: no call, and the tag of the shutdown notice

ASSUME CoreAssumption == IsFiniteSet(Call) /\ None \notin Call

VARIABLE rpc      \* rpc[c]: how far the call has come on the network

\* "unsent": the client has not started its batch; "sent": on its way to the
\* server, or waiting there for a request that it can be matched with;
\* "matched": in the server's hands; "answered": the server's batch went out.
Progress == {"unsent", "sent", "matched", "answered"}

CoreTypeOK == rpc \in [Call -> Progress]

CoreInit == rpc = [c \in Call |-> "unsent"]

Advance(c, to) == rpc' = [rpc EXCEPT ![c] = to]
=============================================================================
