-------------------------------- MODULE Grpc --------------------------------
(***************************************************************************)
(* The server and the clients of xmake/grpc-c together.                    *)
(***************************************************************************)
EXTENDS GrpcServer, GrpcClient

vars == <<rpc, serverVars, clientVars>>

Init == CoreInit /\ ServerInit /\ ClientInit

Server == (ServerStep \/ StartFails) /\ UNCHANGED <<rpc, clientVars>>
Client == (\E c \in Call : ClientStep(c) \/ ClientCore(c)) /\ UNCHANGED serverVars
Core == ServerCore /\ UNCHANGED clientVars

Next == Server \/ Client \/ Core

Spec == Init /\ [][Next]_vars

(* Both programs keep running, time passes, and the library completes what *)
(* it was asked to do.  Nothing makes a request fail or a call arrive.     *)
Fairness ==
  /\ WF_vars(ServerStep /\ UNCHANGED <<rpc, clientVars>>)
  /\ WF_vars(Completion /\ UNCHANGED clientVars)
  /\ \A c \in Call : WF_vars(ClientStep(c) /\ UNCHANGED serverVars)

FairSpec == Spec /\ Fairness

TypeOK == CoreTypeOK /\ ServerTypeOK /\ ClientTypeOK

-----------------------------------------------------------------------------
(* Properties.                                                             *)

Live == {t \in Tag : type[t] # "free"}
Listening == {t \in Tag : type[t] = "new_call"}
InFlight == (posted \cup {e.tag : e \in queue}) \ {None}

\* Tags of server.c: an operation of the library and an event name a tag that
\* is allocated, never both the same one, and as long as main is in its loop
\* every tag is named by one of them: none is freed twice, used after it was
\* freed or lost.  Exactly one request for a new call is out, unless
\* request_new_call was refused; from then on nobody listens.  The references
\* to calls are those the tags name, so a call is unreferenced exactly once.
\* After the loop only tags of answers remain, and what the drain drops keeps its
\* tag and its call for good.
TagsOwned ==
  /\ TypeOK
  /\ InFlight \subseteq Live
  /\ \A e1, e2 \in queue : e1.tag = e2.tag => e1 = e2
  /\ \A e \in queue : e.tag \notin posted
  /\ spc = "loop" => Live = InFlight
  /\ Cardinality(Listening) = IF spc = "loop" /\ ~deaf THEN 1 ELSE 0
  /\ refs = {call[t] : t \in Live} \ {None}
  /\ \A t1, t2 \in Live : call[t1] = call[t2] => t1 = t2 \/ call[t1] = None

\* client.c releases, on every path, exactly what it created and what the
\* library gave it.  The exception is a call that timed out: its completion is
\* never taken from the queue, so what the library delivers after the release,
\* and the response even if it was delivered before, is kept.
NothingKept ==
  \A c \in Call : cpc[c] \in Returned =>
    has[c] \subseteq IF cpc[c] = "timed_out" THEN Received ELSE {}

\* What client.c unpacks is always the message the library delivered, never the
\* NULL that response_payload starts with (client.c:290: an OK status may come
\* without a message), and it is there only if the server has answered that very
\* call; a client that reports success has unpacked it.
SuccessIsAnswered ==
  \A c \in Call :
    /\ read[c] # "null"
    /\ read[c] = "message" => rpc[c] = "answered"
    /\ cpc[c] \in {"drain", "succeeded"} => read[c] = "message" /\ outcome[c] = "ok"

\* Every client returns, whatever becomes of the server: the batch is
\* completed or the deadline passes, and the last drain ends.
ClientReturns == \A c \in Call : <>(cpc[c] \in Returned)

\* A call in the server's hands is released or main leaves its loop; and once it has
\* left, the drain ends although its events are those of batches still in
\* flight, and the program ends with everything but the credentials destroyed.
ServerSettles ==
  /\ \A c \in Call : c \in refs ~> (c \notin refs \/ spc # "loop")
  /\ spc = "shutdown" ~> (spc = "exited" /\ held = {"creds"})
=============================================================================
