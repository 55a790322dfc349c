----------------------------- MODULE GrpcClient -----------------------------
(***************************************************************************)
(* xmake/grpc-c/client.c: one unary call in one batch of six operations.   *)
(* Every stage can fail, and every failure releases by hand what the       *)
(* stages before it created.                                               *)
(*                                                                         *)
(* has[c] is what client c would have to release: objects it has created,  *)
(* and memory the library hangs into its variables (initial and trailing   *)
(* metadata, the status text, the response).  Releasing a variable that    *)
(* nothing hangs in is without effect.                                     *)
(***************************************************************************)
EXTENDS GrpcCore

VARIABLES
  cpc,      \* where main is
  has,      \* what is to be released
  todo,     \* what the library has yet to receive for the batch; the event
            \* that completes the batch is in the queue once this is empty
  outcome,  \* ev.success and status together: "ok" if the event says success and
            \* the status is OK, else "bad"; "unknown" before the completion
  read      \* what main has unpacked: "nothing", the "message" that the library
            \* delivered, or the "null" pointer response_payload starts with

clientVars == <<cpc, has, todo, outcome, read>>

\* What the library hangs into the client's variables.
Received == {"initial", "response", "trailing", "details"}
Objects == {"cq", "channel", "call", "payload"}

\* "timed_out" and "failed" both return 1.
Returned == {"failed", "timed_out", "succeeded"}
Stages == {"start", "batch", "wait", "cancelled", "check", "drain"}

ClientTypeOK ==
  /\ cpc \in [Call -> Stages \cup Returned]
  /\ has \in [Call -> SUBSET (Objects \cup Received)]
  /\ todo \in [Call -> SUBSET {"initial", "message", "status"}]
  /\ outcome \in [Call -> {"unknown", "bad", "ok"}]
  /\ read \in [Call -> {"nothing", "message", "null"}]

ClientInit ==
  /\ cpc = [c \in Call |-> "start"]
  /\ has = [c \in Call |-> {}]
  /\ todo = [c \in Call |-> {}]
  /\ outcome = [c \in Call |-> "unknown"]
  /\ read = [c \in Call |-> "nothing"]

-----------------------------------------------------------------------------
(* The program.                                                            *)

\* Main goes on.
Goto(c, from, to) == cpc[c] = from /\ cpc' = [cpc EXCEPT ![c] = to]

\* return 1: the process ends, and with it the library's work for it.
Return(c, from, how) == /\ Goto(c, from, how)
                        /\ todo' = [todo EXCEPT ![c] = {}]
                        /\ outcome' = [outcome EXCEPT ![c] = "unknown"]

Go(c, from, to) == Goto(c, from, to) /\ UNCHANGED <<todo, outcome>>

Release(c, R) == has' = [has EXCEPT ![c] = @ \ R]

\* The order in which the objects are created.
CreationOrder == <<"cq", "channel", "call", "payload">>

\* What main releases when the object at place n cannot be created.  The
\* credentials, the method name and the packed request live within one stage.
ReleasedAt(n) ==
  CASE n = 1 -> {}
    [] n = 2 -> {"cq"}
    [] n = 3 -> {"channel", "cq"}
    [] n = 4 -> {"call", "channel", "cq"}

Created(n) == {CreationOrder[i] : i \in 1..n}

\* Nobody else is concerned before the batch is started.
Prepare(c) ==
  /\ Go(c, "start", "batch")
  /\ has' = [has EXCEPT ![c] = Created(4)]
  /\ UNCHANGED <<read, rpc>>

PrepareFails(c) ==
  /\ Return(c, "start", "failed")
  /\ \E n \in 1..4 : has' = [has EXCEPT ![c] = Created(n - 1) \ ReleasedAt(n)]
  /\ UNCHANGED <<read, rpc>>

\* What the paths before the completion release: not the response.
ReleaseUnread(c) == Release(c, Objects \cup (Received \ {"response"}))

\* What the paths after it release.
ReleaseAll(c) == Release(c, Objects \cup Received)

StartBatch(c) ==
  /\ Goto(c, "batch", "wait")
  /\ todo' = [todo EXCEPT ![c] = {"initial", "message", "status"}]
  /\ Advance(c, "sent")
  /\ UNCHANGED <<has, outcome, read>>

StartBatchFails(c) ==
  /\ Return(c, "batch", "failed")
  /\ ReleaseUnread(c)
  /\ UNCHANGED <<read, rpc>>

\* Mutant: the wait has no deadline.
WaitWithoutDeadline(c) ==
  /\ FALSE
  /\ UNCHANGED <<rpc, clientVars>>

\* grpc_completion_queue_next returns GRPC_QUEUE_TIMEOUT: the deadline has
\* passed and the queue is empty.  The call is cancelled and the variables
\* are released; the batch is still in the library's hands.  The next two
\* tests, for GRPC_QUEUE_SHUTDOWN and any other type of event, release the same;
\* neither happens, since the queue is shut down on the last path only.
WaitTimesOut(c) ==
  /\ Go(c, "wait", "cancelled") /\ todo[c] # {}
  /\ Release(c, {"payload"} \cup (Received \ {"response"}))
  /\ UNCHANGED <<read, rpc>>

\* The rest of that path.
ReturnTimedOut(c) ==
  /\ Return(c, "cancelled", "timed_out")
  /\ Release(c, {"call", "channel", "cq"})
  /\ UNCHANGED <<read, rpc>>

TakeCompletion(c) ==
  /\ Go(c, "wait", "check") /\ todo[c] = {}
  /\ UNCHANGED <<has, read, rpc>>

\* Mutant: response_payload is not compared with NULL.
UsableUnchecked(c) == outcome[c] = "ok"

\* The conditions for a response to be read: the batch succeeded, the status
\* is OK and there is a response.
Usable(c) == outcome[c] = "ok" /\ "response" \in has[c]

\* Mutant: the response is not released.
CheckFailsKeepsResponse(c) ==
  /\ Return(c, "check", "failed") /\ ~Usable(c)
  /\ ReleaseUnread(c)
  /\ UNCHANGED <<read, rpc>>

\* Each of the three tests releases everything, the response if there is one.
CheckFails(c) ==
  /\ Return(c, "check", "failed") /\ ~Usable(c)
  /\ ReleaseAll(c)
  /\ UNCHANGED <<read, rpc>>

Unpack(c) ==
  read' = [read EXCEPT ![c] = IF "response" \in has[c] THEN "message" ELSE "null"]

\* grpc_byte_buffer_reader_init or the protobuf decoder refuses the response.
UnpackFails(c) ==
  /\ Return(c, "check", "failed") /\ Usable(c)
  /\ Unpack(c)
  /\ ReleaseAll(c)
  /\ UNCHANGED rpc

\* The response is printed.  The queue is destroyed after it is drained.
CheckPasses(c) ==
  /\ Go(c, "check", "drain") /\ Usable(c)
  /\ Unpack(c)
  /\ Release(c, (Objects \ {"cq"}) \cup Received)
  /\ UNCHANGED rpc

DrainClient(c) ==
  /\ Go(c, "drain", "succeeded") /\ todo[c] = {}
  /\ Release(c, {"cq"})
  /\ UNCHANGED <<read, rpc>>

ClientStep(c) ==
  \/ Prepare(c) \/ PrepareFails(c) \/ StartBatch(c) \/ StartBatchFails(c)
  \/ WaitTimesOut(c) \/ ReturnTimedOut(c) \/ TakeCompletion(c)
  \/ CheckFails(c) \/ UnpackFails(c) \/ CheckPasses(c) \/ DrainClient(c)

-----------------------------------------------------------------------------
(* The library on the client's side (external).  It works on the batch     *)
(* until the process ends.                                                 *)

Flying(c) == todo[c] # {}

\* The operations P are done, and R hangs in the client's variables.
Receive(c, P, R) == /\ todo' = [todo EXCEPT ![c] = @ \ P]
                    /\ has' = [has EXCEPT ![c] = @ \cup R]

\* The parts of the answer arrive in order.
RecvInitial(c) ==
  /\ Flying(c) /\ rpc[c] = "answered" /\ "initial" \in todo[c]
  /\ Receive(c, {"initial"}, {"initial"})
  /\ UNCHANGED <<cpc, outcome, read, rpc>>

RecvMessage(c) ==
  /\ Flying(c) /\ "message" \in todo[c] /\ "initial" \notin todo[c]
  /\ Receive(c, {"message"}, {"response"})
  /\ UNCHANGED <<cpc, outcome, read, rpc>>

\* The status completes the batch, whatever has not arrived: OK if an answer
\* was sent, an error at any time (the deadline, the network, a cancellation).
RecvStatus(c, o) ==
  /\ Flying(c)
  /\ o = "ok" => rpc[c] = "answered"
  /\ Receive(c, todo[c], {"trailing", "details"})
  /\ outcome' = [outcome EXCEPT ![c] = o]
  /\ UNCHANGED <<cpc, read, rpc>>

ClientCore(c) ==
  \/ RecvInitial(c) \/ RecvMessage(c)
  \/ \E o \in {"bad", "ok"} : RecvStatus(c, o)
=============================================================================
