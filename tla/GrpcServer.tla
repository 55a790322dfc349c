----------------------------- MODULE GrpcServer -----------------------------
(***************************************************************************)
(* xmake/grpc-c/server.c.  One thread takes events from one completion     *)
(* queue.  An event carries the address of a server_tag that the program   *)
(* allocated when it asked for the operation: a request for a new call, or *)
(* the batch that answers one.                                             *)
(*                                                                         *)
(* The program's steps lie between two calls of grpc_completion_queue_next; *)
(* the library completes operations at any time and in any order.  What a  *)
(* request says and what is answered are left out.                         *)
(***************************************************************************)
EXTENDS GrpcCore

CONSTANT Tag      \* addresses a server_tag can have

ASSUME TagAssumption == /\ IsFiniteSet(Tag) /\ None \notin Tag
                        /\ Cardinality(Tag) > Cardinality(Call)

VARIABLES
  spc,      \* where main is
  type,     \* type[t]: the type field of the tag at t, "free" if none is there
  call,     \* call[t]: its call field
  posted,   \* tags of operations the library has not completed
  queue,    \* completed events: [tag, success]
  refs,     \* calls the server holds a reference to
  held,     \* the objects main has created and not destroyed
  deaf      \* the last request_new_call was refused

serverVars == <<spc, type, call, posted, queue, refs, held, deaf>>

ServerTypeOK ==
  /\ spc \in {"start", "loop", "shutdown", "drain", "exited"}
  /\ type \in [Tag -> {"free", "new_call", "finish"}]
  /\ call \in [Tag -> Call \cup {None}]
  /\ posted \subseteq Tag \cup {None}
  /\ queue \subseteq [tag : Tag \cup {None}, success : BOOLEAN]
  /\ refs \subseteq Call
  /\ held \subseteq {"cq", "server", "creds"}
  /\ deaf \in BOOLEAN

ServerInit ==
  /\ spc = "start"
  /\ type = [t \in Tag |-> "free"]
  /\ call = [t \in Tag |-> None]
  /\ posted = {} /\ queue = {} /\ refs = {} /\ held = {}
  /\ deaf = FALSE

-----------------------------------------------------------------------------
(* The program.                                                            *)

\* calloc in a heap with types ty.  Free addresses are alike, so it does not
\* matter which one the allocator returns.
Calloc(ty) == CHOOSE t \in Tag : ty[t] = "free"

\* request_new_call in a heap with types ty and calls cl, the operations po
\* being outstanding.  A refused request frees its tag again.
RequestNewCall(ty, cl, po) ==
  \/ /\ type' = [ty EXCEPT ![Calloc(ty)] = "new_call"]
     /\ call' = cl
     /\ posted' = po \cup {Calloc(ty)}
     /\ deaf' = FALSE
  \/ /\ type' = ty /\ call' = cl /\ posted' = po
     /\ deaf' = TRUE

\* The port cannot be bound, or the method not be registered.
StartFails ==
  /\ spc = "start"
  /\ held' = {"creds"}
  /\ spc' = "exited"
  /\ UNCHANGED <<type, call, posted, queue, refs, deaf>>

Start ==
  /\ spc = "start"
  /\ held' = {"cq", "server", "creds"}
  /\ RequestNewCall(type, call, posted)
  /\ spc' = "loop"
  /\ UNCHANGED <<queue, refs>>

\* Mutant: the tag of the request is freed only if the batch was started.
HandleNewCallKeepsTag(t) ==
  LET f == Calloc(type) IN
    \/ /\ RequestNewCall([type EXCEPT ![f] = "finish", ![t] = "free"],
                         [call EXCEPT ![f] = call[t], ![t] = None],
                         posted \cup {f})
       /\ UNCHANGED refs
    \/ /\ RequestNewCall(type, [call EXCEPT ![t] = None], posted)
       /\ refs' = refs \ {call[t]}

\* handle_new_call for the tag at t, and the next request_new_call.  The
\* finish tag is allocated while t is still in use; t is free again for the
\* next request.
HandleNewCall(t) ==
  LET f == Calloc(type) IN
    \/ /\ RequestNewCall([type EXCEPT ![f] = "finish", ![t] = "free"],
                         [call EXCEPT ![f] = call[t], ![t] = None],
                         posted \cup {f})
       /\ UNCHANGED refs
    \/ /\ RequestNewCall([type EXCEPT ![t] = "free"],
                         [call EXCEPT ![t] = None],
                         posted)
       /\ refs' = refs \ {call[t]}             \* grpc_call_start_batch failed

\* grpc_completion_queue_next returns e.
Take(e) == /\ e \in queue
           /\ queue' = queue \ {e}

NextNewCall(e) ==
  /\ spc = "loop" /\ Take(e)
  /\ type[e.tag] = "new_call" /\ e.success
  /\ HandleNewCall(e.tag)
  /\ UNCHANGED <<spc, held>>

Free(t) == /\ type' = [type EXCEPT ![t] = "free"]
           /\ call' = [call EXCEPT ![t] = None]

\* The request failed: main leaves the loop.
NextRefused(e) ==
  /\ spc = "loop" /\ Take(e)
  /\ type[e.tag] = "new_call" /\ ~e.success
  /\ Free(e.tag)
  /\ spc' = "shutdown"
  /\ UNCHANGED <<posted, refs, held, deaf>>

\* Mutant: the call is not unreferenced.
NextFinishKeepsCall(e) ==
  /\ spc = "loop" /\ Take(e)
  /\ type[e.tag] = "finish"
  /\ Free(e.tag)
  /\ UNCHANGED <<spc, posted, refs, held, deaf>>

\* The answer has gone out, or has failed to.
NextFinish(e) ==
  /\ spc = "loop" /\ Take(e)
  /\ type[e.tag] = "finish"
  /\ refs' = refs \ {call[e.tag]}
  /\ Free(e.tag)
  /\ UNCHANGED <<spc, posted, held, deaf>>

\* grpc_server_shutdown_and_notify with the tag NULL, then
\* grpc_completion_queue_shutdown.
Shutdown ==
  /\ spc = "shutdown"
  /\ posted' = posted \cup {None}
  /\ spc' = "drain"
  /\ UNCHANGED <<type, call, queue, refs, held, deaf>>

\* An event before GRPC_QUEUE_SHUTDOWN is taken and not looked at.
Drain(e) ==
  /\ spc = "drain" /\ Take(e)
  /\ UNCHANGED <<spc, type, call, posted, refs, held, deaf>>

\* GRPC_QUEUE_SHUTDOWN: the queue is empty and nothing is outstanding.
Destroy ==
  /\ spc = "drain" /\ queue = {} /\ posted = {}
  /\ held' = held \ {"cq", "server"}
  /\ spc' = "exited"
  /\ UNCHANGED <<type, call, posted, queue, refs, deaf>>

ServerStep ==
  \/ Start
  \/ \E e \in queue : \/ NextNewCall(e) \/ NextRefused(e) \/ NextFinish(e)
                      \/ Drain(e)
  \/ Shutdown
  \/ Destroy

-----------------------------------------------------------------------------
(* The library on the server's side (external).                            *)

Complete(t, success) ==
  /\ posted' = posted \ {t}
  /\ queue' = queue \cup {[tag |-> t, success |-> success]}

\* A call that has arrived is given to the request: the library writes the
\* call into the tag.
MatchCall(c, t) ==
  /\ rpc[c] = "sent" /\ t \in posted /\ type[t] = "new_call"
  /\ call' = [call EXCEPT ![t] = c]
  /\ refs' = refs \cup {c}
  /\ Complete(t, TRUE)
  /\ Advance(c, "matched")
  /\ UNCHANGED <<spc, type, held, deaf>>

\* The request fails.
FailRequest(t) ==
  /\ t \in posted /\ type[t] = "new_call"
  /\ Complete(t, FALSE)
  /\ UNCHANGED <<rpc, spc, type, call, refs, held, deaf>>

\* The batch has been sent, or the connection is gone.
BatchDone(t, success) ==
  /\ t \in posted /\ type[t] = "finish"
  /\ Complete(t, success)
  /\ Advance(call[t], IF success THEN "answered" ELSE "matched")
  /\ UNCHANGED <<spc, type, call, refs, held, deaf>>

\* The server is shut down once no batch is left.
ShutdownDone ==
  /\ posted = {None}
  /\ Complete(None, TRUE)
  /\ UNCHANGED <<rpc, spc, type, call, refs, held, deaf>>

Completion == \/ \E t \in posted \ {None}, b \in BOOLEAN : BatchDone(t, b)
              \/ ShutdownDone

ServerCore == \/ \E t \in posted \ {None} : \/ \E c \in Call : MatchCall(c, t)
                                            \/ FailRequest(t)
              \/ Completion
=============================================================================
