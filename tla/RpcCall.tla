------------------------------ MODULE RpcCall ------------------------------
(***************************************************************************)
(* What cmake/rpc_c promises: a remote call is executed at most once, and  *)
(* when it reports success it was executed and its result is the           *)
(* handler's.                                                              *)
(***************************************************************************)
CONSTANTS Call,         \* identities of calls
          Request,
          Answers(_),   \* what a call returns when it gets the handler's answer
          NoRequest

VARIABLES asked,     \* the request of every call, NoRequest before it is made
          executed,  \* how often the handler has run for a call
          outcome    \* what the call returned, NoRequest before it did

callVars == <<asked, executed, outcome>>

Init == /\ asked = [k \in Call |-> NoRequest]
        /\ executed = [k \in Call |-> 0]
        /\ outcome = [k \in Call |-> NoRequest]

Ask(k, r) == /\ asked[k] = NoRequest
             /\ asked' = [asked EXCEPT ![k] = r]
             /\ UNCHANGED <<executed, outcome>>

\* Also after the caller has given up.
Execute(k) == /\ asked[k] # NoRequest /\ executed[k] = 0
              /\ executed' = [executed EXCEPT ![k] = 1]
              /\ UNCHANGED <<asked, outcome>>

Succeed(k) == /\ executed[k] = 1 /\ outcome[k] = NoRequest
              /\ outcome' = [outcome EXCEPT ![k] = Answers(asked[k])]
              /\ UNCHANGED <<asked, executed>>

Fail(k) == /\ asked[k] # NoRequest /\ outcome[k] = NoRequest
           /\ outcome'[k] # NoRequest /\ outcome'[k].ret = "failed"
           /\ outcome' = [outcome EXCEPT ![k] = outcome'[k]]
           /\ UNCHANGED <<asked, executed>>

Next == \E k \in Call : \/ \E r \in Request : Ask(k, r)
                        \/ Execute(k) \/ Succeed(k) \/ Fail(k)

Spec == Init /\ [][Next]_callVars
=============================================================================
