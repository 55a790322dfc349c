----------------------------- MODULE CoPrivate -----------------------------
(***************************************************************************)
(* What cmake/coroutine promises its user: every coroutine behaves as if   *)
(* it had a stack of its own, which no one else touches while it is        *)
(* suspended, and at most one coroutine of the thread runs at a time.      *)
(***************************************************************************)
EXTENDS Integers, Sequences

CONSTANTS Handle, Val, AllocMayFail

VARIABLES st,      \* the life of every coroutine object
          frames   \* its private stack, outermost frame first

State == {"none", "ready", "running", "suspended", "lost", "done", "gone"}

privateVars == <<st, frames>>

Init == /\ st = [h \in Handle |-> "none"]
        /\ frames = [h \in Handle |-> <<>>]

NobodyRuns == \A h \in Handle : st[h] # "running"

Move(h, from, to) == st[h] = from /\ st' = [st EXCEPT ![h] = to]

Create(h) == Move(h, "none", "ready") /\ UNCHANGED frames

\* A coroutine starts in a frame that knows whose it is.
Start(h) == /\ NobodyRuns
            /\ Move(h, "ready", "running")
            /\ frames' = [frames EXCEPT ![h] = <<h>>]

Continue(h) == /\ NobodyRuns
               /\ Move(h, "suspended", "running")
               /\ UNCHANGED frames

Push(h, v) == /\ st[h] = "running"
              /\ frames' = [frames EXCEPT ![h] = Append(frames[h], v)]
              /\ UNCHANGED st

Pop(h) == /\ st[h] = "running" /\ Len(frames[h]) > 1
          /\ frames' = [frames EXCEPT ![h] = SubSeq(@, 1, Len(@) - 1)]
          /\ UNCHANGED st

Yield(h) == Move(h, "running", "suspended") /\ UNCHANGED frames

\* No memory to save the stack: the coroutine can never continue.
YieldLost(h) == /\ AllocMayFail
                /\ Move(h, "running", "lost")
                /\ frames' = [frames EXCEPT ![h] = <<>>]

Done(h) == /\ Move(h, "running", "done")
           /\ frames[h] = <<h>>
           /\ frames' = [frames EXCEPT ![h] = <<>>]

\* Objects that do not run are freed, or forgotten for good.
Drop ==
  /\ st' \in [Handle -> State]
  /\ \A h \in Handle : \/ st'[h] = st[h]
                       \/ /\ st[h] \notin {"running", "gone"}
                          /\ st'[h] \in {"none", "gone"}
  /\ frames' = [h \in Handle |-> IF st'[h] = st[h] THEN frames[h] ELSE <<>>]

Next == \/ Drop
        \/ \E h \in Handle :
             \/ Yield(h) \/ YieldLost(h) \/ Done(h) \/ Pop(h)
             \/ \E v \in Val : Push(h, v)
             \/ Create(h) \/ Start(h) \/ Continue(h)

Spec == Init /\ [][Next]_privateVars
=============================================================================
