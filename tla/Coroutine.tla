----------------------------- MODULE Coroutine -----------------------------
(***************************************************************************)
(* The stackful coroutine library of cmake/coroutine (src/co.c, src/ctx.c  *)
(* and swap_ctx_x64.asm), in its default build: no USE_NATIVE_CO, asserts  *)
(* compiled in.  One thread and its thread-local environment `env'.        *)
(*                                                                         *)
(* The thread either runs its main function or exactly one coroutine.  All *)
(* coroutines of the thread run on ONE shared stack: co_swap copies the    *)
(* part of it that is in use to a private buffer and co_resume copies it   *)
(* back.  A stack cell stands for a frame or a local; cells are counted    *)
(* from the top of the stack (its highest address), so cell 1 holds the    *)
(* local `co' of _co_main and cell `depth' is the innermost one.           *)
(*                                                                         *)
(* What the main function and the coroutine functions do between calls of  *)
(* the library is unconstrained, except that co_open, co_close, co_join    *)
(* and co_wait are called by the main function only.                       *)
(***************************************************************************)
EXTENDS Integers, Sequences, FiniteSets

CONSTANTS Handle,       \* addresses calloc returns for coroutine objects
          Val,          \* values a coroutine function keeps in its locals
          Null,         \* the null pointer, and a zeroed stack cell
          Junk,         \* some non-zero word that is no coroutine
          StackSize,    \* size of the shared stack, in cells
          OpenArgs,     \* values of co_open's parameter cap
          MaxCap,       \* bound on the capacity the array grows to
          AllocMayFail  \* whether calloc, realloc and malloc may return NULL

-----------------------------------------------------------------------------
(***************************************************************************)
(* Capacities are of the form 2^k - 1.                                     *)
(***************************************************************************)

IsValidCap(n) == \E k \in 1..16 : n + 1 = 2^k

DefaultCoroutine == 15

\* The least 2^k - 1 that is at least c (co_open; 0 asks for the default).
Align(c) ==
  IF c = 0 THEN DefaultCoroutine
  ELSE CHOOSE n \in {2^k - 1 : k \in 1..16} :
         n >= c /\ \A m \in {2^k - 1 : k \in 1..16} : m >= c => n <= m

ASSUME CapAssumption ==
  \A c \in OpenArgs : Align(c) \in Nat \ {0} /\ IsValidCap(Align(c))
ASSUME StackAssumption == StackSize \in Nat \ {0}
ASSUME HandleAssumption == IsFiniteSet(Handle)
ASSUME NullAssumption ==
  /\ Null \notin Handle \cup Val \cup Nat
  /\ Junk \notin Handle \cup {Null}
ASSUME BufAssumption ==
  \A n \in 0..StackSize : Null \notin [1..n -> Handle \cup Val \cup {Null}]
ASSUME MaxCapAssumption == MaxCap \in Nat
ASSUME AllocAssumption == AllocMayFail \in BOOLEAN

\* The outcomes of an allocation that yields x when it succeeds.
Alloc(x) == {x} \cup (IF AllocMayFail THEN {Null} ELSE {})

Cell == Handle \cup Val \cup {Null}

-----------------------------------------------------------------------------
VARIABLES
  env,      \* "null", "open", or "dangling": freed but still pointed to
  cap,      \* env->cap
  nco,      \* env->nco
  running,  \* env->running_id
  slot,     \* env->co[0 .. cap-1]
  past,     \* the word that follows the array env->co in memory
  status,   \* co->status of every coroutine object, "free" or "leaked"
  ctx,      \* stack depth saved in co->ctx; Null when new_ctx failed
  size,     \* co->size
  bcap,     \* co->cap, the length of co->stack
  buf,      \* co->stack, the private copy; Null when not allocated
  stack,    \* env->stack, from its top downwards
  depth,    \* cells in use (the stack pointer)
  pc,       \* what the main function is in: "idle", "join" or "wait"
  arg,      \* co_join's id, or co_wait's loop index i
  flag,     \* co_wait's flag
  abort     \* "none", or how the process died

vars == <<env, cap, nco, running, slot, past, status, ctx, size, bcap,
          buf, stack, depth, pc, arg, flag, abort>>
envVars == <<env, cap, past>>
objVars == <<ctx, size, bcap, buf>>
stackVars == <<stack, depth>>
mainVars == <<pc, arg, flag>>

Live == {"READY", "RUNNING", "SUSPEND"}
Status == Live \cup {"STOPED", "free", "leaked"}

Init ==
  /\ env = "null" /\ cap = 0 /\ nco = 0 /\ running = -1
  /\ slot = [i \in 0..-1 |-> Null] /\ past = Junk
  /\ status = [h \in Handle |-> "free"]
  /\ ctx = [h \in Handle |-> Null]
  /\ size = [h \in Handle |-> 0]
  /\ bcap = [h \in Handle |-> 0]
  /\ buf = [h \in Handle |-> Null]
  /\ stack = [k \in 1..StackSize |-> Null] /\ depth = 0
  /\ pc = "idle" /\ arg = 0 /\ flag = FALSE
  /\ abort = "none"

-----------------------------------------------------------------------------
(***************************************************************************)
(* Who executes.                                                           *)
(***************************************************************************)

MainIdle == abort = "none" /\ running = -1 /\ pc = "idle"
MainCanCall == MainIdle /\ env = "open"
CoRunning == abort = "none" /\ env = "open" /\ running # -1

Die(how) ==
  /\ abort' = how
  /\ UNCHANGED <<envVars, nco, running, slot, status, objVars, stackVars,
                 mainVars>>

-----------------------------------------------------------------------------
(***************************************************************************)
(* co_open and co_close.                                                   *)
(***************************************************************************)

\* Coroutine objects that nothing points to any more are never freed.
Forget(S) == [h \in Handle |-> IF h \in S /\ status[h] # "free"
                               THEN "leaked" ELSE status[h]]

NoEnv(e) ==
  /\ env' = e /\ cap' = 0 /\ nco' = 0 /\ running' = -1
  /\ slot' = [i \in 0..-1 |-> Null] /\ past' = Junk
  /\ depth' = 0

\* The new environment replaces the old one, if any, without freeing it.
CoOpen(c) ==
  /\ MainIdle
  /\ env' = "open" /\ cap' = Align(c) /\ nco' = 0 /\ running' = -1
  /\ slot' = [i \in 0..(Align(c) - 1) |-> Null]
  /\ past' \in {Null, Junk}
  /\ stack' = [k \in 1..StackSize |-> Null] /\ depth' = 0
  /\ status' = Forget(Handle)
  /\ UNCHANGED <<objVars, mainVars, abort>>

\* calloc of env fails, or of the array or of the main context: env was
\* assigned before it is freed again.
CoOpenFails ==
  /\ MainIdle /\ AllocMayFail
  /\ \/ NoEnv("null")
     \/ NoEnv("dangling")
  /\ status' = Forget(Handle)
  /\ UNCHANGED <<objVars, stack, mainVars, abort>>

InSlots == {slot[i] : i \in 0..(cap - 1)} \ {Null}

CoClose ==
  /\ MainCanCall
  /\ NoEnv("null")
  /\ status' = [h \in Handle |-> IF h \in InSlots THEN "free"
                                 ELSE Forget(Handle)[h]]
  /\ UNCHANGED <<objVars, stack, mainVars, abort>>

CoCloseNull ==
  /\ MainIdle /\ env = "null"
  /\ UNCHANGED vars

CoCloseDangling ==
  /\ MainIdle /\ env = "dangling"
  /\ Die("use after free")

-----------------------------------------------------------------------------
(***************************************************************************)
(* co_new.  The scan for a free slot indexes the array, of length cap,     *)
(* with (i + nco) & cap; cap being 2^k - 1, this is the remainder modulo   *)
(* cap + 1 and can be cap itself.                                          *)
(***************************************************************************)

Probe(i) == (i + nco) % (cap + 1)
At(id) == IF id = cap THEN past ELSE slot[id]
\* Mutant: a finished coroutine's slot counts as free before it is reclaimed.
ScanReusesStopped(i) ==
  \/ At(Probe(i)) = Null
  \/ At(Probe(i)) \in Handle /\ status[At(Probe(i))] = "STOPED"

ScanStops(i) == At(Probe(i)) = Null
ScanFinds(i) == ScanStops(i) /\ \A j \in 0..(i - 1) : ~ScanStops(j)

\* _co_new: o is the object, Null when calloc failed; c its context.
NewObject(o, c) ==
  IF o = Null THEN UNCHANGED <<status, objVars>>
  ELSE /\ status' = [status EXCEPT ![o] = "READY"]
       /\ ctx' = [ctx EXCEPT ![o] = c]
       /\ size' = [size EXCEPT ![o] = 0]
       /\ bcap' = [bcap EXCEPT ![o] = 0]
       /\ buf' = [buf EXCEPT ![o] = Null]

\* o is stored and counted, whether or not it could be allocated.
CoNewGrow(o, c) ==
  /\ nco >= cap /\ 2 * cap + 1 <= MaxCap
  /\ NewObject(o, c)
  /\ cap' = 2 * cap + 1
  /\ slot' = [i \in 0..(2 * cap) |->
                CASE i < cap -> slot[i] [] i = cap -> o [] OTHER -> Null]
  /\ past' \in {Null, Junk}
  /\ nco' = nco + 1
  /\ UNCHANGED abort

\* realloc fails: -1 is returned and o is dropped.
CoNewGrowFails(o) ==
  /\ nco >= cap /\ AllocMayFail
  /\ status' = IF o = Null THEN status ELSE [status EXCEPT ![o] = "leaked"]
  /\ UNCHANGED <<cap, slot, past, nco, objVars, abort>>

CoNewStore(o, c) ==
  /\ nco < cap
  /\ NewObject(o, c)
  /\ \E i \in 0..(cap - 1) :
       /\ ScanFinds(i)
       /\ IF Probe(i) = cap
          THEN past' = o /\ UNCHANGED slot
          ELSE slot' = [slot EXCEPT ![Probe(i)] = o] /\ UNCHANGED past
  /\ nco' = nco + 1
  /\ UNCHANGED <<cap, abort>>

CoNewAssert ==
  /\ nco < cap
  /\ \A i \in 0..(cap - 1) : ~ScanStops(i)
  /\ Die("co_new assert")

CoNewObjects ==
  {h \in Handle : status[h] = "free"} \cup (IF AllocMayFail THEN {Null} ELSE {})

CoNew ==
  /\ MainCanCall \/ CoRunning
  /\ \E o \in CoNewObjects, c \in Alloc(0) :
       \/ CoNewGrow(o, c)
       \/ CoNewGrowFails(o)
       \/ CoNewStore(o, c)
  /\ UNCHANGED <<env, running, stackVars, mainVars>>

CoNewDies == (MainCanCall \/ CoRunning) /\ CoNewAssert

-----------------------------------------------------------------------------
(***************************************************************************)
(* co_resume, and co_join and co_wait, which are loops around it.          *)
(***************************************************************************)

InRange(id) == id \in 0..(cap - 1)
Resumable(id) == slot[id] # Null /\ status[slot[id]] \in {"READY", "SUSPEND"}

\* make_ctx: the stack pointer of a fresh context is at the top of the shared
\* stack, where _co_main gets its frame.
MakeCtx == 1

\* swap_ctx: of the registers it loads, the stack pointer matters here.
SwapCtx(to) == depth' = to

Start(id) ==
  LET h == slot[id] IN
  /\ h # Null /\ status[h] = "READY" /\ ctx[h] # Null
  /\ running' = id
  /\ status' = [status EXCEPT ![h] = "RUNNING"]
  /\ stack' = [stack EXCEPT ![MakeCtx] = h]
  /\ SwapCtx(MakeCtx)
  /\ UNCHANGED <<slot, abort>>

\* Mutant: the whole buffer is copied back, not the part that is in use.
RestoredWhole(h) == [k \in 1..StackSize |-> IF k <= bcap[h]
                                            THEN buf[h][bcap[h] + 1 - k]
                                            ELSE stack[k]]

\* The saved cells are copied back below the top of the shared stack.
Restored(h) == [k \in 1..StackSize |-> IF k <= size[h]
                                       THEN buf[h][size[h] + 1 - k]
                                       ELSE stack[k]]

Continue(id) ==
  LET h == slot[id] IN
  /\ h # Null /\ status[h] = "SUSPEND" /\ buf[h] # Null
  /\ running' = id
  /\ status' = [status EXCEPT ![h] = "RUNNING"]
  /\ stack' = Restored(h)
  /\ SwapCtx(ctx[h])
  /\ UNCHANGED <<slot, abort>>

\* A context or a buffer that could not be allocated is dereferenced.
ResumeFaults(id) ==
  LET h == slot[id] IN
  /\ h # Null
  /\ \/ status[h] = "READY" /\ ctx[h] = Null
     \/ status[h] = "SUSPEND" /\ buf[h] = Null
  /\ abort' = "null dereference"
  /\ UNCHANGED <<running, slot, status, stackVars>>

Reclaim(id) ==
  LET h == slot[id] IN
  /\ h # Null /\ status[h] = "STOPED"
  /\ status' = [status EXCEPT ![h] = "free"]
  /\ slot' = [slot EXCEPT ![id] = Null]
  /\ UNCHANGED <<running, stackVars, abort>>

ResumeNone(id) ==
  /\ slot[id] = Null
  /\ UNCHANGED <<running, slot, status, stackVars, abort>>

\* The switch's default branch: the object is running or has no status.
ResumeAssert(id) ==
  LET h == slot[id] IN
  /\ h # Null /\ status[h] \notin {"READY", "SUSPEND", "STOPED"}
  /\ abort' = "co_resume default assert"
  /\ UNCHANGED <<running, slot, status, stackVars>>

Resume(id) ==
  \/ Start(id)
  \/ Continue(id)
  \/ ResumeFaults(id)
  \/ Reclaim(id)
  \/ ResumeNone(id)
  \/ ResumeAssert(id)

CoResume(id) ==
  /\ MainCanCall
  /\ InRange(id)
  /\ Resume(id)
  /\ UNCHANGED <<envVars, nco, objVars, mainVars>>

\* The two assertions on entry: called by a coroutine, or id out of range.
\* co_join and co_wait called so die here, in their first co_resume.
CoResumeDies(id) ==
  /\ CoRunning \/ (MainCanCall /\ ~InRange(id))
  /\ Die("co_resume assert")

CoJoin(id) ==
  /\ MainCanCall /\ InRange(id)
  /\ pc' = "join" /\ arg' = id
  /\ UNCHANGED <<envVars, nco, running, slot, status, objVars, stackVars,
                 flag, abort>>

\* Mutant: co_join resumes the coroutine once.
JoinOnce ==
  /\ abort = "none" /\ running = -1 /\ pc = "join"
  /\ Resume(arg)
  /\ pc' = "idle"
  /\ UNCHANGED <<envVars, nco, objVars, arg, flag>>

JoinStep ==
  /\ abort = "none" /\ running = -1 /\ pc = "join"
  /\ Resume(arg)
  /\ pc' = IF Resumable(arg) THEN "join" ELSE "idle"
  /\ UNCHANGED <<envVars, nco, objVars, arg, flag>>

CoWait ==
  /\ MainCanCall
  /\ pc' = "wait" /\ arg' = 0 /\ flag' = FALSE
  /\ UNCHANGED <<envVars, nco, running, slot, status, objVars, stackVars,
                 abort>>

\* Mutant: flag tells of the last slot only.
WaitLastFlag ==
  /\ abort = "none" /\ running = -1 /\ pc = "wait"
  /\ arg < cap
  /\ Resume(arg)
  /\ flag' = Resumable(arg)
  /\ arg' = arg + 1
  /\ UNCHANGED <<envVars, nco, objVars, pc>>

\* Mutant: after a coroutine has run, the round starts from slot 0 again.
WaitRestarts ==
  /\ abort = "none" /\ running = -1 /\ pc = "wait"
  /\ arg < cap
  /\ Resume(arg)
  /\ flag' = (flag \/ Resumable(arg))
  /\ arg' = IF Resumable(arg) THEN 0 ELSE arg + 1
  /\ UNCHANGED <<envVars, nco, objVars, pc>>

\* One round of the for loop, which reads env->cap again every time.
WaitStep ==
  /\ abort = "none" /\ running = -1 /\ pc = "wait"
  /\ arg < cap
  /\ Resume(arg)
  /\ flag' = (flag \/ Resumable(arg))
  /\ arg' = arg + 1
  /\ UNCHANGED <<envVars, nco, objVars, pc>>

WaitAgain ==
  /\ abort = "none" /\ running = -1 /\ pc = "wait"
  /\ arg >= cap
  /\ arg' = 0 /\ flag' = FALSE
  /\ pc' = IF flag THEN "wait" ELSE "idle"
  /\ UNCHANGED <<envVars, nco, running, slot, status, objVars, stackVars,
                 abort>>

-----------------------------------------------------------------------------
(***************************************************************************)
(* The running coroutine: calls and returns of its own function, co_swap,  *)
(* and the end of _co_main.                                                *)
(***************************************************************************)

Push(v) ==
  /\ CoRunning /\ depth < StackSize
  /\ stack' = [stack EXCEPT ![depth + 1] = v]
  /\ depth' = depth + 1
  /\ UNCHANGED <<envVars, nco, running, slot, status, objVars, mainVars,
                 abort>>

Pop ==
  /\ CoRunning /\ depth > 1
  /\ depth' = depth - 1
  /\ UNCHANGED <<envVars, nco, running, slot, status, objVars, stack,
                 mainVars, abort>>

\* The cells in use, lowest address first.
InUse == [j \in 1..depth |-> stack[depth + 1 - j]]

\* memcpy into a buffer that is larger than needed keeps what is behind.
Overwritten(h) ==
  [j \in 1..bcap[h] |-> IF j <= depth THEN InUse[j] ELSE buf[h][j]]

SaveInNewBuffer(h) ==
  /\ bcap[h] < depth
  /\ bcap' = [bcap EXCEPT ![h] = depth]
  /\ \E b \in Alloc(InUse) : buf' = [buf EXCEPT ![h] = b]

SaveInOldBuffer(h) ==
  /\ bcap[h] >= depth
  /\ buf' = [buf EXCEPT ![h] = IF @ = Null THEN Null ELSE Overwritten(h)]
  /\ UNCHANGED bcap

\* Mutant: size is set only together with a new buffer.
SaveKeepsSize(h) ==
  \/ SaveInNewBuffer(h) /\ size' = [size EXCEPT ![h] = depth]
  \/ SaveInOldBuffer(h) /\ UNCHANGED size

SaveStack(h) ==
  /\ size' = [size EXCEPT ![h] = depth]
  /\ SaveInNewBuffer(h) \/ SaveInOldBuffer(h)

CoSwap ==
  LET h == slot[running] IN
  /\ CoRunning
  /\ status' = [status EXCEPT ![h] = "SUSPEND"]
  /\ running' = -1
  /\ SaveStack(h)
  /\ ctx' = [ctx EXCEPT ![h] = depth]
  /\ UNCHANGED <<envVars, nco, slot, stackVars, mainVars, abort>>

\* Mutant: a coroutine that finishes still counts.
FinishUncounted ==
  LET h == stack[1] IN
  /\ CoRunning /\ depth = 1 /\ h \in Handle
  /\ status' = [status EXCEPT ![h] = "STOPED"]
  /\ running' = -1
  /\ UNCHANGED <<envVars, nco, slot, objVars, stackVars, mainVars, abort>>

\* co->func returns to _co_main, whose local co is in cell 1.
Finish ==
  LET h == stack[1] IN
  /\ CoRunning /\ depth = 1 /\ h \in Handle
  /\ status' = [status EXCEPT ![h] = "STOPED"]
  /\ nco' = nco - 1
  /\ running' = -1
  /\ UNCHANGED <<envVars, slot, objVars, stackVars, mainVars, abort>>

-----------------------------------------------------------------------------
Aborted == abort # "none" /\ UNCHANGED vars

MainStep == JoinStep \/ WaitStep \/ WaitAgain
YieldStep == CoSwap \/ Finish

Next ==
  \/ \E c \in OpenArgs : CoOpen(c)
  \/ CoOpenFails
  \/ CoClose \/ CoCloseNull \/ CoCloseDangling
  \/ CoNew \/ CoNewDies
  \/ \E id \in -1..cap : CoResume(id) \/ CoResumeDies(id) \/ CoJoin(id)
  \/ CoWait
  \/ MainStep
  \/ \E v \in Val : Push(v)
  \/ Pop
  \/ YieldStep
  \/ Aborted

Spec == Init /\ [][Next]_vars

\* The thread keeps executing: co_join and co_wait go on with their loops,
\* and every coroutine that runs calls co_swap or returns in the end.
Fairness == WF_vars(MainStep) /\ WF_vars(YieldStep)
FairSpec == Spec /\ Fairness

-----------------------------------------------------------------------------
(***************************************************************************)
(* Properties.                                                             *)
(***************************************************************************)

EnvType ==
  /\ env \in {"null", "open", "dangling"}
  /\ cap \in Nat /\ nco \in Int /\ running \in -1..(cap - 1)
  /\ slot \in [0..(cap - 1) -> Handle \cup {Null}]
  /\ past \in Handle \cup {Null, Junk}

ObjType ==
  /\ ctx \in [Handle -> 0..StackSize \cup {Null}]
  /\ size \in [Handle -> 0..StackSize]
  /\ bcap \in [Handle -> 0..StackSize]
  /\ DOMAIN buf = Handle
  /\ \A h \in Handle : buf[h] \in [1..bcap[h] -> Cell] \cup {Null}

StackType == stack \in [1..StackSize -> Cell] /\ depth \in 0..StackSize

MainType ==
  /\ pc \in {"idle", "join", "wait"}
  /\ arg \in Nat /\ flag \in BOOLEAN
  /\ abort \in {"none", "use after free", "co_new assert",
                "co_resume assert", "co_resume default assert",
                "null dereference"}

\* Type invariant: every field of co_env and of every coroutine object holds
\* a value of its C type that the library can have put there.
TypeOK ==
  /\ EnvType /\ ObjType /\ StackType /\ MainType
  /\ status \in [Handle -> Status]

\* running_id and the status fields, which co_resume, co_swap and _co_main
\* update separately and over several calls, always agree: the object in
\* slot running_id has status CO_RUNNING and no other object has.
OneRunning ==
  \A h \in Handle : status[h] = "RUNNING" <=> running # -1 /\ slot[running] = h

\* The default branch of co_resume's switch, `assert(0)', is unreachable: the
\* main function never finds a running or freed object in a slot.
NoDefaultAssert == abort # "co_resume default assert"

\* env->nco, which only co_new and _co_main change, is the number of
\* coroutines that have been created and have not finished ("协程数量").  The
\* growth test of co_new relies on it (co.c:234); its assert(0) is reached for
\* two reasons only: a finished coroutine still has its slot and is not
\* counted any more, or the one free slot is nco - 1, which the scan does not
\* probe because it looks at the word behind the array instead (co.c:254).
NcoIsLive ==
  /\ nco = Cardinality({h \in Handle : status[h] \in Live})
  /\ abort = "co_new assert" => \/ \E h \in InSlots : status[h] = "STOPED"
                                \/ slot[nco - 1] = Null /\ past # Null

\* An identifier that co_new returned, 0 to cap, names the same coroutine
\* until that coroutine has finished and co_resume has reclaimed it, or the
\* environment is closed or replaced: later calls of co_new never move or
\* overwrite it, with one exception.  Identifier cap names the coroutine that
\* the scan stored behind the array (co.c:254-258); when the array grows,
\* co_new returns cap a second time, for the coroutine it stores there, and
\* the first one has no identifier any more (co.c:246-250).
IdStable ==
  [][\A i \in 0..cap :
       At(i) \in Handle /\ env' = "open" /\ status'[At(i)] # "leaked" =>
         \/ At(i)' = At(i)
         \/ status[At(i)] = "STOPED" /\ At(i)' = Null
         \/ i = cap /\ cap' = 2 * cap + 1]_vars

\* When co_join(id) returns, the coroutine id has finished and is reclaimed.
JoinPost ==
  [][pc = "join" /\ pc' = "idle" /\ abort' = "none" => slot'[arg] = Null]_vars

\* When co_wait returns, every coroutine in the array has finished and is
\* reclaimed, including the ones other coroutines created meanwhile.
WaitPost ==
  [][pc = "wait" /\ pc' = "idle" =>
       \A i \in 0..(cap - 1) : slot[i] = Null]_vars

\* While the main function is in co_wait, a coroutine that waits for its turn
\* gets it, unless the process dies.
NoStarvation ==
  \A h \in Handle :
    (pc = "wait" /\ h \in InSlots /\ status[h] \in {"READY", "SUSPEND"})
      ~> (status[h] = "RUNNING" \/ abort # "none")

(***************************************************************************)
(* The inductive invariant behind these properties.                        *)
(***************************************************************************)

\* An object is in at most one slot, and every object in a slot is allocated
\* and unreachable for calloc; one that co_new stored behind the array stays
\* as it was created.
SlotInv ==
  /\ \A i, j \in 0..(cap - 1) : slot[i] # Null /\ slot[i] = slot[j] => i = j
  /\ \A i \in 0..(cap - 1) : slot[i] # Null =>
       status[slot[i]] \in Live \cup {"STOPED"}
  /\ past \in Handle => /\ status[past] = "READY"
                        /\ \A i \in 0..(cap - 1) : slot[i] # past

\* The running coroutine is the one whose frame is at the top of the stack.
RunInv ==
  /\ OneRunning
  /\ running # -1 => /\ env = "open" /\ slot[running] # Null
                     /\ depth >= 1 /\ stack[1] = slot[running]

\* What co_swap saved is what co_resume will restore: the context and the
\* buffer are of the same size, and the outermost cell names the owner.
SaveInv ==
  \A h \in Handle : status[h] = "SUSPEND" =>
    /\ size[h] >= 1 /\ ctx[h] = size[h]
    /\ buf[h] # Null => size[h] <= bcap[h] /\ buf[h][size[h]] = h

\* The loops of co_join and co_wait: while flag is FALSE no coroutine has run
\* in this round and the slots passed so far are empty.
LoopInv ==
  /\ pc # "idle" => env = "open"
  /\ pc = "join" => arg < cap
  /\ pc = "wait" /\ ~flag => /\ running = -1
                             /\ \A i \in 0..(cap - 1) : i < arg => slot[i] = Null

\* The library's data structures stay consistent through every sequence of
\* calls: slots, statuses, saved stacks and the callers' loops together.
Inv == SlotInv /\ RunInv /\ SaveInv /\ LoopInv /\ NoDefaultAssert
IndInv == TypeOK /\ Inv

(***************************************************************************)
(* The shared stack implements private stacks.                             *)
(***************************************************************************)

AbsState(h) ==
  CASE status[h] = "free" -> "none"
    [] status[h] = "leaked" -> "gone"
    [] status[h] = "READY" -> "ready"
    [] status[h] = "RUNNING" -> "running"
    [] status[h] = "SUSPEND" -> IF buf[h] = Null THEN "lost" ELSE "suspended"
    [] status[h] = "STOPED" -> "done"

AbsFrames(h) ==
  CASE status[h] = "RUNNING" -> [k \in 1..depth |-> stack[k]]
    [] status[h] = "SUSPEND" /\ buf[h] # Null ->
         [k \in 1..size[h] |-> buf[h][size[h] + 1 - k]]
    [] OTHER -> <<>>

Private == INSTANCE CoPrivate WITH st <- [h \in Handle |-> AbsState(h)],
                                   frames <- [h \in Handle |-> AbsFrames(h)]

\* Copying the shared stack out in co_swap and back in co_resume gives every
\* coroutine the illusion of a private stack, and _co_main ends the coroutine
\* it started, however the coroutines of the thread interleave.
PrivateSpec == Private!Spec
=============================================================================
