-------------------------- MODULE CoroutineProofs --------------------------
(***************************************************************************)
(* Proofs about the coroutine library, for every number of coroutine       *)
(* objects, every size of the shared stack and every initial capacity, and *)
(* whether or not memory runs out.                                         *)
(*                                                                         *)
(* TypeOK and Inv are proved together, one lemma per group of operations;  *)
(* the theorems on co_wait, co_join and identifiers follow from them.      *)
(* Counting the coroutines needs an invariant of its own, and so does the  *)
(* refinement, at the end, of private stacks.                              *)
(***************************************************************************)
EXTENDS Coroutine, FiniteSetTheorems, TLAPS

USE CapAssumption, StackAssumption, NullAssumption, AllocAssumption
USE DEF IndInv, Inv

\* The initial state, before co_open, satisfies the invariant.
LEMMA InitInv == Init => IndInv
<1> SUFFICES ASSUME Init PROVE IndInv
  OBVIOUS
<1>1. 0..(cap - 1) = {} /\ 0..(-1) = {}
  BY DEF Init
<1>2. TypeOK
  <2>1. EnvType
    BY <1>1 DEF Init, EnvType
  <2>2. ObjType
    BY DEF Init, ObjType
  <2>3. StackType
    BY DEF Init, StackType, Cell
  <2>4. MainType
    BY DEF Init, MainType
  <2> QED
    BY <2>1, <2>2, <2>3, <2>4 DEF Init, TypeOK, Status
<1>3. SlotInv /\ SaveInv
  BY <1>1 DEF Init, SlotInv, SaveInv
<1>4. RunInv /\ LoopInv /\ NoDefaultAssert
  BY DEF Init, RunInv, OneRunning, LoopInv, NoDefaultAssert
<1> QED
  BY <1>2, <1>3, <1>4

\* co_open and co_close leave no coroutine in the array and no identifier in
\* use, whatever was there before.
LEMMA OpenCloseInv ==
  IndInv /\ ((\E c \in OpenArgs : CoOpen(c)) \/ CoOpenFails \/ CoClose) => IndInv'
<1> SUFFICES ASSUME IndInv,
                    (\E c \in OpenArgs : CoOpen(c)) \/ CoOpenFails \/ CoClose
             PROVE  IndInv'
  OBVIOUS
<1> USE DEF MainIdle, MainCanCall, NoEnv, objVars, mainVars
<1>1. /\ MainIdle /\ env' \in {"null", "open", "dangling"}
      /\ cap' \in Nat /\ nco' = 0 /\ running' = -1 /\ depth' = 0
      /\ slot' = [i \in 0..(cap' - 1) |-> Null]
      /\ past' \in {Null, Junk}
      /\ stack' \in [1..StackSize -> Cell]
      /\ UNCHANGED <<objVars, mainVars, abort>>
  <2>1. ASSUME NEW c \in OpenArgs, CoOpen(c) PROVE <1>1!:
    BY <2>1 DEF CoOpen, Cell
  <2>2. stack \in [1..StackSize -> Cell]
    BY DEF TypeOK, StackType
  <2>0. ASSUME NEW e \in {"null", "dangling"}, NoEnv(e)
        PROVE  /\ env' \in {"null", "open", "dangling"}
               /\ cap' \in Nat /\ nco' = 0 /\ running' = -1 /\ depth' = 0
               /\ slot' = [i \in 0..(cap' - 1) |-> Null]
               /\ past' \in {Null, Junk}
    BY <2>0
  <2>3. CASE CoOpenFails
    BY <2>0, <2>2, <2>3 DEF CoOpenFails
  <2>4. CASE CoClose
    BY <2>0, <2>2, <2>4 DEF CoClose
  <2> QED
    BY <2>1, <2>3, <2>4
<1>2. /\ status' \in [Handle -> Status]
      /\ \A h \in Handle : status'[h] \in {"free", "leaked"}
  <2>1. Forget(Handle) \in [Handle -> Status]
        /\ \A h \in Handle : Forget(Handle)[h] \in {"free", "leaked"}
    BY DEF Forget, Status, TypeOK
  <2> QED
    BY <2>1 DEF CoOpen, CoOpenFails, CoClose, Status
<1>3. TypeOK'
  <2>1. EnvType'
    <3>1. slot' \in [0..(cap' - 1) -> Handle \cup {Null}]
      BY <1>1
    <3>2. cap' \in Nat /\ nco' \in Int /\ running' \in -1..(cap' - 1)
      <4>1. PICK c \in Nat : cap' = c
        BY <1>1
      <4> QED
        BY <1>1, <4>1
    <3> QED
      BY <1>1, <3>1, <3>2 DEF EnvType
  <2>2. StackType'
    BY <1>1 DEF StackType
  <2>3. ObjType' /\ MainType'
    BY <1>1 DEF TypeOK, ObjType, MainType
  <2> QED
    BY <1>2, <2>1, <2>2, <2>3 DEF TypeOK
<1>4. SlotInv'
  BY <1>1, <1>2 DEF SlotInv
<1>5. RunInv'
  BY <1>1, <1>2 DEF RunInv, OneRunning
<1>6. SaveInv'
  BY <1>2 DEF SaveInv
<1>7. LoopInv' /\ NoDefaultAssert'
  BY <1>1 DEF LoopInv, NoDefaultAssert
<1> QED
  BY <1>3, <1>4, <1>5, <1>6, <1>7

\* A process that dies changes nothing else.
LEMMA DieInv ==
  IndInv /\ (CoCloseDangling \/ CoNewDies \/ (\E id \in -1..cap : CoResumeDies(id)))
    => IndInv'
<1> SUFFICES ASSUME IndInv,
                    NEW how \in {"use after free", "co_new assert",
                                 "co_resume assert"},
                    Die(how)
             PROVE  IndInv'
  BY DEF CoCloseDangling, CoNewDies, CoNewAssert, CoResumeDies
<1> USE DEF Die, envVars, objVars, stackVars, mainVars
<1>1. TypeOK'
  BY DEF TypeOK, EnvType, ObjType, StackType, MainType
<1>2. SlotInv' /\ SaveInv'
  BY DEF SlotInv, SaveInv
<1>3. RunInv' /\ LoopInv' /\ NoDefaultAssert'
  BY DEF RunInv, OneRunning, LoopInv, NoDefaultAssert
<1> QED
  BY <1>1, <1>2, <1>3

\* co_join and co_wait as such, and the end of a round of co_wait.
LEMMA LoopStepInv ==
  IndInv /\ ((\E id \in -1..cap : CoJoin(id)) \/ CoWait \/ WaitAgain) => IndInv'
<1> SUFFICES ASSUME IndInv, (\E id \in -1..cap : CoJoin(id)) \/ CoWait \/ WaitAgain
             PROVE  IndInv'
  OBVIOUS
<1> USE DEF CoJoin, CoWait, WaitAgain, MainCanCall, MainIdle, InRange,
            envVars, objVars, stackVars
<1>1. UNCHANGED <<env, cap, nco, running, slot, past, status, ctx, size, bcap,
                  buf, stack, depth, abort>>
  OBVIOUS
<1>2. TypeOK'
  <2>1. EnvType' /\ ObjType' /\ StackType'
    BY <1>1 DEF TypeOK, EnvType, ObjType, StackType
  <2>2. arg' \in Nat
    BY DEF TypeOK, EnvType
  <2>3. pc' \in {"idle", "join", "wait"} /\ flag' \in BOOLEAN
    BY DEF TypeOK, MainType
  <2>4. MainType'
    BY <1>1, <2>2, <2>3 DEF TypeOK, MainType
  <2> QED
    BY <1>1, <2>1, <2>4 DEF TypeOK
<1>3. SlotInv' /\ SaveInv'
  BY <1>1 DEF SlotInv, SaveInv
<1>4. RunInv' /\ NoDefaultAssert'
  BY <1>1 DEF RunInv, OneRunning, NoDefaultAssert
<1>5. LoopInv'
  BY <1>1 DEF LoopInv, TypeOK, EnvType
<1> QED
  BY <1>2, <1>3, <1>4, <1>5

\* Calls and returns of the running coroutine's own function move the stack
\* pointer but never reach the frame of _co_main.
LEMMA PushPopInv == IndInv /\ ((\E v \in Val : Push(v)) \/ Pop) => IndInv'
<1> SUFFICES ASSUME IndInv, (\E v \in Val : Push(v)) \/ Pop PROVE IndInv'
  OBVIOUS
<1> USE DEF Push, Pop, CoRunning, envVars, objVars, stackVars, mainVars
<1>1. UNCHANGED <<env, cap, nco, running, slot, past, status, ctx, size, bcap,
                  buf, pc, arg, flag, abort>>
  OBVIOUS
<1>2. running # -1 /\ depth \in 1..StackSize /\ stack \in [1..StackSize -> Cell]
  BY DEF TypeOK, StackType, RunInv
<1>3. /\ depth' \in 1..StackSize /\ stack' \in [1..StackSize -> Cell]
      /\ stack'[1] = stack[1] /\ depth' >= 1
  BY <1>2 DEF Cell
<1>4. TypeOK'
  <2>1. EnvType' /\ ObjType' /\ MainType'
    BY <1>1 DEF TypeOK, EnvType, ObjType, MainType
  <2>2. StackType'
    BY <1>3 DEF StackType
  <2> QED
    BY <1>1, <2>1, <2>2 DEF TypeOK
<1>5. SlotInv' /\ SaveInv'
  BY <1>1 DEF SlotInv, SaveInv
<1>6. RunInv'
  BY <1>1, <1>3 DEF RunInv, OneRunning
<1>7. LoopInv' /\ NoDefaultAssert'
  BY <1>1 DEF LoopInv, NoDefaultAssert
<1> QED
  BY <1>4, <1>5, <1>6, <1>7

\* The end of _co_main: the coroutine that stops is the one that runs.
LEMMA FinishInv == IndInv /\ Finish => IndInv'
<1> SUFFICES ASSUME IndInv, Finish PROVE IndInv'
  OBVIOUS
<1> DEFINE h == stack[1]
<1> USE DEF Finish, CoRunning, envVars, objVars, stackVars, mainVars
<1>1. /\ running \in 0..(cap - 1) /\ h \in Handle /\ slot[running] = h
      /\ status \in [Handle -> Status] /\ status[h] = "RUNNING"
      /\ status' = [status EXCEPT ![h] = "STOPED"]
      /\ running' = -1
  BY DEF TypeOK, EnvType, RunInv, OneRunning
<1>2. UNCHANGED <<env, cap, slot, past, ctx, size, bcap, buf, stack, depth,
                  pc, arg, flag, abort>>
  OBVIOUS
<1> HIDE DEF h
<1>3. TypeOK'
  <2>1. ObjType' /\ MainType' /\ StackType'
    BY <1>2 DEF TypeOK, StackType, ObjType, MainType
  <2>2. EnvType'
    BY <1>2 DEF TypeOK, EnvType
  <2>3. status' \in [Handle -> Status]
    BY <1>1 DEF Status
  <2> QED
    BY <2>1, <2>2, <2>3 DEF TypeOK
<1>4. SlotInv'
  BY <1>1, <1>2 DEF SlotInv, Live, TypeOK, EnvType
<1>5. SaveInv'
  BY <1>1, <1>2 DEF SaveInv
<1>6. RunInv'
  BY <1>1, <1>2 DEF RunInv, OneRunning
<1>7. LoopInv' /\ NoDefaultAssert'
  BY <1>1, <1>2 DEF LoopInv, NoDefaultAssert
<1> QED
  BY <1>3, <1>4, <1>5, <1>6, <1>7

\* What _save_stack leaves in the private buffer of h, whether it reuses the
\* buffer, allocates a larger one or fails to: the cells in use, the one of
\* _co_main at position depth.
LEMMA SavedBuffer ==
  ASSUME TypeOK, NEW h \in Handle, depth \in 1..StackSize, SaveStack(h)
  PROVE  /\ bcap' \in [Handle -> 0..StackSize]
         /\ DOMAIN buf' = Handle
         /\ \A g \in Handle : buf'[g] \in [1..bcap'[g] -> Cell] \cup {Null}
         /\ \A g \in Handle \ {h} : buf'[g] = buf[g] /\ bcap'[g] = bcap[g]
         /\ buf'[h] # Null => /\ depth <= bcap'[h]
                              /\ \A j \in 1..depth : buf'[h][j] = InUse[j]
<1>1. /\ stack \in [1..StackSize -> Cell] /\ bcap \in [Handle -> 0..StackSize]
      /\ DOMAIN buf = Handle
      /\ \A g \in Handle : buf[g] \in [1..bcap[g] -> Cell] \cup {Null}
  BY DEF TypeOK, StackType, ObjType
<1>2. InUse \in [1..depth -> Cell]
  BY <1>1 DEF InUse
<1>3. CASE SaveInNewBuffer(h)
  <2>1. PICK b \in Alloc(InUse) : buf' = [buf EXCEPT ![h] = b]
    BY <1>3 DEF SaveInNewBuffer
  <2>2. bcap' = [bcap EXCEPT ![h] = depth]
    BY <1>3 DEF SaveInNewBuffer
  <2>3. b = InUse \/ b = Null
    BY <2>1 DEF Alloc
  <2> QED
    BY <1>1, <1>2, <2>1, <2>2, <2>3
<1>4. CASE SaveInOldBuffer(h)
  <2>1. /\ bcap' = bcap /\ depth <= bcap[h]
        /\ buf' = [buf EXCEPT ![h] = IF buf[h] = Null THEN Null ELSE Overwritten(h)]
    BY <1>1, <1>4 DEF SaveInOldBuffer
  <2>2. ASSUME buf[h] # Null
        PROVE  /\ Overwritten(h) \in [1..bcap[h] -> Cell]
               /\ \A j \in 1..depth : Overwritten(h)[j] = InUse[j]
    BY <1>1, <1>2, <2>1, <2>2 DEF Overwritten
  <2> QED
    BY <1>1, <2>1, <2>2
<1> QED
  BY <1>3, <1>4 DEF SaveStack

\* co_swap: the object that is suspended is the one that ran, and what is
\* saved of the shared stack is what it had on it.
LEMMA SwapInv == IndInv /\ CoSwap => IndInv'
<1> SUFFICES ASSUME IndInv, CoSwap PROVE IndInv'
  OBVIOUS
<1> DEFINE h == slot[running]
<1>1. /\ running \in 0..(cap - 1) /\ h \in Handle /\ status[h] = "RUNNING"
      /\ status \in [Handle -> Status]
      /\ depth \in 1..StackSize /\ stack[1] = h
  BY DEF CoSwap, CoRunning, TypeOK, EnvType, StackType, RunInv, OneRunning
<1>2. /\ status' = [status EXCEPT ![h] = "SUSPEND"]
      /\ running' = -1 /\ SaveStack(h)
      /\ ctx' = [ctx EXCEPT ![h] = depth]
      /\ size' = [size EXCEPT ![h] = depth]
      /\ UNCHANGED <<env, cap, past, nco, slot, stack, depth, pc, arg, flag, abort>>
  BY DEF CoSwap, SaveStack, envVars, stackVars, mainVars
<1> HIDE DEF h
<1>3. /\ bcap' \in [Handle -> 0..StackSize]
      /\ DOMAIN buf' = Handle
      /\ \A g \in Handle : buf'[g] \in [1..bcap'[g] -> Cell] \cup {Null}
      /\ \A g \in Handle \ {h} : buf'[g] = buf[g] /\ bcap'[g] = bcap[g]
      /\ buf'[h] # Null => /\ depth <= bcap'[h]
                           /\ \A j \in 1..depth : buf'[h][j] = InUse[j]
  BY <1>1, <1>2, SavedBuffer
<1>4. TypeOK'
  <2>0. MainType' /\ StackType'
    BY <1>2 DEF TypeOK, StackType, MainType
  <2>1. EnvType'
    BY <1>2 DEF TypeOK, EnvType
  <2>2. ObjType'
    <3>1. /\ ctx' \in [Handle -> 0..StackSize \cup {Null}]
          /\ size' \in [Handle -> 0..StackSize]
      BY <1>1, <1>2 DEF TypeOK, ObjType
    <3> QED
      BY <1>3, <3>1 DEF ObjType
  <2>3. status' \in [Handle -> Status]
    BY <1>1, <1>2 DEF Status, Live
  <2> QED
    BY <2>0, <2>1, <2>2, <2>3 DEF TypeOK
<1>5. SlotInv'
  BY <1>1, <1>2 DEF SlotInv, Live, TypeOK, EnvType
<1>6. SaveInv'
  <2> SUFFICES ASSUME NEW g \in Handle, status'[g] = "SUSPEND"
               PROVE  /\ size'[g] >= 1 /\ ctx'[g] = size'[g]
                      /\ buf'[g] # Null => /\ size'[g] <= bcap'[g]
                                           /\ buf'[g][size'[g]] = g
    BY DEF SaveInv
  <2>1. CASE g = h
    <3>1. InUse[depth] = h
      BY <1>1 DEF InUse
    <3>2. size'[g] = depth /\ ctx'[g] = depth
      BY <1>1, <1>2, <2>1 DEF TypeOK, ObjType
    <3> QED
      BY <1>1, <1>3, <2>1, <3>1, <3>2
  <2>2. CASE g # h
    <3>1. /\ status[g] = "SUSPEND" /\ size'[g] = size[g] /\ ctx'[g] = ctx[g]
          /\ buf'[g] = buf[g] /\ bcap'[g] = bcap[g]
      BY <1>1, <1>2, <1>3, <2>2 DEF TypeOK, ObjType
    <3> QED
      BY <3>1 DEF SaveInv
  <2> QED
    BY <2>1, <2>2
<1>7. RunInv'
  BY <1>1, <1>2 DEF RunInv, OneRunning
<1>8. LoopInv' /\ NoDefaultAssert'
  BY <1>1, <1>2 DEF LoopInv, NoDefaultAssert
<1> QED
  BY <1>4, <1>5, <1>6, <1>7, <1>8

\* co_resume, called by the main function with an identifier in range: the
\* default branch is not taken, and if no coroutine was switched to, the slot
\* is empty afterwards.
LEMMA ResumeLemma ==
  ASSUME IndInv, running = -1, abort = "none", env = "open",
         NEW id \in 0..(cap - 1), Resume(id), UNCHANGED <<envVars, nco, objVars>>
  PROVE  /\ EnvType' /\ ObjType' /\ StackType' /\ status' \in [Handle -> Status]
         /\ abort' \in {"none", "null dereference"}
         /\ SlotInv' /\ RunInv' /\ SaveInv'
         /\ \/ Resumable(id)
            \/ running' = -1 /\ slot'[id] = Null /\
               \A j \in (0..(cap - 1)) \ {id} : slot'[j] = slot[j]
<1> USE DEF envVars, objVars, stackVars
<1>1. /\ cap \in Nat /\ slot \in [0..(cap - 1) -> Handle \cup {Null}]
      /\ status \in [Handle -> Status] /\ stack \in [1..StackSize -> Cell]
      /\ depth \in 0..StackSize
  BY DEF TypeOK, EnvType, StackType
<1>2. \A h \in Handle : status[h] # "RUNNING"
  BY DEF RunInv, OneRunning
<1>3. ObjType'
  BY DEF TypeOK, ObjType
<1>4. ASSUME NEW h \in Handle, slot[id] = h, status[h] \in {"READY", "SUSPEND"},
             running' = id, status' = [status EXCEPT ![h] = "RUNNING"],
             slot' = slot, abort' = abort,
             stack' \in [1..StackSize -> Cell], stack'[1] = h,
             \E d \in 1..StackSize : depth' = d
      PROVE  /\ EnvType' /\ StackType' /\ status' \in [Handle -> Status]
             /\ SlotInv' /\ RunInv' /\ SaveInv'
  <2>1. PICK d \in 1..StackSize : depth' = d
    BY <1>4
  <2>2. EnvType'
    BY <1>1, <1>4 DEF TypeOK, EnvType
  <2>3. StackType'
    BY <1>4, <2>1 DEF StackType
  <2>4. status' \in [Handle -> Status]
    BY <1>1, <1>4 DEF Status, Live
  <2>5. SlotInv'
    <3>1. ASSUME past \in Handle PROVE past # h
      BY <1>4, <3>1 DEF SlotInv
    <3> QED
      BY <1>1, <1>4, <3>1 DEF SlotInv, Live
  <2>6. RunInv'
    BY <1>1, <1>2, <1>4, <2>1 DEF RunInv, OneRunning
  <2>7. SaveInv'
    BY <1>1, <1>4 DEF SaveInv
  <2> QED
    BY <2>2, <2>3, <2>4, <2>5, <2>6, <2>7
<1>5. CASE Start(id)
  <2> DEFINE h == slot[id]
  <2>1. /\ h \in Handle /\ status[h] = "READY" /\ running' = id
        /\ status' = [status EXCEPT ![h] = "RUNNING"] /\ slot' = slot
        /\ abort' = abort /\ depth' = 1 /\ stack' = [stack EXCEPT ![1] = h]
    BY <1>1, <1>5 DEF Start, MakeCtx, SwapCtx
  <2>2. stack' \in [1..StackSize -> Cell] /\ stack'[1] = h
    BY <1>1, <2>1 DEF Cell
  <2>3. \E d \in 1..StackSize : depth' = d
    BY <2>1
  <2>4. Resumable(id)
    BY <2>1 DEF Resumable
  <2> QED
    BY <1>3, <1>4, <2>1, <2>2, <2>3, <2>4
<1>6. CASE Continue(id)
  <2> DEFINE h == slot[id]
  <2>1. /\ h \in Handle /\ status[h] = "SUSPEND" /\ buf[h] # Null /\ running' = id
        /\ status' = [status EXCEPT ![h] = "RUNNING"] /\ slot' = slot
        /\ abort' = abort /\ depth' = ctx[h] /\ stack' = Restored(h)
    BY <1>1, <1>6 DEF Continue, SwapCtx
  <2>2. /\ size[h] \in 1..StackSize /\ ctx[h] = size[h] /\ size[h] <= bcap[h]
        /\ buf[h] \in [1..bcap[h] -> Cell] /\ buf[h][size[h]] = h
        /\ bcap[h] \in 0..StackSize
    BY <2>1 DEF SaveInv, TypeOK, ObjType
  <2>3. stack' \in [1..StackSize -> Cell] /\ stack'[1] = h
    <3>1. ASSUME NEW k \in 1..StackSize, k <= size[h]
          PROVE  buf[h][size[h] + 1 - k] \in Cell
      BY <2>2, <3>1
    <3>2. Restored(h) \in [1..StackSize -> Cell]
      BY <1>1, <2>2, <3>1 DEF Restored
    <3>3. Restored(h)[1] = h
      BY <2>2 DEF Restored
    <3> QED
      BY <2>1, <3>2, <3>3
  <2>4. \E d \in 1..StackSize : depth' = d
    BY <2>1, <2>2
  <2>5. Resumable(id)
    BY <2>1 DEF Resumable
  <2> QED
    BY <1>3, <1>4, <2>1, <2>3, <2>4, <2>5
<1>7. CASE ResumeFaults(id)
  <2>1. /\ UNCHANGED <<env, cap, past, nco, running, slot, status, stack, depth>>
        /\ abort' = "null dereference"
    BY <1>7 DEF ResumeFaults
  <2>2. EnvType' /\ StackType' /\ status' \in [Handle -> Status]
    BY <2>1 DEF TypeOK, EnvType, StackType
  <2>3. SlotInv' /\ RunInv' /\ SaveInv'
    BY <2>1 DEF SlotInv, RunInv, OneRunning, SaveInv
  <2>4. Resumable(id)
    BY <1>7 DEF ResumeFaults, Resumable
  <2> QED
    BY <1>3, <2>1, <2>2, <2>3, <2>4
<1>8. CASE Reclaim(id)
  <2> DEFINE h == slot[id]
  <2>1. /\ h \in Handle /\ status[h] = "STOPED"
        /\ status' = [status EXCEPT ![h] = "free"]
        /\ slot' = [slot EXCEPT ![id] = Null]
        /\ UNCHANGED <<env, cap, past, nco, running, stack, depth, abort>>
    BY <1>1, <1>8 DEF Reclaim
  <2>2. EnvType'
    BY <1>1, <2>1 DEF TypeOK, EnvType
  <2>3. StackType' /\ status' \in [Handle -> Status]
    BY <1>1, <2>1 DEF TypeOK, StackType, Status
  <2>4. SlotInv'
    <3>1. past \in Handle => past # h
      BY <2>1 DEF SlotInv
    <3>2. \A j \in 0..(cap - 1) : j # id => slot[j] # h
      BY <1>1, <2>1 DEF SlotInv
    <3> HIDE DEF h
    <3> QED
      BY <1>1, <2>1, <3>1, <3>2 DEF SlotInv
  <2>5. RunInv' /\ SaveInv'
    BY <1>1, <1>2, <2>1 DEF RunInv, OneRunning, SaveInv
  <2>6. running' = -1 /\ slot'[id] = Null
        /\ \A j \in (0..(cap - 1)) \ {id} : slot'[j] = slot[j]
    BY <1>1, <2>1
  <2> QED
    BY <1>3, <2>1, <2>2, <2>3, <2>4, <2>5, <2>6
<1>9. CASE ResumeNone(id)
  <2>1. /\ UNCHANGED <<env, cap, past, nco, running, slot, status, stack, depth, abort>>
        /\ slot[id] = Null
    BY <1>9 DEF ResumeNone
  <2>2. EnvType' /\ StackType' /\ status' \in [Handle -> Status]
    BY <2>1 DEF TypeOK, EnvType, StackType
  <2>3. SlotInv' /\ RunInv' /\ SaveInv'
    BY <2>1 DEF SlotInv, RunInv, OneRunning, SaveInv
  <2> QED
    BY <1>3, <2>1, <2>2, <2>3
<1>10. ~ResumeAssert(id)
  BY <1>1, <1>2 DEF ResumeAssert, SlotInv, Live
<1> QED
  BY <1>5, <1>6, <1>7, <1>8, <1>9, <1>10 DEF Resume

\* co_resume and the rounds of co_join and co_wait.
LEMMA ResumeInv ==
  IndInv /\ ((\E id \in -1..cap : CoResume(id)) \/ JoinStep \/ WaitStep) => IndInv'
<1> SUFFICES ASSUME IndInv, (\E id \in -1..cap : CoResume(id)) \/ JoinStep \/ WaitStep
             PROVE  IndInv'
  OBVIOUS
<1>1. cap \in Nat /\ slot \in [0..(cap - 1) -> Handle \cup {Null}] /\ arg \in Nat
      /\ pc \in {"idle", "join", "wait"}
  BY DEF TypeOK, EnvType, MainType
<1>2. /\ running = -1 /\ abort = "none" /\ env = "open"
      /\ UNCHANGED <<envVars, nco, objVars>>
  BY DEF CoResume, JoinStep, WaitStep, MainCanCall, MainIdle, LoopInv
<1>3. PICK id \in 0..(cap - 1) :
        /\ Resume(id)
        /\ \/ UNCHANGED mainVars /\ pc = "idle"
           \/ pc = "join" /\ id = arg /\ pc' \in {"join", "idle"} /\ UNCHANGED <<arg, flag>>
           \/ pc = "wait" /\ id = arg /\ arg' = arg + 1 /\ pc' = pc /\ WaitStep
  <2>1. CASE \E id \in -1..cap : CoResume(id)
    BY <1>1, <2>1 DEF CoResume, MainCanCall, MainIdle, InRange
  <2>2. CASE JoinStep
    BY <1>1, <2>2 DEF JoinStep, LoopInv
  <2>3. CASE WaitStep
    BY <1>1, <2>3 DEF WaitStep
  <2> QED
    BY <2>1, <2>2, <2>3
<1>4. /\ EnvType' /\ ObjType' /\ StackType' /\ status' \in [Handle -> Status]
      /\ abort' \in {"none", "null dereference"}
      /\ SlotInv' /\ RunInv' /\ SaveInv'
      /\ \/ Resumable(id)
         \/ running' = -1 /\ slot'[id] = Null /\
            \A j \in (0..(cap - 1)) \ {id} : slot'[j] = slot[j]
  BY <1>2, <1>3, ResumeLemma
<1>5. env' = env /\ cap' = cap
  BY <1>2 DEF envVars
<1>6. MainType'
  <2>1. pc' \in {"idle", "join", "wait"} /\ arg' \in Nat
    BY <1>1, <1>3 DEF mainVars
  <2>2. flag' \in BOOLEAN
    BY <1>3 DEF TypeOK, MainType, mainVars, WaitStep
  <2> QED
    BY <1>4, <2>1, <2>2 DEF MainType
<1>7. LoopInv'
  <2>1. CASE pc' # "wait"
    BY <1>1, <1>2, <1>3, <1>5, <2>1 DEF LoopInv, mainVars
  <2>2. CASE pc' = "wait"
    <3>1. pc = "wait" /\ id = arg /\ arg' = arg + 1
          /\ (~flag' => ~flag /\ ~Resumable(id))
      BY <1>3, <2>2 DEF WaitStep, mainVars
    <3>2. ASSUME ~flag'
          PROVE  running' = -1 /\ \A i \in 0..(cap - 1) : i < arg + 1 => slot'[i] = Null
      <4>1. \A i \in 0..(cap - 1) : i < arg => slot[i] = Null
        BY <3>1, <3>2 DEF LoopInv
      <4>2. running' = -1 /\ slot'[id] = Null
            /\ \A j \in (0..(cap - 1)) \ {id} : slot'[j] = slot[j]
        BY <1>4, <3>1, <3>2
      <4> QED
        BY <1>1, <3>1, <4>1, <4>2
    <3> QED
      BY <1>2, <1>5, <2>2, <3>1, <3>2 DEF LoopInv
  <2> QED
    BY <2>1, <2>2
<1> QED
  BY <1>4, <1>6, <1>7 DEF TypeOK, NoDefaultAssert

\* co_new, called by the main function or by a coroutine, by any of its paths:
\* growing the array, failing to, and storing into a slot or behind the array.
LEMMA NewInv == IndInv /\ CoNew => IndInv'
<1> SUFFICES ASSUME IndInv, CoNew PROVE IndInv'
  OBVIOUS
<1>1. PICK o \in CoNewObjects, c \in Alloc(0) :
        CoNewGrow(o, c) \/ CoNewGrowFails(o) \/ CoNewStore(o, c)
  BY DEF CoNew
<1>2. /\ UNCHANGED <<env, running, stack, depth, pc, arg, flag>>
      /\ env = "open" /\ abort' = abort
  BY <1>1 DEF CoNew, stackVars, mainVars, MainCanCall, CoRunning, CoNewGrow,
              CoNewGrowFails, CoNewStore
<1>3. /\ cap \in Nat /\ nco \in Int /\ running \in -1..(cap - 1)
      /\ slot \in [0..(cap - 1) -> Handle \cup {Null}]
      /\ past \in Handle \cup {Null, Junk}
      /\ status \in [Handle -> Status]
  BY DEF TypeOK, EnvType
<1>4. o = Null \/ (o \in Handle /\ status[o] = "free")
  BY DEF CoNewObjects
<1>5. ASSUME o \in Handle
      PROVE  (\A i \in 0..(cap - 1) : slot[i] # o) /\ past # o
  BY <1>3, <1>4, <1>5 DEF SlotInv, Live
<1>6. StackType' /\ MainType' /\ NoDefaultAssert'
  BY <1>2 DEF TypeOK, StackType, MainType, NoDefaultAssert
<1>7. /\ status' \in [Handle -> Status]
      /\ \A h \in Handle : h # o => status'[h] = status[h]
      /\ o \in Handle => status'[o] \in {"READY", "leaked"}
  BY <1>1, <1>3, <1>4 DEF CoNewGrow, CoNewGrowFails, CoNewStore, NewObject,
                          Status, Live
<1>8. /\ ObjType'
      /\ \A h \in Handle : h # o => /\ ctx'[h] = ctx[h] /\ size'[h] = size[h]
                                    /\ bcap'[h] = bcap[h] /\ buf'[h] = buf[h]
  <2>1. CASE UNCHANGED objVars
    BY <2>1 DEF objVars, TypeOK, ObjType
  <2>2. CASE /\ o \in Handle
             /\ ctx' = [ctx EXCEPT ![o] = c] /\ size' = [size EXCEPT ![o] = 0]
             /\ bcap' = [bcap EXCEPT ![o] = 0] /\ buf' = [buf EXCEPT ![o] = Null]
    <3>1. c \in {0, Null}
      BY DEF Alloc
    <3> QED
      BY <2>2, <3>1 DEF TypeOK, ObjType
  <2> QED
    BY <1>1, <1>4, <2>1, <2>2 DEF CoNewGrow, CoNewGrowFails, CoNewStore, NewObject
<1>9. SaveInv'
  BY <1>7, <1>8 DEF SaveInv
<1>10. CASE CoNewGrow(o, c)
  <2> DEFINE n == 2 * cap + 1
  <2>1. /\ cap' = n /\ nco' = nco + 1 /\ past' \in {Null, Junk}
        /\ slot' = [i \in 0..(n - 1) |->
                      CASE i < cap -> slot[i] [] i = cap -> o [] OTHER -> Null]
        /\ (o \in Handle => status'[o] = "READY")
    BY <1>3, <1>10 DEF CoNewGrow, NewObject
  <2>2. n \in Nat /\ cap < n
    BY <1>3
  <2>3. /\ \A i \in 0..(cap - 1) : slot'[i] = slot[i]
        /\ slot'[cap] = o
        /\ \A i \in (cap + 1)..(n - 1) : slot'[i] = Null
        /\ slot' \in [0..(n - 1) -> Handle \cup {Null}]
    BY <1>3, <1>4, <2>1, <2>2
  <2> HIDE DEF n
  <2>4. EnvType'
    <3>1. running' \in -1..(n - 1) /\ nco' \in Int
      BY <1>2, <1>3, <2>1, <2>2
    <3> QED
      BY <1>2, <2>1, <2>2, <2>3, <3>1 DEF EnvType, TypeOK
  <2>5. SlotInv'
    <3>1. \A i \in 0..(n - 1) : i \in 0..(cap - 1) \/ i = cap \/ i \in (cap + 1)..(n - 1)
      BY <1>3, <2>2
    <3>2. ASSUME NEW i \in 0..(n - 1), NEW j \in 0..(n - 1),
                 slot'[i] # Null, slot'[i] = slot'[j]
          PROVE  i = j
      BY <1>3, <1>4, <1>5, <2>3, <3>1, <3>2 DEF SlotInv
    <3>3. ASSUME NEW i \in 0..(n - 1), slot'[i] # Null
          PROVE  status'[slot'[i]] \in Live \cup {"STOPED"}
      BY <1>3, <1>4, <1>5, <1>7, <2>1, <2>3, <3>1, <3>3 DEF SlotInv, Live
    <3> QED
      BY <2>1, <3>2, <3>3 DEF SlotInv
  <2>6. RunInv'
    <3>1. running # -1 => slot'[running] = slot[running]
      BY <1>3, <2>3
    <3> QED
      BY <1>2, <1>3, <1>4, <1>5, <1>7, <2>1, <3>1 DEF RunInv, OneRunning
  <2>7. LoopInv'
    <3>1. pc = "join" => arg < n
      <4>1. arg \in Nat /\ (pc = "join" => arg < cap)
        BY DEF LoopInv, TypeOK, MainType
      <4> QED
        BY <1>3, <2>2, <4>1
    <3>2. pc = "wait" => flag
      BY <1>2 DEF LoopInv, CoNew, MainCanCall, MainIdle, CoRunning
    <3> QED
      BY <1>2, <2>1, <3>1, <3>2 DEF LoopInv
  <2> QED
    BY <1>6, <1>7, <1>8, <1>9, <2>4, <2>5, <2>6, <2>7 DEF TypeOK
<1>11. CASE CoNewGrowFails(o)
  <2>1. UNCHANGED <<cap, slot, past, nco>>
    BY <1>11 DEF CoNewGrowFails
  <2>2. EnvType'
    BY <1>2, <2>1 DEF TypeOK, EnvType
  <2>3. SlotInv'
    BY <1>3, <1>4, <1>5, <1>7, <2>1 DEF SlotInv
  <2>4. RunInv'
    BY <1>2, <1>3, <1>4, <1>5, <1>7, <2>1 DEF RunInv, OneRunning
  <2>5. LoopInv'
    BY <1>2, <2>1 DEF LoopInv
  <2> QED
    BY <1>6, <1>7, <1>8, <1>9, <2>2, <2>3, <2>4, <2>5 DEF TypeOK
<1>12. CASE CoNewStore(o, c)
  <2>1. /\ cap' = cap /\ nco' = nco + 1
        /\ (o \in Handle => status'[o] = "READY")
        /\ \/ past' = o /\ slot' = slot
           \/ /\ past' = past
              /\ \E p \in 0..(cap - 1) : slot[p] = Null /\ slot' = [slot EXCEPT ![p] = o]
    <3>1. PICK i \in 0..(cap - 1) :
            /\ ScanFinds(i)
            /\ IF Probe(i) = cap THEN past' = o /\ UNCHANGED slot
               ELSE slot' = [slot EXCEPT ![Probe(i)] = o] /\ UNCHANGED past
      BY <1>12 DEF CoNewStore
    <3>2. nco < cap /\ cap' = cap /\ nco' = nco + 1
      BY <1>12 DEF CoNewStore
    <3>3. o \in Handle => status'[o] = "READY"
      BY <1>3, <1>4, <1>12 DEF CoNewStore, NewObject
    <3>4. Probe(i) \in 0..cap
      BY <1>3 DEF Probe
    <3>5. Probe(i) # cap => slot[Probe(i)] = Null /\ Probe(i) \in 0..(cap - 1)
      BY <1>3, <3>1, <3>4 DEF ScanFinds, ScanStops, At
    <3> QED
      BY <3>1, <3>2, <3>3, <3>5
  <2>2. EnvType'
    <3>1. nco' \in Int
      BY <1>3, <2>1
    <3> QED
      BY <1>2, <1>3, <1>4, <2>1, <3>1 DEF TypeOK, EnvType
  <2>3. SlotInv'
    BY <1>3, <1>4, <1>5, <1>7, <2>1 DEF SlotInv, Live
  <2>4. RunInv'
    <3>1. running # -1 => slot'[running] = slot[running]
      BY <1>3, <2>1 DEF RunInv
    <3> QED
      BY <1>2, <1>3, <1>4, <1>5, <1>7, <2>1, <3>1 DEF RunInv, OneRunning
  <2>5. LoopInv'
    <3>1. pc = "wait" => flag
      BY <1>2 DEF LoopInv, CoNew, MainCanCall, MainIdle, CoRunning
    <3> QED
      BY <1>2, <2>1, <3>1 DEF LoopInv
  <2> QED
    BY <1>6, <1>7, <1>8, <1>9, <2>2, <2>3, <2>4, <2>5 DEF TypeOK
<1> QED
  BY <1>1, <1>10, <1>11, <1>12

\* Every step preserves the invariant.
LEMMA NextInv == IndInv /\ [Next]_vars => IndInv'
<1> SUFFICES ASSUME IndInv, [Next]_vars PROVE IndInv'
  OBVIOUS
<1>1. CASE UNCHANGED vars
  <2>1. TypeOK'
    BY <1>1 DEF vars, TypeOK, EnvType, ObjType, StackType, MainType
  <2>2. SlotInv' /\ SaveInv'
    BY <1>1 DEF vars, SlotInv, SaveInv
  <2>3. RunInv' /\ LoopInv' /\ NoDefaultAssert'
    BY <1>1 DEF vars, RunInv, OneRunning, LoopInv, NoDefaultAssert
  <2> QED
    BY <2>1, <2>2, <2>3
<1>2. CASE Next
  BY <1>1, <1>2, OpenCloseInv, DieInv, LoopStepInv, PushPopInv, FinishInv, SwapInv,
     ResumeInv, NewInv
     DEF Next, MainStep, YieldStep, CoCloseNull, Aborted
<1> QED
  BY <1>1, <1>2

\* The coroutine library keeps its data structures consistent: the invariant
\* holds in every state of every run.
THEOREM Invariance == Spec => []IndInv
  BY InitInv, NextInv, PTL DEF Spec

\* Every field of the environment, of the coroutine objects and of the saved
\* stacks keeps its type.
THEOREM TypeCorrect == Spec => []TypeOK
<1>1. IndInv => TypeOK
  OBVIOUS
<1> QED
  BY <1>1, Invariance, PTL

\* running_id and the status fields agree in every state: at most one
\* coroutine runs, and it is the one co_id() reports.
THEOREM RunningIsUnique == Spec => []OneRunning
<1>1. IndInv => OneRunning
  BY DEF RunInv
<1> QED
  BY <1>1, Invariance, PTL

\* The assert(0) in the default branch of co_resume is unreachable.
THEOREM DefaultUnreachable == Spec => []NoDefaultAssert
<1>1. IndInv => NoDefaultAssert
  OBVIOUS
<1> QED
  BY <1>1, Invariance, PTL

\* co_wait returns only when every slot of the array is empty.
THEOREM WaitIsComplete == Spec => WaitPost
<1>1. IndInv /\ [Next]_vars =>
        [pc = "wait" /\ pc' = "idle" => \A i \in 0..(cap - 1) : slot[i] = Null]_vars
  <2> SUFFICES ASSUME IndInv, Next, pc = "wait", pc' = "idle"
               PROVE  \A i \in 0..(cap - 1) : slot[i] = Null
    OBVIOUS
  <2>1. WaitAgain
    BY DEF Next, CoOpen, CoOpenFails, CoClose, CoCloseNull, CoCloseDangling, Die,
           CoNew, CoNewDies, CoNewAssert, CoResume, CoResumeDies, CoJoin, CoWait,
           MainStep, JoinStep, WaitStep, Push, Pop, YieldStep, CoSwap, Finish,
           Aborted, vars, mainVars
  <2>2. ~flag /\ arg >= cap
    BY <2>1 DEF WaitAgain
  <2> QED
    <3>1. \A i \in 0..(cap - 1) : i < arg => slot[i] = Null
      BY <2>2 DEF LoopInv
    <3>2. cap \in Nat /\ arg \in Nat
      BY DEF TypeOK, EnvType, MainType
    <3> QED
      BY <2>2, <3>1, <3>2
<1> QED
  BY <1>1, Invariance, PTL DEF Spec, WaitPost

\* co_join returns only when the coroutine has finished and its slot is empty,
\* unless the process dies.
THEOREM JoinIsComplete == Spec => JoinPost
<1>1. IndInv /\ [Next]_vars =>
        [pc = "join" /\ pc' = "idle" /\ abort' = "none" => slot'[arg] = Null]_vars
  <2> SUFFICES ASSUME IndInv, Next, pc = "join", pc' = "idle"
               PROVE  slot'[arg] = Null
    OBVIOUS
  <2>1. JoinStep
    BY DEF Next, CoOpen, CoOpenFails, CoClose, CoCloseNull, CoCloseDangling, Die,
           CoNew, CoNewDies, CoNewAssert, CoResume, CoResumeDies, CoJoin, CoWait,
           MainStep, WaitStep, WaitAgain, Push, Pop, YieldStep, CoSwap, Finish,
           Aborted, vars, mainVars
  <2>2. arg \in 0..(cap - 1) /\ env = "open"
    <3>1. arg \in Nat /\ cap \in Nat
      BY DEF TypeOK, EnvType, MainType
    <3>2. arg < cap /\ env = "open"
      BY DEF LoopInv
    <3> QED BY <3>1, <3>2
  <2>3. /\ running = -1 /\ abort = "none" /\ Resume(arg)
        /\ UNCHANGED <<envVars, nco, objVars>> /\ ~Resumable(arg)
    BY <2>1 DEF JoinStep
  <2> QED
    BY <2>2, <2>3, ResumeLemma
<1> QED
  BY <1>1, Invariance, PTL DEF Spec, JoinPost

\* Growing the array, reusing slots and reclaiming objects never move or
\* overwrite a coroutine that has not finished: its identifier keeps naming
\* it, unless that is cap, behind the array of co_new, and the array grows.
THEOREM IdsAreStable == Spec => IdStable
<1> DEFINE Kept == \A i \in 0..(cap - 1) :
              slot[i] # Null /\ env' = "open" /\ status'[slot[i]] # "leaked" =>
                \/ slot'[i] = slot[i]
                \/ status[slot[i]] = "STOPED" /\ slot'[i] = Null
<1> DEFINE Named == \A i \in 0..cap :
              At(i) \in Handle /\ env' = "open" /\ status'[At(i)] # "leaked" =>
                \/ At(i)' = At(i)
                \/ status[At(i)] = "STOPED" /\ At(i)' = Null
                \/ i = cap /\ cap' = 2 * cap + 1
<1>1. IndInv /\ [Next]_vars => [Kept]_vars
  <2> SUFFICES ASSUME IndInv, Next PROVE Kept
    OBVIOUS
  <2>1. /\ cap \in Nat /\ slot \in [0..(cap - 1) -> Handle \cup {Null}]
        /\ \A i \in 0..(cap - 1) : slot[i] # Null =>
             slot[i] \in Handle /\ status[slot[i]] \in Live \cup {"STOPED"}
    BY DEF TypeOK, EnvType, SlotInv
  <2>2. CASE slot' = slot
    BY <2>2
  <2>3. ASSUME NEW c \in OpenArgs, CoOpen(c) PROVE Kept
    <3>1. \A h \in Handle : status[h] # "free" => status'[h] = "leaked"
      BY <2>3 DEF CoOpen, Forget
    <3> QED BY <2>1, <3>1 DEF Live
  <2>4. CASE CoOpenFails \/ CoClose
    BY <2>4 DEF CoOpenFails, CoClose, NoEnv
  <2>5. ASSUME NEW o \in CoNewObjects, NEW c \in Alloc(0), CoNewGrow(o, c) PROVE Kept
    <3>1. \A i \in 0..(cap - 1) : slot'[i] = slot[i]
      BY <2>1, <2>5 DEF CoNewGrow
    <3> QED BY <3>1
  <2>6. ASSUME NEW o \in CoNewObjects, NEW c \in Alloc(0), CoNewStore(o, c) PROVE Kept
    <3>1. PICK n \in 0..(cap - 1) :
            /\ ScanFinds(n)
            /\ IF Probe(n) = cap THEN past' = o /\ UNCHANGED slot
               ELSE slot' = [slot EXCEPT ![Probe(n)] = o] /\ UNCHANGED past
      BY <2>6 DEF CoNewStore
    <3>2. Probe(n) # cap => slot[Probe(n)] = Null
      BY <3>1 DEF ScanFinds, ScanStops, At
    <3>3. \A i \in 0..(cap - 1) : slot[i] # Null => slot'[i] = slot[i]
      BY <2>1, <3>1, <3>2
    <3> QED BY <3>3
  <2>7. ASSUME NEW id \in 0..(cap - 1), Resume(id) PROVE Kept
    <3>1. CASE Reclaim(id)
      BY <2>1, <3>1 DEF Reclaim
    <3>2. CASE slot' = slot
      BY <3>2
    <3> QED BY <2>7, <3>1, <3>2 DEF Resume, Start, Continue, ResumeFaults, ResumeNone,
                                   ResumeAssert
  <2>8. (\E id \in -1..cap : CoResume(id)) \/ JoinStep \/ WaitStep => Kept
    <3>1. (\E id \in -1..cap : CoResume(id)) => Kept
      BY <2>7 DEF CoResume, InRange
    <3>2. JoinStep => Kept
      <4>1. JoinStep => arg \in 0..(cap - 1)
        BY <2>1 DEF JoinStep, LoopInv, TypeOK, MainType
      <4> QED BY <4>1, <2>7 DEF JoinStep
    <3>3. WaitStep => Kept
      <4>1. WaitStep => arg \in 0..(cap - 1)
        BY <2>1 DEF WaitStep, TypeOK, MainType
      <4> QED BY <4>1, <2>7 DEF WaitStep
    <3> QED BY <3>1, <3>2, <3>3
  <2>9. CASE CoNew
    <3>1. PICK o \in CoNewObjects, c \in Alloc(0) :
            CoNewGrow(o, c) \/ CoNewGrowFails(o) \/ CoNewStore(o, c)
      BY <2>9 DEF CoNew
    <3>2. CoNewGrowFails(o) => slot' = slot
      BY DEF CoNewGrowFails
    <3> HIDE DEF Kept
    <3> QED BY <2>2, <2>5, <2>6, <3>1, <3>2
  <2> HIDE DEF Kept
  <2> QED
    BY <2>2, <2>3, <2>4, <2>8, <2>9
       DEF Next, MainStep, YieldStep, CoCloseNull, CoCloseDangling, CoNewDies, CoNewAssert,
           CoResumeDies, Die, CoJoin, CoWait, WaitAgain, Push, Pop, CoSwap, Finish, Aborted,
           vars
<1>2. IndInv /\ [Next]_vars =>
        [ /\ past \in Handle /\ env' = "open" /\ status'[past] # "leaked" =>
               \/ past' = past /\ cap' = cap
               \/ cap' = 2 * cap + 1
          /\ env' = "open" => \/ cap' = cap \/ cap' = 2 * cap + 1
                              \/ \A h \in Handle : status[h] # "free" =>
                                   status'[h] = "leaked" ]_vars
  <2> SUFFICES ASSUME IndInv, Next, env' = "open"
               PROVE  \/ \A h \in Handle : status[h] # "free" => status'[h] = "leaked"
                      \/ cap' = cap /\ (past \in Handle => past' = past)
                      \/ cap' = 2 * cap + 1
    BY DEF IndInv, Inv, SlotInv
  <2>1. CASE UNCHANGED <<cap, past>>
    BY <2>1
  <2>2. ASSUME NEW c \in OpenArgs, CoOpen(c)
        PROVE  \A h \in Handle : status[h] # "free" => status'[h] = "leaked"
    BY <2>2 DEF CoOpen, Forget
  <2>3. CASE CoOpenFails \/ CoClose
    BY <2>3 DEF CoOpenFails, CoClose, NoEnv
  <2>4. CASE CoNew
    <3>1. PICK o \in CoNewObjects, c \in Alloc(0) :
            CoNewGrow(o, c) \/ CoNewGrowFails(o) \/ CoNewStore(o, c)
      BY <2>4 DEF CoNew
    <3>2. CASE CoNewGrow(o, c)
      BY <3>2 DEF CoNewGrow
    <3>3. CASE CoNewGrowFails(o)
      BY <3>3 DEF CoNewGrowFails
    <3>4. CASE CoNewStore(o, c)
      <4>1. PICK n \in 0..(cap - 1) :
              /\ ScanFinds(n)
              /\ IF Probe(n) = cap THEN past' = o /\ UNCHANGED slot
                 ELSE slot' = [slot EXCEPT ![Probe(n)] = o] /\ UNCHANGED past
        BY <3>4 DEF CoNewStore
      <4>2. Probe(n) = cap => past = Null
        BY <4>1 DEF ScanFinds, ScanStops, At
      <4>3. cap' = cap
        BY <3>4 DEF CoNewStore
      <4> QED BY <4>1, <4>2, <4>3, NullAssumption
    <3> QED BY <3>1, <3>2, <3>3, <3>4
  <2> QED
    BY <2>1, <2>2, <2>3, <2>4
       DEF Next, MainStep, YieldStep, CoCloseNull, CoCloseDangling, CoNewDies, CoNewAssert,
           CoResume, JoinStep, WaitStep, CoResumeDies, Die, CoJoin, CoWait, WaitAgain, Push,
           Pop, CoSwap, Finish, Aborted, vars, envVars
<1>3. IndInv /\ [Next]_vars => [Named]_vars
  <2> SUFFICES ASSUME IndInv, [Next]_vars, vars' # vars,
                      NEW i \in 0..cap, At(i) \in Handle, env' = "open",
                      status'[At(i)] # "leaked"
               PROVE  \/ At(i)' = At(i)
                      \/ status[At(i)] = "STOPED" /\ At(i)' = Null
                      \/ i = cap /\ cap' = 2 * cap + 1
    BY DEF Named
  <2>1. /\ cap \in Nat
        /\ past \in Handle => status[past] # "free"
        /\ i < cap /\ slot[i] # Null => status[slot[i]] # "free"
    BY DEF IndInv, Inv, TypeOK, EnvType, SlotInv, Live
  <2>2. status[At(i)] # "free"
    BY <2>1, NullAssumption DEF At
  <2>3. cap' = cap \/ cap' = 2 * cap + 1
    BY <1>2, <2>2
  <2>4. CASE i = cap
    <3>1. past \in Handle /\ status'[past] # "leaked"
      BY <2>4 DEF At
    <3>2. (cap' = cap /\ past' = past) \/ cap' = 2 * cap + 1
      BY <1>2, <3>1
    <3> QED BY <2>4, <3>2 DEF At
  <2>5. CASE i \in 0..(cap - 1)
    <3>1. At(i) = slot[i] /\ At(i)' = slot'[i]
      BY <2>1, <2>3, <2>5 DEF At
    <3> QED BY <1>1, <2>5, <3>1, NullAssumption
  <2> QED BY <2>1, <2>4, <2>5
<1> QED
  BY <1>3, Invariance, PTL DEF Spec, IdStable

-----------------------------------------------------------------------------
(***************************************************************************)
(* The number of coroutines, as long as memory does not run out.           *)
(***************************************************************************)

LiveSet == {h \in Handle : status[h] \in Live}
CountInv == nco = Cardinality(LiveSet)
AssertInv ==
  abort = "co_new assert" => \/ \E h \in InSlots : status[h] = "STOPED"
                             \/ slot[nco - 1] = Null /\ past # Null

\* Coroutine objects are finitely many.
LEMMA LiveFinite == IsFiniteSet(LiveSet) /\ Cardinality(LiveSet) \in Nat
<1>1. LiveSet \subseteq Handle
  BY DEF LiveSet
<1>2. IsFiniteSet(LiveSet)
  BY <1>1, HandleAssumption, FS_Subset
<1> QED BY <1>2, FS_CardinalityType

\* One operation that creates or ends a coroutine counts it.
LEMMA CountNew ==
  ASSUME IndInv, ~AllocMayFail, CountInv, CoNew
  PROVE CountInv'
<1>1. PICK o \in CoNewObjects, c \in Alloc(0) : CoNewGrow(o, c) \/ CoNewStore(o, c)
  BY DEF CoNew, CoNewGrowFails
<1>2. o \in Handle /\ status[o] = "free" /\ status \in [Handle -> Status]
  BY DEF CoNewObjects, TypeOK
<1>3. nco' = nco + 1 /\ status' = [status EXCEPT ![o] = "READY"]
  BY <1>1, <1>2 DEF CoNewGrow, CoNewStore, NewObject
<1>4. LiveSet' = LiveSet \cup {o} /\ o \notin LiveSet
  BY <1>2, <1>3 DEF LiveSet, Live
<1>5. Cardinality(LiveSet') = Cardinality(LiveSet) + 1
  BY <1>4, LiveFinite, FS_AddElement
<1> QED BY <1>3, <1>5 DEF CountInv

\* The end of _co_main.
LEMMA CountFinish ==
  ASSUME IndInv, CountInv, Finish
  PROVE CountInv'
<1>1. PICK h \in Handle : h = stack[1] /\ status[h] = "RUNNING"
  BY DEF Finish, RunInv, OneRunning, CoRunning
<1>2. nco' = nco - 1 /\ status' = [status EXCEPT ![h] = "STOPED"]
  BY <1>1 DEF Finish
<1>3. status \in [Handle -> Status]
  BY DEF TypeOK
<1>4. LiveSet' = LiveSet \ {h} /\ h \in LiveSet
  BY <1>1, <1>2, <1>3 DEF LiveSet, Live
<1>5. Cardinality(LiveSet') = Cardinality(LiveSet) - 1
  BY <1>4, LiveFinite, FS_RemoveElement
<1> QED BY <1>2, <1>5 DEF CountInv

\* co_resume and co_swap change who runs, not who lives.
LEMMA CountSwitch ==
  ASSUME IndInv, CountInv, nco' = nco,
         CoSwap \/ (abort = "none" /\ running = -1
                     /\ \E id \in 0..(cap - 1) : Resume(id))
  PROVE CountInv'
<1>1. /\ status \in [Handle -> Status] /\ cap \in Nat
      /\ slot \in [0..(cap - 1) -> Handle \cup {Null}]
  BY DEF TypeOK, EnvType
<1>2. CASE CoSwap
  <2>1. PICK h \in Handle : h = slot[running] /\ status[h] = "RUNNING"
    <3>1. slot[running] \in Handle
      BY <1>1, <1>2 DEF CoSwap, CoRunning, RunInv, TypeOK, EnvType
    <3> QED BY <1>2, <3>1 DEF CoSwap, CoRunning, RunInv, OneRunning
  <2>2. status' = [status EXCEPT ![h] = "SUSPEND"]
    BY <1>2, <2>1 DEF CoSwap
  <2>3. LiveSet' = LiveSet
    BY <1>1, <2>1, <2>2 DEF LiveSet, Live
  <2> QED BY <2>3 DEF CountInv
<1>3. ASSUME NEW id \in 0..(cap - 1), Resume(id) PROVE CountInv'
  <2>1. \/ status' = status
        \/ \E h \in Handle : \/ /\ status[h] \in {"READY", "SUSPEND"}
                                /\ status' = [status EXCEPT ![h] = "RUNNING"]
                             \/ /\ status[h] = "STOPED"
                                /\ status' = [status EXCEPT ![h] = "free"]
    BY <1>1, <1>3 DEF Resume, Start, Continue, ResumeFaults, Reclaim, ResumeNone, ResumeAssert
  <2>2. LiveSet' = LiveSet
    BY <1>1, <2>1 DEF LiveSet, Live
  <2> QED BY <2>2 DEF CountInv
<1> QED BY <1>2, <1>3

\* nco counts the coroutines that have not finished.
LEMMA CountStep ==
  ASSUME IndInv, ~AllocMayFail, CountInv, Next
  PROVE CountInv'
<1>1. CASE nco' = nco /\ status' = status
  <2>1. LiveSet' = LiveSet
    BY <1>1 DEF LiveSet
  <2> QED BY <1>1, <2>1 DEF CountInv
<1>2. ASSUME (\E c \in OpenArgs : CoOpen(c)) \/ CoClose PROVE CountInv'
  <2>1. nco' = 0 /\ \A h \in Handle : status'[h] \in {"free", "leaked"}
    BY <1>2 DEF CoOpen, CoClose, NoEnv, Forget
  <2>2. LiveSet' = {}
    BY <2>1 DEF LiveSet, Live
  <2>3. Cardinality(LiveSet') = 0
    BY <2>2, FS_EmptySet
  <2> QED BY <2>1, <2>3 DEF CountInv
<1>3. ~CoOpenFails
  BY DEF CoOpenFails
<1>4. cap \in Nat /\ arg \in Nat
  BY DEF TypeOK, EnvType, MainType
<1>5. ASSUME NEW id \in -1..cap, CoResume(id) PROVE CountInv'
  <2>1. /\ nco' = nco /\ abort = "none" /\ running = -1 /\ id \in 0..(cap - 1) /\ Resume(id)
    BY <1>5 DEF CoResume, MainCanCall, MainIdle, InRange
  <2> QED BY <2>1, CountSwitch
<1>6. CASE JoinStep \/ WaitStep
  <2>1. nco' = nco /\ abort = "none" /\ running = -1 /\ Resume(arg)
    BY <1>6 DEF JoinStep, WaitStep
  <2>2. arg < cap
    BY <1>6 DEF JoinStep, WaitStep, LoopInv
  <2>3. arg \in 0..(cap - 1)
    BY <1>4, <2>2
  <2> QED BY <2>1, <2>3, CountSwitch
<1>7. CASE CoSwap
  <2>1. nco' = nco
    BY <1>7 DEF CoSwap
  <2> QED BY <1>7, <2>1, CountSwitch
<1> QED
  BY <1>1, <1>2, <1>3, <1>5, <1>6, <1>7, CountNew, CountFinish
     DEF Next, MainStep, YieldStep, CoCloseNull, CoCloseDangling, CoNewDies, CoNewAssert,
         CoResumeDies, Die, CoJoin, CoWait, WaitAgain, Push, Pop, Aborted, vars

\* The probes of co_new's scan.
LEMMA ProbeIs ==
  ASSUME cap \in Nat, nco \in Nat, NEW i \in Nat
  PROVE /\ i + nco <= cap => Probe(i) = i + nco
        /\ (i + nco > cap /\ i + nco <= 2 * cap + 1) => Probe(i) = i + nco - cap - 1
<1>1. PICK n \in Nat : n = i + nco
  OBVIOUS
<1>2. PICK m \in Nat \ {0} : m = cap + 1
  OBVIOUS
<1>3. n < m => n % m = n
  OBVIOUS
<1>4. n >= m /\ n < 2 * m => n % m = n - m
  OBVIOUS
<1> QED BY <1>1, <1>2, <1>3, <1>4 DEF Probe

\* Why the scan of co_new can miss: a finished coroutine's slot, or the one slot
\* that is not probed.
LEMMA AssertReason ==
  ASSUME IndInv, CountInv, nco < cap, \A i \in 0..(cap - 1) : ~ScanStops(i)
  PROVE \/ \E h \in InSlots : status[h] = "STOPED"
        \/ slot[nco - 1] = Null /\ past # Null
<1>1. /\ cap \in Nat /\ nco \in Nat /\ slot \in [0..(cap - 1) -> Handle \cup {Null}]
  BY LiveFinite DEF CountInv, TypeOK, EnvType
<1>2. SUFFICES ASSUME \A h \in InSlots : status[h] # "STOPED"
               PROVE slot[nco - 1] = Null /\ past # Null
  OBVIOUS
<1>3. ASSUME NEW j \in 0..(cap - 1), j # nco - 1 PROVE slot[j] # Null
  <2>1. CASE j >= nco
    <3>1. PICK i \in 0..(cap - 1) : i = j - nco
      BY <1>1, <2>1
    <3>2. i \in Nat /\ i + nco = j /\ i + nco <= cap /\ j # cap
      BY <1>1, <3>1
    <3>3. Probe(i) = j
      BY <1>1, <3>2, ProbeIs
    <3> QED BY <3>2, <3>3 DEF ScanStops, At
  <2>2. CASE j < nco - 1
    <3>1. PICK i \in 0..(cap - 1) : i = j + cap + 1 - nco
      BY <1>1, <2>2
    <3>2. /\ i \in Nat /\ i + nco = j + cap + 1 /\ i + nco > cap /\ i + nco <= 2 * cap + 1
          /\ i + nco - cap - 1 = j /\ j # cap
      BY <1>1, <3>1
    <3>3. Probe(i) = j
      BY <1>1, <3>2, ProbeIs
    <3> QED BY <3>2, <3>3 DEF ScanStops, At
  <2> QED BY <1>1, <1>3, <2>1, <2>2
<1>4. ASSUME \A j \in 0..(cap - 1) : slot[j] # Null PROVE FALSE
  <2>1. \A j \in 0..(cap - 1) : slot[j] \in LiveSet
    <3>1. SUFFICES ASSUME NEW j \in 0..(cap - 1) PROVE slot[j] \in LiveSet
      OBVIOUS
    <3>2. slot[j] \in Handle /\ slot[j] \in InSlots
      BY <1>1, <1>4 DEF InSlots
    <3>3. status[slot[j]] \in Live
      BY <1>2, <1>4, <3>2 DEF SlotInv
    <3> QED BY <3>2, <3>3 DEF LiveSet
  <2>2. slot \in [0..(cap - 1) -> LiveSet]
    BY <1>1, <2>1
  <2>3. slot \in Injection(0..(cap - 1), LiveSet)
    <3>1. \A i, j \in 0..(cap - 1) : slot[i] = slot[j] => i = j
      BY <1>4 DEF SlotInv
    <3> QED BY <2>2, <3>1 DEF Injection, IsInjective
  <2>4. Cardinality(0..(cap - 1)) <= Cardinality(LiveSet)
    BY <2>3, LiveFinite, FS_Injection
  <2>5. Cardinality(0..(cap - 1)) = cap
    <3>1. 0 \in Int /\ cap - 1 \in Int /\ ~(0 > cap - 1)
      BY <1>1
    <3>2. Cardinality(0..(cap - 1)) = (cap - 1) - 0 + 1
      BY <3>1, FS_Interval
    <3> QED BY <1>1, <3>2
  <2> QED BY <1>1, <2>4, <2>5 DEF CountInv
<1>5. PICK j \in 0..(cap - 1) : slot[j] = Null
  BY <1>4
<1>6. j = nco - 1
  BY <1>3, <1>5
<1>7. past # Null
  <2>1. PICK i \in 0..(cap - 1) : i = cap - nco
    BY <1>1, <1>6
  <2>2. i \in Nat /\ i + nco = cap /\ i + nco <= cap
    BY <1>1, <2>1
  <2>3. Probe(i) = cap
    BY <1>1, <2>2, ProbeIs
  <2> QED BY <2>3 DEF ScanStops, At
<1> QED BY <1>5, <1>6, <1>7

\* Only the scan of co_new ends in its assertion, and then nothing changes.
LEMMA AssertStep ==
  ASSUME IndInv, CountInv, AssertInv, Next
  PROVE AssertInv'
<1>1. SUFFICES ASSUME abort' = "co_new assert" PROVE AssertInv'
  BY DEF AssertInv
<1>2. CoNewDies \/ UNCHANGED vars
  <2>1. (\E c \in OpenArgs : CoOpen(c)) \/ CoOpenFails \/ CoClose => FALSE
    BY <1>1 DEF CoOpen, CoOpenFails, CoClose, MainCanCall, MainIdle
  <2>2. CoNew => FALSE
    BY <1>1 DEF CoNew, MainCanCall, MainIdle, CoRunning, CoNewGrow, CoNewGrowFails, CoNewStore
  <2>3. ASSUME NEW id, Resume(id), abort = "none" PROVE FALSE
    BY <1>1, <2>3 DEF Resume, Start, Continue, ResumeFaults, Reclaim, ResumeNone, ResumeAssert
  <2>4. (\E id \in -1..cap : CoResume(id)) \/ JoinStep \/ WaitStep => FALSE
    BY <2>3 DEF CoResume, JoinStep, WaitStep, MainCanCall, MainIdle
  <2> QED
    BY <1>1, <2>1, <2>2, <2>4
       DEF Next, MainStep, YieldStep, CoCloseNull, CoCloseDangling, CoResumeDies, Die, CoJoin,
           CoWait, WaitAgain, Push, Pop, CoSwap, Finish, Aborted, MainCanCall, MainIdle,
           CoRunning
<1>3. CASE UNCHANGED vars
  BY <1>1, <1>3 DEF vars, AssertInv, InSlots
<1>4. CASE CoNewDies
  <2>1. /\ nco < cap /\ \A i \in 0..(cap - 1) : ~ScanStops(i)
        /\ UNCHANGED <<cap, nco, slot, past, status>>
    BY <1>4 DEF CoNewDies, CoNewAssert, Die, envVars
  <2>2. \/ \E h \in InSlots : status[h] = "STOPED"
        \/ slot[nco - 1] = Null /\ past # Null
    BY <2>1, AssertReason
  <2> QED BY <2>1, <2>2 DEF AssertInv, InSlots
<1> QED BY <1>2, <1>3, <1>4

\* As long as memory does not run out, nco is the number of coroutines that have
\* not finished, and co_new's assertion fails for the two reasons only.
THEOREM CoroutinesAreCounted == Spec => [](~AllocMayFail => NcoIsLive)
<1> DEFINE C == ~AllocMayFail => CountInv /\ AssertInv
<1>1. Init => C
  <2>1. SUFFICES ASSUME Init PROVE CountInv /\ AssertInv
    OBVIOUS
  <2>2. LiveSet = {} /\ nco = 0 /\ abort = "none"
    BY <2>1 DEF Init, LiveSet, Live
  <2> QED BY <2>2, FS_EmptySet DEF CountInv, AssertInv
<1>2. IndInv /\ C /\ [Next]_vars => C'
  <2>1. SUFFICES ASSUME IndInv, ~AllocMayFail, CountInv, AssertInv, [Next]_vars
                 PROVE CountInv' /\ AssertInv'
    OBVIOUS
  <2>2. CASE Next
    BY <2>1, <2>2, CountStep, AssertStep
  <2>3. CASE UNCHANGED vars
    BY <2>1, <2>3 DEF vars, CountInv, AssertInv, LiveSet, InSlots
  <2> QED BY <2>1, <2>2, <2>3
<1>3. C => (~AllocMayFail => NcoIsLive)
  BY DEF CountInv, AssertInv, LiveSet, NcoIsLive
<1> HIDE DEF C
<1> QED BY <1>1, <1>2, <1>3, Invariance, PTL DEF Spec

-----------------------------------------------------------------------------
(***************************************************************************)
(* The shared stack implements private stacks.                             *)
(***************************************************************************)

PSt == [h \in Handle |-> AbsState(h)]
PFr == [h \in Handle |-> AbsFrames(h)]

\* A buffer of some length is there, unless memory ran out.
BufInv == \A h \in Handle : buf[h] = Null => bcap[h] = 0 \/ AllocMayFail

\* A coroutine whose object and whose stack are left alone does not change.
LEMMA SameObject ==
  ASSUME NEW h \in Handle, status'[h] = status[h],
         status[h] = "SUSPEND" => buf'[h] = buf[h] /\ size'[h] = size[h],
         status[h] = "RUNNING" => UNCHANGED stackVars
  PROVE AbsState(h)' = AbsState(h) /\ AbsFrames(h)' = AbsFrames(h)
<1>1. AbsState(h)' = AbsState(h)
  <2>1. CASE status[h] = "SUSPEND"
    BY <2>1 DEF AbsState
  <2>2. CASE status[h] # "SUSPEND"
    BY <2>2 DEF AbsState
  <2> QED BY <2>1, <2>2
<1>2. AbsFrames(h)' = AbsFrames(h)
  <2>1. CASE status[h] = "SUSPEND"
    BY <2>1 DEF AbsFrames
  <2>2. CASE status[h] = "RUNNING"
    BY <2>2 DEF AbsFrames, stackVars
  <2>3. CASE status[h] \notin {"SUSPEND", "RUNNING"}
    BY <2>3 DEF AbsFrames
  <2> QED BY <2>1, <2>2, <2>3
<1> QED BY <1>1, <1>2

\* One object changes.
LEMMA OneObject ==
  ASSUME NEW h \in Handle,
         \A x \in Handle : x # h =>
           AbsState(x)' = AbsState(x) /\ AbsFrames(x)' = AbsFrames(x)
  PROVE /\ PSt' = [PSt EXCEPT ![h] = AbsState(h)']
        /\ PFr' = [PFr EXCEPT ![h] = AbsFrames(h)']
        /\ AbsFrames(h)' = AbsFrames(h) => PFr' = PFr
        /\ AbsState(h)' = AbsState(h) => PSt' = PSt
<1>1. PSt \in [Handle -> {AbsState(x) : x \in Handle}]
  BY DEF PSt
<1>2. PSt' = [PSt EXCEPT ![h] = AbsState(h)']
  BY DEF PSt
<1>3. PFr' = [PFr EXCEPT ![h] = AbsFrames(h)']
  BY DEF PFr
<1>4. AbsFrames(h)' = AbsFrames(h) => PFr' = PFr
  BY DEF PFr
<1>5. AbsState(h)' = AbsState(h) => PSt' = PSt
  BY DEF PSt
<1> QED BY <1>2, <1>3, <1>4, <1>5

\* Nothing changes.
LEMMA NoObject ==
  ASSUME \A x \in Handle : AbsState(x)' = AbsState(x) /\ AbsFrames(x)' = AbsFrames(x)
  PROVE PSt' = PSt /\ PFr' = PFr
BY DEF PSt, PFr

\* No coroutine runs while the main function does.
LEMMA MainRuns ==
  ASSUME IndInv, running = -1
  PROVE \A x \in Handle : status[x] # "RUNNING" /\ AbsState(x) # "running"
<1>1. \A x \in Handle : status[x] # "RUNNING" /\ status[x] \in Status
  BY DEF RunInv, OneRunning, TypeOK
<1> QED BY <1>1 DEF AbsState, Status, Live

\* What the objects look like.
StateFacts ==
  \A h \in Handle :
    /\ AbsState(h) \in Private!State
    /\ status[h] = "free" <=> AbsState(h) = "none"
    /\ status[h] = "leaked" <=> AbsState(h) = "gone"
    /\ status[h] = "READY" <=> AbsState(h) = "ready"
    /\ status[h] = "RUNNING" <=> AbsState(h) = "running"
    /\ status[h] = "STOPED" <=> AbsState(h) = "done"
    /\ (status[h] = "SUSPEND" /\ buf[h] # Null) <=> AbsState(h) = "suspended"
    /\ (status[h] = "SUSPEND" /\ buf[h] = Null) <=> AbsState(h) = "lost"
    /\ status[h] \notin {"RUNNING", "SUSPEND"} => AbsFrames(h) = <<>>
    /\ PSt[h] = AbsState(h) /\ PFr[h] = AbsFrames(h)

\* They look so in every state with the right types.
LEMMA StateIs == TypeOK => StateFacts
<1> SUFFICES ASSUME TypeOK, NEW h \in Handle
             PROVE /\ AbsState(h) \in Private!State
                   /\ status[h] = "free" <=> AbsState(h) = "none"
                   /\ status[h] = "leaked" <=> AbsState(h) = "gone"
                   /\ status[h] = "READY" <=> AbsState(h) = "ready"
                   /\ status[h] = "RUNNING" <=> AbsState(h) = "running"
                   /\ status[h] = "STOPED" <=> AbsState(h) = "done"
                   /\ (status[h] = "SUSPEND" /\ buf[h] # Null) <=> AbsState(h) = "suspended"
                   /\ (status[h] = "SUSPEND" /\ buf[h] = Null) <=> AbsState(h) = "lost"
                   /\ status[h] \notin {"RUNNING", "SUSPEND"} => AbsFrames(h) = <<>>
                   /\ PSt[h] = AbsState(h) /\ PFr[h] = AbsFrames(h)
  BY DEF StateFacts
<1>1. status[h] \in Status
  BY DEF TypeOK
<1>2. status[h] \notin {"RUNNING", "SUSPEND"} => AbsFrames(h) = <<>>
  BY DEF AbsFrames
<1>3. PSt[h] = AbsState(h) /\ PFr[h] = AbsFrames(h)
  BY DEF PSt, PFr
<1> QED BY <1>1, <1>2, <1>3 DEF AbsState, Status, Live, Private!State

\* Also in the next one.
LEMMA StateIsNext == TypeOK' => StateFacts'
BY StateIs, PTL

\* The steps of the private stacks, in terms of the mapping.
LEMMA PrivateSteps ==
  ASSUME NEW h \in Handle
  PROVE /\ PSt[h] = "none" /\ PSt' = [PSt EXCEPT ![h] = "ready"] /\ PFr' = PFr
           => Private!Next
        /\ /\ \A x \in Handle : PSt[x] # "running"
           /\ PSt[h] = "ready" /\ PSt' = [PSt EXCEPT ![h] = "running"]
           /\ PFr' = [PFr EXCEPT ![h] = <<h>>]
           => Private!Next
        /\ /\ \A x \in Handle : PSt[x] # "running"
           /\ PSt[h] = "suspended" /\ PSt' = [PSt EXCEPT ![h] = "running"] /\ PFr' = PFr
           => Private!Next
        /\ PSt[h] = "running" /\ PSt' = [PSt EXCEPT ![h] = "suspended"] /\ PFr' = PFr
           => Private!Next
        /\ /\ AllocMayFail /\ PSt[h] = "running" /\ PSt' = [PSt EXCEPT ![h] = "lost"]
           /\ PFr' = [PFr EXCEPT ![h] = <<>>]
           => Private!Next
        /\ /\ PSt[h] = "running" /\ PSt' = [PSt EXCEPT ![h] = "done"]
           /\ PFr[h] = <<h>> /\ PFr' = [PFr EXCEPT ![h] = <<>>]
           => Private!Next
<1>1. PSt[h] = "none" /\ PSt' = [PSt EXCEPT ![h] = "ready"] /\ PFr' = PFr => Private!Create(h)
  BY DEF PSt, PFr, Private!Create, Private!Move
<1>2. /\ \A x \in Handle : PSt[x] # "running"
      /\ PSt[h] = "ready" /\ PSt' = [PSt EXCEPT ![h] = "running"]
      /\ PFr' = [PFr EXCEPT ![h] = <<h>>]
      => Private!Start(h)
  BY DEF PSt, PFr, Private!Start, Private!Move, Private!NobodyRuns
<1>3. /\ \A x \in Handle : PSt[x] # "running"
      /\ PSt[h] = "suspended" /\ PSt' = [PSt EXCEPT ![h] = "running"] /\ PFr' = PFr
      => Private!Continue(h)
  BY DEF PSt, PFr, Private!Continue, Private!Move, Private!NobodyRuns
<1>4. PSt[h] = "running" /\ PSt' = [PSt EXCEPT ![h] = "suspended"] /\ PFr' = PFr
      => Private!Yield(h)
  BY DEF PSt, PFr, Private!Yield, Private!Move
<1>5. /\ AllocMayFail /\ PSt[h] = "running" /\ PSt' = [PSt EXCEPT ![h] = "lost"]
      /\ PFr' = [PFr EXCEPT ![h] = <<>>]
      => Private!YieldLost(h)
  BY DEF PSt, PFr, Private!YieldLost, Private!Move
<1>6. /\ PSt[h] = "running" /\ PSt' = [PSt EXCEPT ![h] = "done"]
      /\ PFr[h] = <<h>> /\ PFr' = [PFr EXCEPT ![h] = <<>>]
      => Private!Done(h)
  BY DEF PSt, PFr, Private!Done, Private!Move
<1> QED BY <1>1, <1>2, <1>3, <1>4, <1>5, <1>6 DEF Private!Next

\* The steps of the running coroutine on its own stack.
LEMMA PrivateFrames ==
  ASSUME NEW h \in Handle, PSt[h] = "running", PSt' = PSt
  PROVE /\ \A v \in Val : PFr' = [PFr EXCEPT ![h] = Append(PFr[h], v)] => Private!Next
        /\ Len(PFr[h]) > 1 /\ PFr' = [PFr EXCEPT ![h] = SubSeq(PFr[h], 1, Len(PFr[h]) - 1)]
           => Private!Next
<1>1. ASSUME NEW v \in Val, PFr' = [PFr EXCEPT ![h] = Append(PFr[h], v)]
      PROVE Private!Push(h, v)
  BY <1>1 DEF PSt, PFr, Private!Push
<1>2. Len(PFr[h]) > 1 /\ PFr' = [PFr EXCEPT ![h] = SubSeq(PFr[h], 1, Len(PFr[h]) - 1)]
      => Private!Pop(h)
  BY DEF PSt, PFr, Private!Pop
<1> QED BY <1>1, <1>2 DEF Private!Next

\* Objects that are freed or forgotten.
LEMMA PrivateDrop ==
  ASSUME TypeOK', StateFacts, StateFacts',
         \A x \in Handle : \/ /\ AbsState(x)' = AbsState(x)
                              /\ AbsFrames(x)' = AbsFrames(x)
                           \/ /\ status[x] \notin {"RUNNING", "leaked"}
                              /\ status'[x] \in {"free", "leaked"}
  PROVE Private!Next
<1>1. \A x \in Handle : /\ PSt'[x] = AbsState(x)' /\ PSt[x] = AbsState(x)
                        /\ PFr'[x] = AbsFrames(x)' /\ PFr[x] = AbsFrames(x)
  BY DEF StateFacts
<1>2. \A x \in Handle : PSt'[x] \in Private!State
  BY <1>1 DEF StateFacts
<1>3. PSt' \in [Handle -> Private!State]
  BY <1>2 DEF PSt
<1>4. \A x \in Handle : \/ PSt'[x] = PSt[x]
                        \/ /\ PSt[x] \notin {"running", "gone"}
                           /\ PSt'[x] \in {"none", "gone"}
  BY <1>1 DEF StateFacts
<1>5. \A x \in Handle : PFr'[x] = IF PSt'[x] = PSt[x] THEN PFr[x] ELSE <<>>
  <2>1. SUFFICES ASSUME NEW x \in Handle
                 PROVE PFr'[x] = IF PSt'[x] = PSt[x] THEN PFr[x] ELSE <<>>
    OBVIOUS
  <2>2. CASE status[x] \notin {"RUNNING", "leaked"} /\ status'[x] \in {"free", "leaked"}
    <3>1. PFr'[x] = <<>>
      BY <1>1, <2>2 DEF StateFacts
    <3>2. PSt'[x] = PSt[x] => status[x] = "free"
      BY <1>1, <2>2 DEF StateFacts
    <3>3. PSt'[x] = PSt[x] => PFr[x] = <<>>
      BY <1>1, <3>2 DEF StateFacts
    <3> QED BY <3>1, <3>3
  <2>3. CASE AbsState(x)' = AbsState(x) /\ AbsFrames(x)' = AbsFrames(x)
    BY <1>1, <2>3
  <2> QED BY <2>2, <2>3
<1>6. PFr' = [x \in Handle |-> IF PSt'[x] = PSt[x] THEN PFr[x] ELSE <<>>]
  BY <1>5 DEF PFr
<1>7. Private!Drop
  BY <1>3, <1>4, <1>6 DEF PSt, PFr, Private!Drop
<1> QED BY <1>7 DEF Private!Next

\* Every coroutine's part of the mapping is what it was.
SameAll == PSt' = PSt /\ PFr' = PFr

\* co_open and co_close drop every coroutine.
LEMMA OpenCloseMaps ==
  ASSUME IndInv, IndInv', StateFacts, StateFacts',
         (\E c \in OpenArgs : CoOpen(c)) \/ CoOpenFails \/ CoClose
  PROVE Private!Next
<1>1. running = -1
  BY DEF CoOpen, CoOpenFails, CoClose, MainCanCall, MainIdle
<1>2. \A x \in Handle :
        /\ status'[x] \in {"free", "leaked"}
        /\ status[x] = "leaked" => status'[x] = "leaked"
  <2>1. ASSUME NEW x \in Handle PROVE Forget(Handle)[x] = IF status[x] # "free"
                                                          THEN "leaked" ELSE status[x]
    BY DEF Forget
  <2>2. CASE CoClose
    <3>1. \A x \in InSlots : x \in Handle => status[x] # "leaked"
      BY DEF InSlots, SlotInv, Live
    <3> QED BY <2>1, <2>2, <3>1 DEF CoClose
  <2> QED BY <2>1, <2>2 DEF CoOpen, CoOpenFails
<1>3. TypeOK'
  OBVIOUS
<1>4. \A x \in Handle : \/ /\ AbsState(x)' = AbsState(x)
                           /\ AbsFrames(x)' = AbsFrames(x)
                        \/ /\ status[x] \notin {"RUNNING", "leaked"}
                           /\ status'[x] \in {"free", "leaked"}
  <2>1. SUFFICES ASSUME NEW x \in Handle, status[x] = "leaked"
                 PROVE AbsState(x)' = AbsState(x) /\ AbsFrames(x)' = AbsFrames(x)
    BY <1>1, <1>2, MainRuns
  <2>2. status'[x] = "leaked"
    BY <1>2, <2>1
  <2> QED BY <2>1, <2>2, SameObject
<1> QED BY <1>3, <1>4, PrivateDrop

\* co_new creates a coroutine, or nothing, or drops it at once.
LEMMA NewMaps ==
  ASSUME IndInv, IndInv', StateFacts, StateFacts', CoNew
  PROVE Private!Next \/ SameAll
<1>1. PICK o \in CoNewObjects, c \in Alloc(0) :
        CoNewGrow(o, c) \/ CoNewGrowFails(o) \/ CoNewStore(o, c)
  BY DEF CoNew
<1>2. UNCHANGED stackVars
  BY DEF CoNew
<1>3. o = Null \/ (o \in Handle /\ status[o] = "free")
  BY DEF CoNewObjects
<1>4. /\ status \in [Handle -> Status] /\ DOMAIN buf = Handle
      /\ size \in [Handle -> 0..StackSize]
  BY DEF TypeOK, ObjType
<1>5. \A x \in Handle : x # o =>
        status'[x] = status[x] /\ buf'[x] = buf[x] /\ size'[x] = size[x]
  BY <1>1, <1>3, <1>4 DEF CoNewGrow, CoNewGrowFails, CoNewStore, NewObject, objVars
<1>6. \A x \in Handle : x # o => AbsState(x)' = AbsState(x) /\ AbsFrames(x)' = AbsFrames(x)
  BY <1>2, <1>5, SameObject
<1>7. CASE o = Null
  <2>1. \A x \in Handle : AbsState(x)' = AbsState(x) /\ AbsFrames(x)' = AbsFrames(x)
    BY <1>6, <1>7
  <2> QED BY <2>1, NoObject DEF SameAll
<1>8. CASE o \in Handle /\ status[o] = "free" /\ status'[o] = "READY"
  <2>1. AbsState(o) = "none" /\ AbsState(o)' = "ready" /\ AbsFrames(o)' = AbsFrames(o)
    BY <1>8 DEF StateFacts
  <2>2. PSt' = [PSt EXCEPT ![o] = "ready"] /\ PFr' = PFr /\ PSt[o] = "none"
    BY <1>6, <1>8, <2>1, OneObject DEF StateFacts
  <2> QED BY <1>8, <2>2, PrivateSteps
<1>9. CASE o \in Handle /\ status[o] = "free" /\ status'[o] = "leaked"
  <2>1. TypeOK'
    OBVIOUS
  <2>2. \A x \in Handle : \/ /\ AbsState(x)' = AbsState(x)
                             /\ AbsFrames(x)' = AbsFrames(x)
                          \/ /\ status[x] \notin {"RUNNING", "leaked"}
                             /\ status'[x] \in {"free", "leaked"}
    BY <1>6, <1>9
  <2> QED BY <2>1, <2>2, PrivateDrop
<1> QED BY <1>1, <1>3, <1>4, <1>7, <1>8, <1>9
           DEF CoNewGrow, CoNewGrowFails, CoNewStore, NewObject

\* co_resume starts or continues a coroutine on its own stack, or frees it.
LEMMA ResumeMaps ==
  ASSUME IndInv, IndInv', StateFacts, StateFacts', running = -1,
         NEW id \in 0..(cap - 1), Resume(id), UNCHANGED objVars
  PROVE Private!Next \/ SameAll
<1>1. /\ status \in [Handle -> Status] /\ slot \in [0..(cap - 1) -> Handle \cup {Null}]
      /\ stack \in [1..StackSize -> Cell] /\ UNCHANGED <<ctx, size, bcap, buf>>
  BY DEF TypeOK, EnvType, StackType, objVars
<1>2. \A x \in Handle : status[x] # "RUNNING" /\ PSt[x] # "running"
  BY MainRuns DEF StateFacts
<1>3. \A x \in Handle : status'[x] = status[x] =>
        AbsState(x)' = AbsState(x) /\ AbsFrames(x)' = AbsFrames(x)
  BY <1>1, <1>2, SameObject
<1>4. CASE status' = status
  BY <1>3, <1>4, NoObject DEF SameAll
<1>5. CASE Start(id)
  <2>1. PICK h \in Handle : h = slot[id]
    BY <1>1, <1>5 DEF Start
  <2>2. /\ status[h] = "READY" /\ status' = [status EXCEPT ![h] = "RUNNING"]
        /\ stack' = [stack EXCEPT ![1] = h] /\ depth' = 1
    BY <1>5, <2>1 DEF Start, MakeCtx, SwapCtx
  <2>3. status'[h] = "RUNNING" /\ \A x \in Handle : x # h => status'[x] = status[x]
    BY <1>1, <2>2
  <2>4. AbsFrames(h)' = <<h>>
    <3>1. stack'[1] = h
      BY <1>1, <2>2
    <3>2. AbsFrames(h)' = [k \in 1..1 |-> stack'[k]]
      BY <2>2, <2>3 DEF AbsFrames
    <3>3. [k \in 1..1 |-> stack'[k]] = <<h>>
      BY <3>1
    <3> QED BY <3>2, <3>3
  <2>5. AbsState(h)' = "running" /\ PSt[h] = "ready"
    BY <2>2, <2>3 DEF StateFacts
  <2>6. PSt' = [PSt EXCEPT ![h] = "running"] /\ PFr' = [PFr EXCEPT ![h] = <<h>>]
    BY <1>3, <2>3, <2>4, <2>5, OneObject
  <2> QED BY <1>2, <2>5, <2>6, PrivateSteps
<1>6. CASE Continue(id)
  <2>1. PICK h \in Handle : h = slot[id]
    BY <1>1, <1>6 DEF Continue
  <2>2. /\ status[h] = "SUSPEND" /\ buf[h] # Null
        /\ status' = [status EXCEPT ![h] = "RUNNING"]
        /\ stack' = Restored(h) /\ depth' = ctx[h]
    BY <1>6, <2>1 DEF Continue, SwapCtx
  <2>3. status'[h] = "RUNNING" /\ \A x \in Handle : x # h => status'[x] = status[x]
    BY <1>1, <2>2
  <2>4. ctx[h] = size[h] /\ size[h] \in 0..StackSize
    BY <2>2 DEF SaveInv, TypeOK, ObjType
  <2>5. AbsFrames(h)' = AbsFrames(h)
    <3>1. AbsFrames(h)' = [k \in 1..size[h] |-> stack'[k]]
      BY <2>2, <2>3, <2>4 DEF AbsFrames
    <3>2. AbsFrames(h) = [k \in 1..size[h] |-> buf[h][size[h] + 1 - k]]
      BY <2>2 DEF AbsFrames
    <3>3. ASSUME NEW k \in 1..size[h] PROVE stack'[k] = buf[h][size[h] + 1 - k]
      <4>1. k \in 1..StackSize /\ k <= size[h]
        BY <2>4
      <4> QED BY <2>2, <4>1 DEF Restored
    <3> QED BY <3>1, <3>2, <3>3
  <2>6. AbsState(h)' = "running" /\ PSt[h] = "suspended"
    BY <2>2, <2>3 DEF StateFacts
  <2>7. PSt' = [PSt EXCEPT ![h] = "running"] /\ PFr' = PFr
    BY <1>3, <2>3, <2>5, <2>6, OneObject
  <2> QED BY <1>2, <2>6, <2>7, PrivateSteps
<1>7. CASE Reclaim(id)
  <2>1. PICK h \in Handle : h = slot[id]
    BY <1>1, <1>7 DEF Reclaim
  <2>2. status[h] = "STOPED" /\ status' = [status EXCEPT ![h] = "free"]
    BY <1>7, <2>1 DEF Reclaim
  <2>3. status'[h] = "free" /\ \A x \in Handle : x # h => status'[x] = status[x]
    BY <1>1, <2>2
  <2>4. TypeOK'
    OBVIOUS
  <2>5. \A x \in Handle : \/ /\ AbsState(x)' = AbsState(x)
                             /\ AbsFrames(x)' = AbsFrames(x)
                          \/ /\ status[x] \notin {"RUNNING", "leaked"}
                             /\ status'[x] \in {"free", "leaked"}
    BY <1>3, <2>2, <2>3
  <2> QED BY <2>4, <2>5, PrivateDrop
<1> QED BY <1>4, <1>5, <1>6, <1>7 DEF Resume, ResumeFaults, ResumeNone, ResumeAssert

\* The running coroutine and its frames.
LEMMA RunningIs ==
  ASSUME IndInv, StateFacts, CoRunning
  PROVE \E h \in Handle :
          /\ h = slot[running] /\ h = stack[1] /\ status[h] = "RUNNING" /\ PSt[h] = "running"
          /\ depth \in 1..StackSize /\ PFr[h] = [k \in 1..depth |-> stack[k]]
          /\ \A x \in Handle : x # h => status[x] # "RUNNING"
<1>1. /\ slot \in [0..(cap - 1) -> Handle \cup {Null}] /\ running \in 0..(cap - 1)
      /\ depth \in 0..StackSize
  BY DEF TypeOK, EnvType, StackType, CoRunning
<1>2. slot[running] # Null /\ depth >= 1 /\ stack[1] = slot[running]
  BY DEF RunInv, CoRunning
<1>3. PICK h \in Handle : h = slot[running]
  BY <1>1, <1>2
<1>4. status[h] = "RUNNING" /\ \A x \in Handle : x # h => status[x] # "RUNNING"
  BY <1>3 DEF RunInv, OneRunning, CoRunning
<1>5. PSt[h] = "running" /\ PFr[h] = AbsFrames(h)
  BY <1>4 DEF StateFacts
<1>6. AbsFrames(h) = [k \in 1..depth |-> stack[k]]
  BY <1>4 DEF AbsFrames
<1>7. depth \in 1..StackSize
  BY <1>1, <1>2
<1> QED BY <1>2, <1>3, <1>4, <1>5, <1>6, <1>7

\* The coroutine's calls and returns are those of its own stack.
LEMMA PushPopMaps ==
  ASSUME IndInv, StateFacts, (\E v \in Val : Push(v)) \/ Pop
  PROVE Private!Next
<1>1. CoRunning /\ UNCHANGED <<running, slot, status, ctx, size, bcap, buf>>
  BY DEF Push, Pop, objVars
<1>2. PICK h \in Handle :
          /\ h = slot[running] /\ h = stack[1] /\ status[h] = "RUNNING" /\ PSt[h] = "running"
          /\ depth \in 1..StackSize /\ PFr[h] = [k \in 1..depth |-> stack[k]]
          /\ \A x \in Handle : x # h => status[x] # "RUNNING"
  BY <1>1, RunningIs
<1>3. \A x \in Handle : x # h => AbsState(x)' = AbsState(x) /\ AbsFrames(x)' = AbsFrames(x)
  BY <1>1, <1>2, SameObject
<1>4. AbsState(h)' = AbsState(h)
  BY <1>1, <1>2 DEF AbsState
<1>5. PSt' = PSt /\ PFr' = [PFr EXCEPT ![h] = AbsFrames(h)']
  BY <1>3, <1>4, OneObject
<1>6. AbsFrames(h)' = [k \in 1..depth' |-> stack'[k]]
  BY <1>1, <1>2 DEF AbsFrames
<1>7. stack \in [1..StackSize -> Cell] /\ StackSize \in Nat
  BY DEF TypeOK, StackType
<1>8. PFr[h] \in Seq(Cell) /\ Len(PFr[h]) = depth
  <2>1. \A k \in 1..depth : k \in 1..StackSize /\ stack[k] \in Cell
    BY <1>2, <1>7
  <2>2. PFr[h] \in [1..depth -> Cell] /\ depth \in Nat
    BY <1>2, <2>1
  <2> QED BY <2>2
<1>9. ASSUME NEW v \in Val, Push(v) PROVE Private!Next
  <2>1. depth < StackSize /\ stack' = [stack EXCEPT ![depth + 1] = v] /\ depth' = depth + 1
    BY <1>9 DEF Push
  <2>2. AbsFrames(h)' = Append(PFr[h], v)
    <3>1. Append(PFr[h], v) = [k \in 1..(depth + 1) |-> IF k = depth + 1 THEN v ELSE PFr[h][k]]
      BY <1>8
    <3>2. ASSUME NEW k \in 1..(depth + 1)
          PROVE stack'[k] = IF k = depth + 1 THEN v ELSE PFr[h][k]
      <4>1. k \in 1..StackSize /\ (k # depth + 1 => k \in 1..depth)
        BY <1>2, <1>7, <2>1
      <4> QED BY <1>2, <1>7, <2>1, <4>1
    <3> QED BY <1>6, <2>1, <3>1, <3>2
  <2> QED BY <1>2, <1>5, <2>2, PrivateFrames
<1>10. CASE Pop
  <2>1. depth > 1 /\ stack' = stack /\ depth' = depth - 1
    BY <1>10 DEF Pop
  <2>2. AbsFrames(h)' = SubSeq(PFr[h], 1, Len(PFr[h]) - 1)
    <3>1. SubSeq(PFr[h], 1, depth - 1) = [k \in 1..(1 + (depth - 1) - 1) |-> PFr[h][1 + k - 1]]
      BY <1>2, <1>8, <2>1
    <3>2. 1 + (depth - 1) - 1 = depth - 1
      BY <1>2
    <3>3. ASSUME NEW k \in 1..(depth - 1) PROVE stack[k] = PFr[h][1 + k - 1]
      <4>1. 1 + k - 1 = k /\ k \in 1..depth
        BY <1>2
      <4> QED BY <1>2, <4>1
    <3>4. AbsFrames(h)' = [k \in 1..(depth - 1) |-> stack[k]]
      BY <1>6, <2>1
    <3> QED BY <1>8, <3>1, <3>2, <3>3, <3>4
  <2>3. Len(PFr[h]) > 1
    BY <1>8, <2>1
  <2> QED BY <1>2, <1>5, <2>2, <2>3, PrivateFrames
<1> QED BY <1>9, <1>10

\* The end of _co_main ends the coroutine that runs.
LEMMA FinishMaps ==
  ASSUME IndInv, IndInv', StateFacts, StateFacts', Finish
  PROVE Private!Next
<1>1. CoRunning /\ depth = 1 /\ UNCHANGED <<stack, depth, size, buf>>
  BY DEF Finish, objVars, stackVars
<1>2. PICK h \in Handle :
          /\ h = slot[running] /\ h = stack[1] /\ status[h] = "RUNNING" /\ PSt[h] = "running"
          /\ depth \in 1..StackSize /\ PFr[h] = [k \in 1..depth |-> stack[k]]
          /\ \A x \in Handle : x # h => status[x] # "RUNNING"
  BY <1>1, RunningIs
<1>3. status' = [status EXCEPT ![h] = "STOPED"] /\ status \in [Handle -> Status]
  BY <1>2 DEF Finish, TypeOK
<1>4. status'[h] = "STOPED" /\ \A x \in Handle : x # h => status'[x] = status[x]
  BY <1>3
<1>5. \A x \in Handle : x # h => AbsState(x)' = AbsState(x) /\ AbsFrames(x)' = AbsFrames(x)
  BY <1>1, <1>4, SameObject DEF stackVars
<1>6. PFr[h] = <<h>>
  <2>1. PFr[h] = [k \in 1..1 |-> stack[k]]
    BY <1>1, <1>2
  <2>2. [k \in 1..1 |-> stack[k]] = <<h>>
    BY <1>2
  <2> QED BY <2>1, <2>2
<1>7. AbsState(h)' = "done" /\ AbsFrames(h)' = <<>>
  BY <1>4 DEF StateFacts
<1>8. PSt' = [PSt EXCEPT ![h] = "done"] /\ PFr' = [PFr EXCEPT ![h] = <<>>]
  BY <1>5, <1>7, OneObject
<1> QED BY <1>2, <1>6, <1>8, PrivateSteps

\* co_swap saves the frames of the coroutine that runs, or loses them.
LEMMA SwapMaps ==
  ASSUME IndInv, IndInv', BufInv, StateFacts, StateFacts', CoSwap
  PROVE Private!Next
<1>1. CoRunning /\ UNCHANGED <<stack, depth>>
  BY DEF CoSwap, stackVars
<1>2. PICK h \in Handle :
          /\ h = slot[running] /\ h = stack[1] /\ status[h] = "RUNNING" /\ PSt[h] = "running"
          /\ depth \in 1..StackSize /\ PFr[h] = [k \in 1..depth |-> stack[k]]
          /\ \A x \in Handle : x # h => status[x] # "RUNNING"
  BY <1>1, RunningIs
<1>3. /\ status' = [status EXCEPT ![h] = "SUSPEND"] /\ size' = [size EXCEPT ![h] = depth]
      /\ SaveInNewBuffer(h) \/ SaveInOldBuffer(h)
  BY <1>2 DEF CoSwap, SaveStack
<1>4. /\ status \in [Handle -> Status] /\ size \in [Handle -> 0..StackSize]
      /\ DOMAIN buf = Handle /\ bcap \in [Handle -> 0..StackSize]
      /\ stack \in [1..StackSize -> Cell] /\ StackSize \in Nat
      /\ buf[h] \in [1..bcap[h] -> Cell] \cup {Null}
  BY DEF TypeOK, ObjType, StackType
<1>5. PICK b : buf' = [buf EXCEPT ![h] = b]
  BY <1>3 DEF SaveInNewBuffer, SaveInOldBuffer
<1>6. /\ status'[h] = "SUSPEND" /\ size'[h] = depth /\ buf'[h] = b
      /\ \A x \in Handle : x # h => /\ status'[x] = status[x] /\ size'[x] = size[x]
                                    /\ buf'[x] = buf[x]
  BY <1>3, <1>4, <1>5
<1>7. \A x \in Handle : x # h => AbsState(x)' = AbsState(x) /\ AbsFrames(x)' = AbsFrames(x)
  BY <1>2, <1>6, SameObject
<1>8. InUse \in [1..depth -> Cell] /\ \A j \in 1..depth : InUse[j] = stack[depth + 1 - j]
  <2>1. \A j \in 1..depth : depth + 1 - j \in 1..StackSize
    BY <1>2, <1>4
  <2> QED BY <1>4, <2>1 DEF InUse
<1>9. InUse # Null
  <2>1. Null \notin [1..depth -> Cell]
    BY <1>2, BufAssumption DEF Cell
  <2> QED BY <1>8, <2>1
<1>10. \/ AllocMayFail /\ b = Null
       \/ b # Null /\ \A j \in 1..depth : b[j] = InUse[j]
  <2>1. CASE SaveInNewBuffer(h)
    <3>1. b \in Alloc(InUse)
      BY <1>4, <1>6, <2>1 DEF SaveInNewBuffer
    <3> QED BY <1>9, <3>1 DEF Alloc
  <2>2. CASE SaveInOldBuffer(h)
    <3>1. bcap[h] >= depth /\ b = IF buf[h] = Null THEN Null ELSE Overwritten(h)
      BY <1>4, <1>6, <2>2 DEF SaveInOldBuffer
    <3>2. CASE buf[h] = Null
      <4>1. bcap[h] # 0
        BY <1>2, <1>4, <3>1
      <4>2. AllocMayFail
        BY <3>2, <4>1 DEF BufInv
      <4> QED BY <3>1, <3>2, <4>2
    <3>3. CASE buf[h] # Null
      <4>1. b = [j \in 1..bcap[h] |-> IF j <= depth THEN InUse[j] ELSE buf[h][j]]
        BY <3>1, <3>3 DEF Overwritten
      <4>2. bcap[h] \in Nat /\ bcap[h] \in 0..StackSize /\ depth \in Nat
        BY <1>2, <1>4
      <4>3. \A j \in 1..bcap[h] : (IF j <= depth THEN InUse[j] ELSE buf[h][j]) \in Cell
        <5>1. buf[h] \in [1..bcap[h] -> Cell]
          BY <1>4, <3>3
        <5>2. \A j \in 1..bcap[h] : j <= depth => j \in 1..depth
          BY <4>2
        <5> QED BY <1>8, <5>1, <5>2
      <4>4. b \in [1..bcap[h] -> Cell]
        BY <4>1, <4>3
      <4>5. b # Null
        BY <4>2, <4>4, BufAssumption DEF Cell
      <4>6. \A j \in 1..depth : j \in 1..bcap[h] /\ j <= depth
        BY <3>1, <4>2
      <4> QED BY <4>1, <4>5, <4>6
    <3> QED BY <3>2, <3>3
  <2> QED BY <1>3, <2>1, <2>2
<1>11. CASE AllocMayFail /\ b = Null
  <2>1. AbsState(h)' = "lost"
    BY <1>6, <1>11 DEF StateFacts
  <2>2. AbsFrames(h)' = <<>>
    BY <1>6, <1>11 DEF AbsFrames
  <2>3. PSt' = [PSt EXCEPT ![h] = "lost"] /\ PFr' = [PFr EXCEPT ![h] = <<>>]
    BY <1>7, <2>1, <2>2, OneObject
  <2> QED BY <1>2, <1>11, <2>3, PrivateSteps
<1>12. CASE b # Null /\ \A j \in 1..depth : b[j] = InUse[j]
  <2>1. AbsState(h)' = "suspended"
    BY <1>6, <1>12 DEF StateFacts
  <2>2. AbsFrames(h)' = AbsFrames(h)
    <3>1. AbsFrames(h)' = [k \in 1..depth |-> b[depth + 1 - k]]
      BY <1>6, <1>12 DEF AbsFrames
    <3>2. ASSUME NEW k \in 1..depth PROVE b[depth + 1 - k] = stack[k]
      <4>1. depth + 1 - k \in 1..depth /\ depth + 1 - (depth + 1 - k) = k
        BY <1>2
      <4>2. b[depth + 1 - k] = InUse[depth + 1 - k]
        BY <1>12, <4>1
      <4>3. InUse[depth + 1 - k] = stack[depth + 1 - (depth + 1 - k)]
        BY <1>8, <4>1
      <4> QED BY <4>1, <4>2, <4>3
    <3>3. AbsFrames(h) = [k \in 1..depth |-> stack[k]]
      BY <1>2 DEF StateFacts
    <3> QED BY <3>1, <3>2, <3>3
  <2>3. PSt' = [PSt EXCEPT ![h] = "suspended"] /\ PFr' = PFr
    BY <1>7, <2>1, <2>2, OneObject
  <2> QED BY <1>2, <2>3, PrivateSteps
<1> QED BY <1>10, <1>11, <1>12

\* Buffers are lost only when memory runs out.
LEMMA BufStep ==
  ASSUME IndInv, BufInv, [Next]_vars
  PROVE BufInv'
<1>1. CASE UNCHANGED <<bcap, buf>>
  BY <1>1 DEF BufInv
<1>2. DOMAIN buf = Handle /\ bcap \in [Handle -> 0..StackSize]
  BY DEF TypeOK, ObjType
<1>3. CASE CoNew
  <2>1. PICK o \in CoNewObjects, c \in Alloc(0) :
          CoNewGrow(o, c) \/ CoNewGrowFails(o) \/ CoNewStore(o, c)
    BY <1>3 DEF CoNew
  <2>2. \/ UNCHANGED <<bcap, buf>>
        \/ bcap' = [bcap EXCEPT ![o] = 0] /\ buf' = [buf EXCEPT ![o] = Null]
    BY <2>1 DEF CoNewGrow, CoNewGrowFails, CoNewStore, NewObject, objVars
  <2> QED BY <1>1, <1>2, <2>2 DEF BufInv
<1>4. CASE CoSwap
  <2>1. PICK h : h = slot[running]
    OBVIOUS
  <2>2. SaveInNewBuffer(h) \/ SaveInOldBuffer(h)
    BY <1>4, <2>1 DEF CoSwap, SaveStack
  <2>3. depth \in 0..StackSize /\ stack \in [1..StackSize -> Cell]
    BY DEF TypeOK, StackType
  <2>4. InUse # Null
    <3>1. \A j \in 1..depth : depth + 1 - j \in 1..StackSize
      BY <2>3
    <3>2. InUse \in [1..depth -> Cell]
      BY <2>3, <3>1 DEF InUse
    <3>3. Null \notin [1..depth -> Cell]
      BY <2>3, BufAssumption DEF Cell
    <3> QED BY <3>2, <3>3
  <2>5. CASE SaveInNewBuffer(h)
    <3>1. PICK b \in Alloc(InUse) : buf' = [buf EXCEPT ![h] = b]
      BY <2>5 DEF SaveInNewBuffer
    <3>2. b = Null => AllocMayFail
      BY <2>4 DEF Alloc
    <3>3. \A x \in Handle : x # h => bcap'[x] = bcap[x] /\ buf'[x] = buf[x]
      BY <1>2, <2>5, <3>1 DEF SaveInNewBuffer
    <3>4. h \in Handle => buf'[h] = b
      BY <1>2, <3>1
    <3> QED BY <3>2, <3>3, <3>4 DEF BufInv
  <2>6. CASE SaveInOldBuffer(h)
    <3>1. bcap' = bcap /\ \A x \in Handle : buf'[x] = Null => buf[x] = Null \/ x = h
      BY <1>2, <2>6 DEF SaveInOldBuffer
    <3>2. h \in Handle /\ buf'[h] = Null /\ buf[h] # Null => FALSE
      <4>1. SUFFICES ASSUME h \in Handle, buf'[h] = Null, buf[h] # Null PROVE FALSE
        OBVIOUS
      <4>2. Overwritten(h) = Null /\ bcap[h] >= depth
        BY <1>2, <2>6, <4>1 DEF SaveInOldBuffer
      <4>3. bcap[h] \in 0..StackSize /\ buf[h] \in [1..bcap[h] -> Cell]
        BY <4>1 DEF TypeOK, ObjType
      <4>4. \A j \in 1..depth : depth + 1 - j \in 1..StackSize
        BY <2>3
      <4>5. InUse \in [1..depth -> Cell]
        BY <2>3, <4>4 DEF InUse
      <4>6. \A j \in 1..bcap[h] : j <= depth => j \in 1..depth
        BY <2>3, <4>3
      <4>7. Overwritten(h) \in [1..bcap[h] -> Cell]
        BY <4>3, <4>5, <4>6 DEF Overwritten
      <4> QED BY <4>2, <4>3, <4>7, BufAssumption DEF Cell
    <3> QED BY <3>1, <3>2 DEF BufInv
  <2> QED BY <2>2, <2>5, <2>6
<1> QED
  BY <1>1, <1>3, <1>4
     DEF Next, MainStep, YieldStep, CoOpen, CoOpenFails, CoClose, CoCloseNull, CoCloseDangling,
         CoNewDies, CoNewAssert, CoResume, CoResumeDies, Die, CoJoin, JoinStep, CoWait, WaitStep,
         WaitAgain, Push, Pop, Finish, Aborted, objVars, vars

\* Every step of the library is one of the private stacks, or does not show.
LEMMA PrivateStep ==
  ASSUME IndInv, IndInv', BufInv, StateFacts, StateFacts', Next
  PROVE Private!Next \/ SameAll
<1>1. CASE UNCHANGED <<status, size, buf, stack, depth>>
  <2>1. \A x \in Handle : AbsState(x)' = AbsState(x) /\ AbsFrames(x)' = AbsFrames(x)
    BY <1>1, SameObject DEF stackVars
  <2> QED BY <2>1, NoObject DEF SameAll
<1>2. ASSUME NEW id \in -1..cap, CoResume(id) PROVE Private!Next \/ SameAll
  BY <1>2, ResumeMaps DEF CoResume, MainCanCall, MainIdle, InRange
<1>3. CASE JoinStep \/ WaitStep
  <2>1. arg \in Nat /\ cap \in Nat
    BY DEF TypeOK, EnvType, MainType
  <2>2. arg < cap /\ running = -1 /\ Resume(arg) /\ UNCHANGED objVars
    BY <1>3 DEF JoinStep, WaitStep, LoopInv
  <2>3. arg \in 0..(cap - 1)
    BY <2>1, <2>2
  <2> QED BY <2>2, <2>3, ResumeMaps
<1> QED
  BY <1>1, <1>2, <1>3, OpenCloseMaps, NewMaps, PushPopMaps, FinishMaps, SwapMaps
     DEF Next, MainStep, YieldStep, CoCloseNull, CoCloseDangling, CoNewDies, CoNewAssert,
         CoResumeDies, Die, CoJoin, CoWait, WaitAgain, Aborted, objVars, stackVars, vars

\* Copying the shared stack out and back gives every coroutine a stack of its
\* own, for any number of coroutines and any size of the stack.
THEOREM StacksArePrivate == Spec => PrivateSpec
<1>1. Init => Private!Init /\ BufInv
  <2>1. SUFFICES ASSUME Init PROVE Private!Init /\ BufInv
    OBVIOUS
  <2>2. StateFacts
    BY <2>1, InitInv, StateIs
  <2>3. \A h \in Handle : AbsState(h) = "none" /\ AbsFrames(h) = <<>>
    BY <2>1, <2>2 DEF Init, StateFacts
  <2>4. Private!Init
    BY <2>3 DEF Private!Init
  <2>5. BufInv
    BY <2>1 DEF Init, BufInv
  <2> QED BY <2>4, <2>5
<1>2. IndInv /\ BufInv /\ [Next]_vars => BufInv'
  BY BufStep
<1>3. IndInv /\ IndInv' /\ BufInv /\ [Next]_vars => [Private!Next]_(Private!privateVars)
  <2>1. SUFFICES ASSUME IndInv, IndInv', BufInv, [Next]_vars
                 PROVE Private!Next \/ SameAll
    BY DEF SameAll, PSt, PFr, Private!privateVars
  <2>2. StateFacts /\ StateFacts'
    BY <2>1, StateIs, StateIsNext
  <2>3. CASE Next
    BY <2>1, <2>2, <2>3, PrivateStep
  <2>4. CASE UNCHANGED vars
    <3>1. \A x \in Handle : AbsState(x)' = AbsState(x) /\ AbsFrames(x)' = AbsFrames(x)
      BY <2>4, SameObject DEF stackVars, vars
    <3> QED BY <3>1, NoObject DEF SameAll
  <2> QED BY <2>1, <2>3, <2>4
<1> QED BY <1>1, <1>2, <1>3, Invariance, PTL DEF Spec, PrivateSpec, Private!Spec
=============================================================================
