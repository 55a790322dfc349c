-------------------------------- MODULE CTry --------------------------------
(***************************************************************************)
(* c_try_catch/ctry on Linux: exceptions for C by a global stack of jump   *)
(* buffers.  The library is three macros around sigsetjmp, a macro that    *)
(* throws, and a handler that turns SIGSEGV and SIGFPE into exceptions.    *)
(*                                                                         *)
(* The program is any that enters and leaves blocks, calls and returns,    *)
(* throws and faults.  A block is one execution of TRY.  The blocks whose  *)
(* body is being executed, innermost last, and the functions that are      *)
(* active are known to the compiler; the library knows its array and its   *)
(* depth.                                                                  *)
(***************************************************************************)
EXTENDS Integers, Sequences, SequencesExt

CONSTANTS Size,       \* elements of __global_jmp_buf__ (256)
          UIntMax,    \* the greatest unsigned int
          MaxBlocks,  \* bound: blocks entered
          MaxCalls,   \* bound: functions called
          Codes,      \* what is thrown
          Signals     \* SIGSEGV and SIGFPE

ASSUME SizeAssumption == /\ {Size, MaxBlocks, MaxCalls} \subseteq Nat
                         /\ UIntMax \in Nat /\ UIntMax > Size
                         /\ Codes \cap Signals = {}

Block == 1..MaxBlocks

VARIABLES
  depth,    \* __global_jmp_buf_depth___
  buf,      \* __global_jmp_buf__: the block whose sigsetjmp filled the element, the
            \* signal mask saved with it, and result
  entered,  \* what a sigsetjmp context stands for: for each block entered so
            \* far the functions and the blocks around it
  open,     \* the blocks being executed
  active,   \* the functions being executed
  calls,    \* functions called so far
  mask,     \* blocked signals
  caught,   \* the last exception that arrived: what was thrown, what CATCH reads
  strays,   \* a block was left by return, break or goto
  fate      \* "running", or how the behaviour of the program became undefined

vars == <<depth, buf, entered, open, active, calls, mask, caught, strays, fate>>

\* "overrun": TRY wrote behind the array; "wild": a jump through an element
\* outside the array; "dead frame": a jump into a function that has returned;
\* "killed": a fault while its signal was blocked.
Fates == {"running", "overrun", "wild", "dead frame", "killed"}

Unset == [block |-> 0, mask |-> {}, result |-> "none"]

TypeOK ==
  /\ depth \in 0..UIntMax
  /\ DOMAIN buf = 0..(Size - 1)
  /\ Len(entered) <= MaxBlocks
  /\ ToSet(open) \subseteq DOMAIN entered
  /\ ToSet(active) \subseteq 0..MaxCalls
  /\ mask \subseteq Signals
  /\ strays \in BOOLEAN
  /\ fate \in Fates

\* main has called init_try_catch.
Init ==
  /\ depth = 0 /\ buf = [i \in 0..(Size - 1) |-> Unset]
  /\ entered = <<>> /\ open = <<>>
  /\ active = <<0>> /\ calls = 0
  /\ mask = {} /\ caught = <<>> /\ strays = FALSE /\ fate = "running"

-----------------------------------------------------------------------------
(* The macros and the signal handler.                                      *)

Running == fate = "running"

\* Arithmetic of unsigned int.
Inc(n) == (n + 1) % (UIntMax + 1)
Dec(n) == (n - 1) % (UIntMax + 1)

\* TRY: sigsetjmp into the element at depth, which is not compared with the
\* size of the array.
Try ==
  LET b == Len(entered) + 1 IN
    /\ Running /\ b \in Block
    /\ entered' = Append(entered, [active |-> active, outer |-> open])
    /\ open' = Append(open, b)
    /\ depth' = Inc(depth)
    /\ IF depth < Size
         THEN /\ buf' = [buf EXCEPT ![depth] = [@ EXCEPT !.block = b, !.mask = mask]]
              /\ UNCHANGED fate
         ELSE /\ fate' = "overrun"
              /\ UNCHANGED buf
    /\ UNCHANGED <<active, calls, mask, caught, strays>>

\* The innermost block is one of the running function.
InBlock == open # <<>> /\ entered[Last(open)].active = active

\* Mutant: the macro does not take the depth back.
EndOfBodyKeepsDepth ==
  /\ Running /\ InBlock
  /\ open' = Front(open)
  /\ UNCHANGED <<depth, buf, entered, active, calls, mask, caught, strays, fate>>

\* The end of the body, at CATCH or EXCEPT.
EndOfBody ==
  /\ Running /\ InBlock
  /\ open' = Front(open)
  /\ depth' = Dec(depth)
  /\ UNCHANGED <<buf, entered, active, calls, mask, caught, strays, fate>>

\* The signal mask after siglongjmp through the element at i when m is blocked:
\* sigsetjmp was called with savesigs = 1.
Restored(i, m) == buf[i].mask

\* THROW(x), and sig for x = SIGSEGV or SIGFPE: result is stored and siglongjmp
\* called with the element below depth.  Control is then in the else branch of the
\* TRY that filled the element, with the signal mask saved there.  CATCH
\* compares its own code with the result at depth: its handler runs, or nothing
\* does, and either way execution goes on behind the block.
Raise(x, m) ==
  LET i == Dec(depth)
      b == entered[buf[i].block] IN
    /\ depth' = i
    /\ IF i < Size
         THEN /\ buf' = [buf EXCEPT ![i].result = x]
              /\ IF IsPrefix(b.active, active)
                   THEN /\ open' = b.outer
                        /\ active' = b.active
                        /\ mask' = Restored(i, m)
                        /\ caught' = [thrown |-> x, read |-> buf'[depth'].result]
                        /\ UNCHANGED fate
                   ELSE /\ fate' = "dead frame"
                        /\ UNCHANGED <<open, active, mask, caught>>
         ELSE /\ fate' = "wild"
              /\ UNCHANGED <<buf, open, active, mask, caught>>

Throw(x) ==
  /\ Running
  /\ Raise(x, mask)
  /\ UNCHANGED <<entered, calls, strays>>

\* A fault.  The kernel blocks the signal while its handler runs, and ends
\* the process if it is blocked already.
Fault(s) ==
  /\ Running
  /\ IF s \notin mask
       THEN Raise(s, mask \cup {s})
       ELSE fate' = "killed" /\ UNCHANGED <<depth, buf, open, active, mask, caught>>
  /\ UNCHANGED <<entered, calls, strays>>

-----------------------------------------------------------------------------
(* What else a program does.                                               *)

CallFunction ==
  /\ Running /\ calls < MaxCalls
  /\ calls' = calls + 1
  /\ active' = Append(active, calls + 1)
  /\ UNCHANGED <<depth, buf, entered, open, mask, caught, strays, fate>>

\* return, from within the body of a block or not.  The blocks of the function
\* are over and nothing tells the library.
ReturnFunction ==
  /\ Running /\ Len(active) > 1
  /\ active' = Front(active)
  /\ \E n \in 0..Len(open) :
       /\ \A k \in (n + 1)..Len(open) : entered[open[k]].active = active
       /\ n > 0 => entered[open[n]].active # active
       /\ open' = SubSeq(open, 1, n)
  /\ strays' = (strays \/ open' # open)
  /\ UNCHANGED <<depth, buf, entered, calls, mask, caught, fate>>

\* break or goto out of the body.
BreakOut ==
  /\ Running /\ InBlock
  /\ open' = Front(open)
  /\ strays' = TRUE
  /\ UNCHANGED <<depth, buf, entered, active, calls, mask, caught, fate>>

Next ==
  \/ Try \/ EndOfBody
  \/ \E x \in Codes : Throw(x)
  \/ \E s \in Signals : Fault(s)
  \/ CallFunction \/ ReturnFunction \/ BreakOut

Spec == Init /\ [][Next]_vars

-----------------------------------------------------------------------------
(* Properties.                                                             *)

\* except.h against nested handlers.  As long as every block ends at its CATCH
\* or EXCEPT or by an exception, the array holds exactly the blocks being
\* executed, so that an exception always arrives in the innermost; a jump is
\* wild only if no block is open, and TRY overruns the array only if all of it
\* is in use.  Even after a block was left by return, break or goto, every
\* block being executed still has an element below depth.  CATCH reads what was
\* thrown, and a second fault is caught like the first.
HandlersNested ==
  /\ TypeOK
  /\ ~strays =>
       /\ Running => depth = Len(open)
       /\ \A k \in 1..Len(open) : k <= Size => buf[k - 1].block = open[k]
       /\ fate = "wild" => open = <<>>
       /\ fate = "overrun" => Len(open) > Size
       /\ fate # "dead frame"
  /\ Running => \A k \in DOMAIN open :
                  \E i \in 0..(depth - 1) : buf[i].block = open[k]
  /\ caught # <<>> => caught.read = caught.thrown
  /\ fate # "killed"
=============================================================================
