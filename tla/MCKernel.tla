------------------------------ MODULE MCKernel ------------------------------
(* Instances of the kernel's primitives for TLC.  They do not interact, so  *)
(* each behaviour is one of `part`, the rest staying as it was initially.   *)
EXTENDS Semaphore, Mutex, BrwLock, Futex, Dpc, TimerQueue, TLC

CONSTANT Hi               \* the thread of high priority

VARIABLE part

MCPriority == [t \in BrThreads |-> IF t = Hi THEN 1 ELSE 0]

\* Deadlines of each mode, near enough to coalesce, one with a slack that
\* reaches past both ends of time.
MCDeadlines == {<<0, 0, "LATE">>, <<3, 1, "EARLY">>, <<2, 3, "CENTER">>}

KernelInit ==
  /\ part \in {"semaphore", "mutex", "brwlock", "futex", "dpc", "timers"}
  /\ Init /\ MutexInit /\ BrwInit /\ FutexInit /\ DpcInit /\ TqInit

KernelNext ==
  /\ \/ /\ part = "semaphore" /\ Next
        /\ UNCHANGED <<mxVars, brVars, fxVars, dpcVars, tqVars>>
     \/ /\ part = "mutex" /\ MutexNext
        /\ UNCHANGED <<vars, brVars, fxVars, dpcVars, tqVars>>
     \/ /\ part = "brwlock" /\ BrwNext
        /\ UNCHANGED <<vars, mxVars, fxVars, dpcVars, tqVars>>
     \/ /\ part = "futex" /\ FutexNext
        /\ UNCHANGED <<vars, mxVars, brVars, dpcVars, tqVars>>
     \/ /\ part = "dpc" /\ DpcNext
        /\ UNCHANGED <<vars, mxVars, brVars, fxVars, tqVars>>
     \/ /\ part = "timers" /\ TqNext
        /\ UNCHANGED <<vars, mxVars, brVars, fxVars, dpcVars>>
  /\ UNCHANGED part

\* The threads of the semaphore, the mutex and the futexes and the timers are
\* the same values.
Symmetry == Permutations(FxThreads)
=============================================================================
