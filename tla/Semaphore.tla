----------------------------- MODULE Semaphore -----------------------------
(***************************************************************************)
(* The kernel's counting semaphore (kernel/semaphore.cc): an atomic count  *)
(* updated without a lock while it is non-negative, and a wait queue whose *)
(* lock is needed to make the count negative or to leave a negative count. *)
(* One action per atomic access of a thread.                               *)
(***************************************************************************)
EXTENDS Integers

CONSTANTS Threads,        \* threads that call Post and Wait
          NoThread,       \* the wait queue's lock is free
          InitialCount,   \* the constructor's argument
          MaxCalls        \* bound: calls of Post and Wait explored

ASSUME ThreadsAssumption == NoThread \notin Threads
ASSUME CountAssumption == InitialCount \in Nat /\ MaxCalls \in Nat

VARIABLES count,      \* count_
          waitq,      \* threads blocked in waitq_
          lock,       \* holder of waitq_'s lock
          pc,         \* where each thread is
          old,        \* each thread's old_count
          calls,      \* calls started
          posted,     \* history: Posts that took effect
          acquired    \* history: Waits that returned or will return ZX_OK

vars == <<count, waitq, lock, pc, old, calls, posted, acquired>>

\* The places at which a thread owns the wait queue's lock.
LockedPcs == {"post_add", "post_reset", "post_wake", "post_zero",
              "wait_release", "wait_block"}

Pcs == LockedPcs \cup {"idle", "post_cas", "post_lock", "wait_cas",
                       "wait_lock", "blocked"}

\* Type correctness, with the meaning of the program counters: a thread is
\* blocked exactly while it is on the wait queue, and the queue's lock has
\* the one owner whose program counter says so.
TypeOK ==
  /\ count \in Int
  /\ waitq \in SUBSET Threads
  /\ lock \in Threads \cup {NoThread}
  /\ pc \in [Threads -> Pcs]
  /\ old \in [Threads -> Int]
  /\ calls \in Nat
  /\ posted \in Nat
  /\ acquired \in Nat
  /\ \A t \in Threads : /\ pc[t] = "blocked" <=> t \in waitq
                        /\ pc[t] \in LockedPcs <=> lock = t

Init ==
  /\ count = InitialCount
  /\ waitq = {}
  /\ lock = NoThread
  /\ pc = [t \in Threads |-> "idle"]
  /\ old = [t \in Threads |-> 0]
  /\ calls = 0
  /\ posted = 0
  /\ acquired = 0

-----------------------------------------------------------------------------
(* Semaphore::Post *)

\* Load the count; a non-negative one is incremented by compare-exchange.
LoadForPost(t) ==
  /\ old' = [old EXCEPT ![t] = count]
  /\ pc' = [pc EXCEPT ![t] = IF count >= 0 THEN "post_cas" ELSE "post_lock"]

PostBegin(t) ==
  /\ pc[t] = "idle"
  /\ calls < MaxCalls
  /\ calls' = calls + 1
  /\ LoadForPost(t)
  /\ UNCHANGED <<count, waitq, lock, posted, acquired>>

PostCas(t) ==
  /\ pc[t] = "post_cas"
  /\ count = old[t]
  /\ count' = count + 1
  /\ posted' = posted + 1
  /\ pc' = [pc EXCEPT ![t] = "idle"]
  /\ UNCHANGED <<waitq, lock, old, calls, acquired>>

\* compare_exchange_weak failed and reloaded old_count.
PostCasFailed(t) ==
  /\ pc[t] = "post_cas"
  /\ count # old[t]
  /\ LoadForPost(t)
  /\ UNCHANGED <<count, waitq, lock, calls, posted, acquired>>

\* The slow path: take the queue's lock and look at the count again.
PostLocked(t) ==
  /\ pc[t] = "post_lock"
  /\ lock = NoThread
  /\ lock' = t
  /\ pc' = [pc EXCEPT ![t] = IF count >= 0 THEN "post_add"
                             ELSE IF waitq = {} THEN "post_reset"
                             ELSE "post_wake"]
  /\ UNCHANGED <<count, waitq, old, calls, posted, acquired>>

PostAdd(t) ==
  /\ pc[t] = "post_add"
  /\ count' = count + 1
  /\ posted' = posted + 1
  /\ lock' = NoThread
  /\ pc' = [pc EXCEPT ![t] = "idle"]
  /\ UNCHANGED <<waitq, old, calls, acquired>>

\* Mutant: the increment a plain Wait would undo, instead of forgetting the
\* waiters that gave up.
PostResetIncrements(t) ==
  /\ pc[t] = "post_reset"
  /\ count' = count + 1
  /\ posted' = posted + 1
  /\ lock' = NoThread
  /\ pc' = [pc EXCEPT ![t] = "idle"]
  /\ UNCHANGED <<waitq, old, calls, acquired>>

\* Negative count, empty queue: the waiters gave up, forget them.
PostReset(t) ==
  /\ pc[t] = "post_reset"
  /\ count' = 1
  /\ posted' = posted + 1
  /\ lock' = NoThread
  /\ pc' = [pc EXCEPT ![t] = "idle"]
  /\ UNCHANGED <<waitq, old, calls, acquired>>

\* Mutant: the count is reset although other threads are still queued.
PostWakeAlwaysZero(t) ==
  /\ pc[t] = "post_wake"
  /\ \E w \in waitq :
       /\ waitq' = waitq \ {w}
       /\ pc' = [pc EXCEPT ![w] = "idle", ![t] = "post_zero"]
  /\ posted' = posted + 1
  /\ acquired' = acquired + 1
  /\ UNCHANGED <<count, lock, old, calls>>

\* WakeOneLocked: the woken thread runs although the lock is still held.
PostWake(t) ==
  /\ pc[t] = "post_wake"
  /\ \E w \in waitq :
       /\ waitq' = waitq \ {w}
       /\ pc' = [pc EXCEPT ![w] = "idle",
                           ![t] = IF waitq = {w} THEN "post_zero" ELSE "idle"]
       /\ lock' = IF waitq = {w} THEN t ELSE NoThread
  /\ posted' = posted + 1
  /\ acquired' = acquired + 1
  /\ UNCHANGED <<count, old, calls>>

\* WakeOneLocked asked to back off: drop the locks and start again.
PostBackoff(t) ==
  /\ pc[t] = "post_wake"
  /\ lock' = NoThread
  /\ pc' = [pc EXCEPT ![t] = "post_lock"]
  /\ UNCHANGED <<count, waitq, old, calls, posted, acquired>>

\* The last waiter was woken: the count returns to zero.
PostZero(t) ==
  /\ pc[t] = "post_zero"
  /\ count' = 0
  /\ lock' = NoThread
  /\ pc' = [pc EXCEPT ![t] = "idle"]
  /\ UNCHANGED <<waitq, old, calls, posted, acquired>>

-----------------------------------------------------------------------------
(* Semaphore::Wait *)

LoadForWait(t) ==
  /\ old' = [old EXCEPT ![t] = count]
  /\ pc' = [pc EXCEPT ![t] = IF count > 0 THEN "wait_cas" ELSE "wait_lock"]

WaitBegin(t) ==
  /\ pc[t] = "idle"
  /\ calls < MaxCalls
  /\ calls' = calls + 1
  /\ LoadForWait(t)
  /\ UNCHANGED <<count, waitq, lock, posted, acquired>>

WaitCas(t) ==
  /\ pc[t] = "wait_cas"
  /\ count = old[t]
  /\ count' = count - 1
  /\ acquired' = acquired + 1
  /\ pc' = [pc EXCEPT ![t] = "idle"]
  /\ UNCHANGED <<waitq, lock, old, calls, posted>>

WaitCasFailed(t) ==
  /\ pc[t] = "wait_cas"
  /\ count # old[t]
  /\ LoadForWait(t)
  /\ UNCHANGED <<count, waitq, lock, calls, posted, acquired>>

\* Mutant: the undo the comment before Semaphore::Wait warns of is moved to
\* the decision to block, so that the count never becomes negative.
WaitLockedNoDecrement(t) ==
  /\ pc[t] = "wait_lock"
  /\ lock = NoThread
  /\ lock' = t
  /\ count' = IF count > 0 THEN count - 1 ELSE count
  /\ acquired' = IF count > 0 THEN acquired + 1 ELSE acquired
  /\ pc' = [pc EXCEPT ![t] = IF count > 0 THEN "wait_release" ELSE "wait_block"]
  /\ UNCHANGED <<waitq, old, calls, posted>>

\* fetch_sub under the queue's lock decides between returning and blocking.
WaitLocked(t) ==
  /\ pc[t] = "wait_lock"
  /\ lock = NoThread
  /\ lock' = t
  /\ count' = count - 1
  /\ acquired' = IF count > 0 THEN acquired + 1 ELSE acquired
  /\ pc' = [pc EXCEPT ![t] = IF count > 0 THEN "wait_release" ELSE "wait_block"]
  /\ UNCHANGED <<waitq, old, calls, posted>>

WaitRelease(t) ==
  /\ pc[t] = "wait_release"
  /\ lock' = NoThread
  /\ pc' = [pc EXCEPT ![t] = "idle"]
  /\ UNCHANGED <<count, waitq, old, calls, posted, acquired>>

WaitBlock(t) ==
  /\ pc[t] = "wait_block"
  /\ waitq' = waitq \cup {t}
  /\ lock' = NoThread
  /\ pc' = [pc EXCEPT ![t] = "blocked"]
  /\ UNCHANGED <<count, old, calls, posted, acquired>>

\* Deadline, suspend or kill: the thread leaves the queue, the count stays.
WaitFailed(t) ==
  /\ pc[t] = "blocked"
  /\ lock = NoThread
  /\ waitq' = waitq \ {t}
  /\ pc' = [pc EXCEPT ![t] = "idle"]
  /\ UNCHANGED <<count, lock, old, calls, posted, acquired>>

-----------------------------------------------------------------------------
Step(t) ==
  \/ PostBegin(t) \/ PostCas(t) \/ PostCasFailed(t) \/ PostLocked(t)
  \/ PostAdd(t) \/ PostReset(t) \/ PostWake(t) \/ PostBackoff(t) \/ PostZero(t)
  \/ WaitBegin(t) \/ WaitCas(t) \/ WaitCasFailed(t) \/ WaitLocked(t)
  \/ WaitRelease(t) \/ WaitBlock(t) \/ WaitFailed(t)

Next == \E t \in Threads : Step(t)

Spec == Init /\ [][Next]_vars

-----------------------------------------------------------------------------
(* Properties *)

\* Permits the semaphore holds: a negative count holds none.
Permits == IF count > 0 THEN count ELSE 0

\* semaphore.h: "Post ... unblocks a single thread if any are waiting".  A
\* thread is never left in the wait queue while the count says that a Wait
\* would not block, whatever mix of lock-free and locked Posts, Waits and
\* given-up Waits led here: no wakeup is lost.
NoLostWakeup == waitq # {} => count < 0

\* Every Post is worth exactly one successful Wait: none is lost when a
\* negative count is reset after timeouts (PostReset, PostZero) and none is
\* counted twice when a woken thread races with the Post that woke it.
PermitsConserved == InitialCount + posted = acquired + Permits

\* The semaphore implements the counting semaphore of CountingSemaphore.
Abstract == INSTANCE CountingSemaphore WITH value <- Permits, waiting <- waitq
Refinement == Abstract!AbsSpec

\* The bookkeeping of Post and Wait: who holds the queue's lock, and no permit
\* lost or made on any of their paths.
SemaphoreCounts == TypeOK /\ PermitsConserved
=============================================================================
