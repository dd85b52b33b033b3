------------------------------- MODULE Futex -------------------------------
(***************************************************************************)
(* Futexes of a process (object/futex_context.cc and .h) over owned wait   *)
(* queues (kernel/kernel/owned_wait_queue.cc): wait, wake, requeue, the    *)
(* pool of FutexStates with their counts of pending operations, and the    *)
(* owners, which inherit the priorities of those that wait.                *)
(*                                                                         *)
(* A FutexState's lock is held over the comparison of the value and until  *)
(* the queue's lock is held, and a waker holds both, so those are single   *)
(* steps; between them any other call may run.  The id of the futex a      *)
(* thread blocks on is written when the FutexState's lock is already free. *)
(* FutexStates are alike, so the free ones are only counted.  A page fault *)
(* in the comparison retries the step and is left out.                     *)
(***************************************************************************)
EXTENDS Integers, Sequences, FiniteSets, SequencesExt

CONSTANTS FxThreads,     \* threads of the process
          FxIds,         \* futexes
          FxNone,        \* no thread, no futex
          MaxFxOps,      \* bound: system calls
          MaxFxValue     \* bound: values of a futex

VARIABLES fxValue,       \* the user's integer
          fxRefs,        \* pending_operation_count_; 0 is not active
          fxFree,        \* length of free_futexes_
          fxQueue,       \* threads in waiters_
          fxOwner,       \* owner of waiters_
          fxQLock,       \* thread about to block that holds waiters_' lock
          fxBlocking,    \* blocking_futex_id_ of each thread
          fxCall,        \* the call each thread is in
          fxDead,        \* threads that exited
          fxOps

fxQueues == <<fxQueue, fxOwner>>
fxVars == <<fxValue, fxRefs, fxFree, fxQueues, fxQLock, fxBlocking, fxCall,
            fxDead, fxOps>>

\* A call: where it is, its futexes, the expected value, the proposed owner,
\* how many to wake and requeue, whether the woken thread becomes the owner,
\* and the references to give back at the end.
FxCall(pc, f) == [pc |-> pc, f |-> f, g |-> FxNone, value |-> 0, owner |-> FxNone,
                  wake |-> 0, requeue |-> 0, assign |-> FALSE, extra |-> 0]
FxIdle == FxCall("idle", FxNone)

FxLive == FxThreads \ fxDead

FutexTypeOK ==
  /\ fxValue \in [FxIds -> 0..MaxFxValue]
  /\ fxRefs \in [FxIds -> 0..(3 * Cardinality(FxThreads))]
  /\ fxFree \in 0..(2 * Cardinality(FxThreads))
  /\ \A f \in FxIds : ToSet(fxQueue[f]) \subseteq FxThreads
  /\ fxOwner \in [FxIds -> FxThreads \cup {FxNone}]
  /\ fxQLock \in [FxIds -> FxThreads \cup {FxNone}]
  /\ fxBlocking \in [FxThreads -> FxIds \cup {FxNone}]
  /\ \A t \in FxThreads : fxCall[t].pc \in
       {"idle", "wait", "block", "asleep", "error", "reset", "done",
        "wake", "requeue", "stored"}
  /\ fxDead \subseteq FxThreads
  /\ fxOps \in 0..MaxFxOps

FutexInit ==
  /\ fxValue = [f \in FxIds |-> 0]
  /\ fxRefs = [f \in FxIds |-> 0]
  /\ fxFree = 2 * Cardinality(FxThreads)     \* GrowFutexStatePool, by each
  /\ fxQueue = [f \in FxIds |-> <<>>]
  /\ fxOwner = [f \in FxIds |-> FxNone] /\ fxQLock = [f \in FxIds |-> FxNone]
  /\ fxBlocking = [t \in FxThreads |-> FxNone]
  /\ fxCall = [t \in FxThreads |-> FxIdle]
  /\ fxDead = {} /\ fxOps = 0
-----------------------------------------------------------------------------
\* ActivateFutexLocked of the futexes in fs: a reference to each, and a free
\* state for each that was not active.
ActivateFutex(fs) ==
  /\ fxRefs' = [f \in FxIds |-> IF f \in fs THEN fxRefs[f] + 1 ELSE fxRefs[f]]
  /\ fxFree' = fxFree - Cardinality({f \in fs : fxRefs[f] = 0})

\* PendingOpRef::Release of n[f] references to each f.
PendingOpRelease(n) ==
  /\ fxRefs' = [f \in FxIds |-> fxRefs[f] - n[f]]
  /\ fxFree' = fxFree + Cardinality({f \in FxIds : n[f] > 0 /\ fxRefs[f] = n[f]})

FxRefsSame == UNCHANGED <<fxRefs, fxFree>>

FxBegin(t) ==
  /\ fxCall[t].pc = "idle" /\ t \notin fxDead
  /\ fxOps < MaxFxOps /\ fxOps' = fxOps + 1

\* The queue a thread waits in, and the thread that owns it: the graph along
\* which priorities are inherited.
FxNext(owner, queue, t) ==
  LET fs == {f \in FxIds : t \in ToSet(queue[f])}
  IN  IF fs = {} THEN FxNone ELSE owner[CHOOSE f \in fs : TRUE]

\* The threads reached from t.
FxChain(owner, queue, t) ==
  LET reach[n \in 0..Cardinality(FxThreads)] ==
        IF n = 0 THEN {t}
        ELSE reach[n - 1] \cup
             ({FxNext(owner, queue, u) : u \in reach[n - 1]} \ {FxNone})
  IN  reach[Cardinality(FxThreads)]

\* Mutant: any living thread may become the owner, waiting or not.
FxAllowedAlive(o, f, owner, queue) ==
  IF o = FxNone \/ o \in fxDead THEN FxNone ELSE o

\* LockForOwnerReplacement and LockForRequeueOperation: the proposed owner o
\* of f is refused, and f gets none, if it is exiting or if its chain comes
\* to a thread that is, or is being put, into f.
FxAllowed(o, f, owner, queue) ==
  IF o = FxNone \/ o \in fxDead
     \/ FxChain([owner EXCEPT ![f] = FxNone], queue, o) \cap ToSet(queue[f]) # {}
  THEN FxNone ELSE o
-----------------------------------------------------------------------------
\* FutexWait: activate the futex.
FutexWait(t, f, o, v) ==
  /\ FxBegin(t)
  /\ ActivateFutex({f})
  /\ fxCall' = [fxCall EXCEPT ![t] =
       [FxCall("wait", f) EXCEPT !.owner = o, !.value = v]]
  /\ UNCHANGED <<fxValue, fxQueues, fxQLock, fxBlocking, fxDead>>

\* Mutant: the value of the futex is not compared.
FutexWaitCheckUncompared(t) ==
  /\ fxCall[t].pc = "wait" /\ fxQLock[fxCall[t].f] = FxNone
  /\ fxQLock' = [fxQLock EXCEPT ![fxCall[t].f] = t]
  /\ fxCall' = [fxCall EXCEPT ![t].pc = "block"]
  /\ FxRefsSame /\ UNCHANGED <<fxValue, fxQueues, fxBlocking, fxDead, fxOps>>

\* With the FutexState's lock: the value, then the owner, then the queue's
\* lock; the FutexState's is released.
FutexWaitCheck(t) ==
  LET c == fxCall[t]
      ok == /\ fxValue[c.f] = c.value
            /\ c.owner # t
            /\ c.owner # FxNone => fxBlocking[c.owner] # c.f
  IN  /\ c.pc = "wait"
      /\ IF ok THEN /\ fxQLock[c.f] = FxNone
                    /\ fxQLock' = [fxQLock EXCEPT ![c.f] = t]
               ELSE UNCHANGED fxQLock
      /\ fxCall' = [fxCall EXCEPT ![t] = IF ok THEN [c EXCEPT !.pc = "block"]
                                          ELSE FxCall("done", c.f)]
      /\ FxRefsSame /\ UNCHANGED <<fxValue, fxQueues, fxBlocking, fxDead, fxOps>>

\* BlockAndAssignOwnerLocked.  In vain, if the deadline has passed or the
\* thread was killed or suspended; the owner is assigned all the same.
FutexWaitBlock(t, vain) ==
  LET f == fxCall[t].f
      queue == [fxQueue EXCEPT ![f] = Append(@, t)]
  IN  /\ fxCall[t].pc = "block"
      /\ fxBlocking' = [fxBlocking EXCEPT ![t] = f]
      /\ fxOwner' = [fxOwner EXCEPT ![f] = FxAllowed(fxCall[t].owner, f, fxOwner, queue)]
      /\ fxQueue' = IF vain THEN fxQueue ELSE queue
      /\ fxCall' = [fxCall EXCEPT ![t] =
           IF vain THEN FxCall("error", f)
           ELSE [FxCall("asleep", f) EXCEPT !.value = fxCall[t].value]]
      /\ fxQLock' = [fxQLock EXCEPT ![f] = FxNone]
      /\ FxRefsSame /\ UNCHANGED <<fxValue, fxDead, fxOps>>

\* The deadline, a kill or a suspension take t out of the queue it is in.
FutexTimeout(t) ==
  /\ fxCall[t].pc = "asleep"
  /\ fxQLock[fxBlocking[t]] = FxNone
  /\ fxQueue' = [f \in FxIds |-> SelectSeq(fxQueue[f], LAMBDA u : u # t)]
  /\ fxCall' = [fxCall EXCEPT ![t] = FxCall("error", fxBlocking[t])]
  /\ FxRefsSame
  /\ UNCHANGED <<fxValue, fxOwner, fxQLock, fxBlocking, fxDead, fxOps>>

\* It looks up the futex it was in, which a requeue may have changed.
FutexWaitError(t) ==
  LET f == fxBlocking[t]
  IN  /\ fxCall[t].pc = "error"
      /\ fxRefs' = [fxRefs EXCEPT ![f] = @ + 1]
      /\ fxBlocking' = [fxBlocking EXCEPT ![t] = FxNone]
      /\ fxCall' = [fxCall EXCEPT ![t] = FxCall("reset", f)]
      /\ UNCHANGED <<fxValue, fxFree, fxQueues, fxQLock, fxDead, fxOps>>

FutexResetOwner(t) ==
  LET f == fxCall[t].f
  IN  /\ fxCall[t].pc = "reset" /\ fxQLock[f] = FxNone
      /\ fxOwner' = [fxOwner EXCEPT ![f] = IF fxQueue[f] = <<>> THEN FxNone ELSE @]
      /\ fxCall' = [fxCall EXCEPT ![t].pc = "done", ![t].extra = 1]
      /\ FxRefsSame
      /\ UNCHANGED <<fxValue, fxQueue, fxQLock, fxBlocking, fxDead, fxOps>>

\* Mutant: the references the call took over are not released.
FutexDoneOwnOnly(t) ==
  LET c == fxCall[t]
  IN  /\ c.pc = "done"
      /\ PendingOpRelease([f \in FxIds |-> IF f \in {c.f, c.g} THEN 1 ELSE 0])
      /\ fxCall' = [fxCall EXCEPT ![t] = FxIdle]
      /\ UNCHANGED <<fxValue, fxQueues, fxQLock, fxBlocking, fxDead, fxOps>>

\* The call returns and gives back its references.
FutexDone(t) ==
  LET c == fxCall[t]
  IN  /\ c.pc = "done"
      /\ PendingOpRelease([f \in FxIds |->
           (IF f = c.f THEN 1 + c.extra ELSE 0) + (IF f = c.g THEN 1 ELSE 0)])
      /\ fxCall' = [fxCall EXCEPT ![t] = FxIdle]
      /\ UNCHANGED <<fxValue, fxQueues, fxQLock, fxBlocking, fxDead, fxOps>>

\* WakeThreadsLocked: the threads w leave the queue of f and their calls
\* return; the owner goes, or is the one woken if others are left.
FxWoken(f, w, assign, queue, owner) ==
  /\ fxQueue' = [queue EXCEPT ![f] = SelectSeq(@, LAMBDA u : u \notin ToSet(w))]
  /\ fxOwner' = [owner EXCEPT ![f] =
       IF assign /\ w # <<>> /\ Len(queue[f]) > Len(w) THEN Head(w) ELSE FxNone]

FxFirst(s, n) == SubSeq(s, 1, IF n < Len(s) THEN n ELSE Len(s))

\* The user changes the value and goes on to wake everybody.
FutexStore(t, f) ==
  /\ FxBegin(t) /\ fxValue[f] < MaxFxValue
  /\ fxValue' = [fxValue EXCEPT ![f] = @ + 1]
  /\ fxCall' = [fxCall EXCEPT ![t] =
       [FxCall("stored", f) EXCEPT !.wake = Cardinality(FxThreads)]]
  /\ FxRefsSame /\ UNCHANGED <<fxQueues, fxQLock, fxBlocking, fxDead>>

\* FutexWake: nothing to do if the futex is not active.
FutexWakeFind(t, c) ==
  /\ fxCall' = [fxCall EXCEPT ![t] = IF fxRefs[c.f] = 0 THEN FxIdle
                                     ELSE [c EXCEPT !.pc = "wake"]]
  /\ fxRefs' = [fxRefs EXCEPT ![c.f] = IF @ = 0 THEN 0 ELSE @ + 1]
  /\ UNCHANGED <<fxValue, fxFree, fxQueues, fxQLock, fxBlocking, fxDead>>

FutexWake(t, f, assign) ==
  /\ FxBegin(t)
  /\ FutexWakeFind(t, [FxCall("wake", f) EXCEPT !.wake = 1, !.assign = assign])

FutexStoredWake(t) ==
  fxCall[t].pc = "stored" /\ FutexWakeFind(t, fxCall[t]) /\ UNCHANGED fxOps

FutexWakeThreads(t) ==
  LET c == fxCall[t]
      w == FxFirst(fxQueue[c.f], c.wake)
  IN  /\ c.pc = "wake" /\ fxQLock[c.f] = FxNone
      /\ FxWoken(c.f, w, c.assign, fxQueue, fxOwner)
      /\ fxBlocking' = [u \in FxThreads |-> IF u \in ToSet(w) THEN FxNone ELSE fxBlocking[u]]
      /\ fxCall' = [u \in FxThreads |->
           IF u = t THEN [FxCall("done", c.f) EXCEPT !.extra = Len(w)]
           ELSE IF u \in ToSet(w) THEN FxIdle ELSE fxCall[u]]
      /\ FxRefsSame /\ UNCHANGED <<fxValue, fxQLock, fxDead, fxOps>>

\* FutexRequeue: both futexes are activated,
FutexRequeue(t, f, g, o, n, assign) ==
  /\ FxBegin(t) /\ f # g
  /\ ActivateFutex({f, g})
  /\ fxCall' = [fxCall EXCEPT ![t] =
       [FxCall("requeue", f) EXCEPT !.g = g, !.owner = o, !.wake = n,
          !.requeue = 1, !.assign = assign, !.value = fxValue[f]]]
  /\ UNCHANGED <<fxValue, fxQueues, fxQLock, fxBlocking, fxDead>>

\* and, with both locks, the value and the owner are checked and the threads
\* woken and moved, their references with them.
FutexRequeueThreads(t) ==
  LET c == fxCall[t]
      ok == /\ fxValue[c.f] = c.value
            /\ c.owner # FxNone => fxBlocking[c.owner] \notin {c.f, c.g}
      w == FxFirst(fxQueue[c.f], c.wake)
      rest == SubSeq(fxQueue[c.f], Len(w) + 1, Len(fxQueue[c.f]))
      r == FxFirst(rest, c.requeue)
      queue == [fxQueue EXCEPT
                  ![c.f] = w \o SubSeq(rest, Len(r) + 1, Len(rest)), ![c.g] = @ \o r]
      free == [fxOwner EXCEPT ![c.f] = FxNone]
      o == FxAllowed(c.owner, c.g, free, queue)
      owner == [free EXCEPT ![c.g] = IF queue[c.g] = <<>> /\ o # @ THEN FxNone ELSE o]
  IN  /\ c.pc = "requeue"
      /\ ok => fxQLock[c.f] = FxNone /\ fxQLock[c.g] = FxNone
      /\ fxCall' = [u \in FxThreads |->
           IF u = t THEN [FxCall("done", c.f) EXCEPT !.g = c.g,
                                          !.extra = IF ok THEN Len(w) ELSE 0]
           ELSE IF ok /\ u \in ToSet(w) THEN FxIdle
           ELSE IF ok /\ u \in ToSet(r) THEN [fxCall[u] EXCEPT !.g = c.g]
           ELSE fxCall[u]]
      /\ IF ok
         THEN /\ FxWoken(c.f, w, c.assign, queue, owner)
              /\ fxBlocking' = [u \in FxThreads |->
                   IF u \in ToSet(w) THEN FxNone
                   ELSE IF u \in ToSet(r) THEN c.g ELSE fxBlocking[u]]
              /\ fxRefs' = [fxRefs EXCEPT ![c.f] = @ - Len(r), ![c.g] = @ + Len(r)]
         ELSE UNCHANGED <<fxQueues, fxBlocking, fxRefs>>
      /\ UNCHANGED <<fxValue, fxFree, fxQLock, fxDead, fxOps>>

\* A thread exits: it disowns its queues and takes two states with it
\* (ShrinkFutexStatePool).
FutexThreadExit(t) ==
  /\ fxCall[t].pc = "idle" /\ t \notin fxDead
  /\ fxDead' = fxDead \cup {t}
  /\ fxOwner' = [f \in FxIds |-> IF fxOwner[f] = t THEN FxNone ELSE fxOwner[f]]
  /\ fxFree' = fxFree - 2
  /\ UNCHANGED <<fxValue, fxRefs, fxQueue, fxQLock, fxBlocking, fxCall, fxOps>>
-----------------------------------------------------------------------------
FutexNext ==
  \E t \in FxThreads :
    \/ \E f \in FxIds :
         \/ \E o \in FxThreads \cup {FxNone} : FutexWait(t, f, o, fxValue[f])
         \/ FutexStore(t, f)
         \/ \E assign \in BOOLEAN : FutexWake(t, f, assign)
         \/ \E g \in FxIds, o \in FxThreads \cup {FxNone}, n \in 0..1 :
              FutexRequeue(t, f, g, o, n, n = 1)
    \/ FutexWaitCheck(t)
    \/ \E vain \in BOOLEAN : FutexWaitBlock(t, vain)
    \/ FutexTimeout(t) \/ FutexWaitError(t) \/ FutexResetOwner(t) \/ FutexDone(t)
    \/ FutexStoredWake(t) \/ FutexWakeThreads(t) \/ FutexRequeueThreads(t)
    \/ FutexThreadExit(t)

FutexSpec == FutexInit /\ [][FutexNext]_fxVars
-----------------------------------------------------------------------------
\* The references a thread holds on f: by its call, or by waiting there.
FxHeld(t, f) ==
  LET c == fxCall[t]
  IN  CASE c.pc \in {"wait", "block"} -> IF c.f = f THEN 1 ELSE 0
        [] c.pc \in {"asleep", "error"} -> IF fxBlocking[t] = f THEN 1 ELSE 0
        [] c.pc = "reset" -> IF c.f = f THEN 2 ELSE 0
        [] c.pc \in {"wake", "requeue", "done"} ->
             (IF c.f = f THEN 1 + c.extra ELSE 0) + (IF c.g = f THEN 1 ELSE 0)
        [] OTHER -> 0

\* Each pending operation counted in a FutexState is one a thread will give
\* back, although wakers give back for those they woke and requeues move
\* sleepers: a state is not freed under a thread, nor kept for ever, and a
\* thread that timed out finds the futex it was in.
FutexRefsExact ==
  \A f \in FxIds : fxRefs[f] = MapThenSumSet(LAMBDA t : FxHeld(t, f), FxThreads)

\* Two states for each thread are always enough, also while calls overlap and
\* threads exit: there is a free one whenever one is activated.
FutexPoolEnough ==
  fxFree + Cardinality({f \in FxIds : fxRefs[f] > 0}) = 2 * Cardinality(FxLive)

\* A state goes back to the pool without an owner and without waiters, also
\* when its last waiter timed out or its owner was given in vain.
FutexFreeUnowned ==
  \A f \in FxIds : fxRefs[f] = 0 => fxOwner[f] = FxNone /\ fxQueue[f] = <<>>

\* Priorities are never inherited in a circle, and not by a dead thread.
FutexNoCycle ==
  /\ \A f \in FxIds : \A t \in ToSet(fxQueue[f]) :
       fxOwner[f] # FxNone => t \notin FxChain(fxOwner, fxQueue, fxOwner[f])
  /\ \A f \in FxIds : fxOwner[f] \notin fxDead

\* A thread in a queue is the one its futex id says, and only there.
FutexWhereBlocked ==
  \A t \in FxThreads :
    {f \in FxIds : t \in ToSet(fxQueue[f])}
      = IF fxCall[t].pc = "asleep" THEN {fxBlocking[t]} ELSE {}

\* No wake is missed: a thread does not go on sleeping on a value that has
\* changed once the thread that changed it has woken the futex (a requeued
\* one, whose call's g is set, waits for something else).
FutexNoMissedWake ==
  \A t \in FxThreads :
    LET c == fxCall[t]
    IN  c.pc = "asleep" /\ c.g = FxNone /\ fxValue[c.f] # c.value
          => \E u \in FxThreads : /\ fxCall[u].pc \in {"stored", "wake"}
                                  /\ fxCall[u].f = c.f
                                  /\ fxCall[u].wake = Cardinality(FxThreads)

\* The states of a process's futexes are accounted for: those in use by who
\* uses them, the free ones without owner or waiters, and every sleeper in
\* the futex its id names.
FutexConsistent ==
  /\ FutexTypeOK /\ FutexRefsExact /\ FutexPoolEnough
  /\ FutexFreeUnowned /\ FutexWhereBlocked
=============================================================================
