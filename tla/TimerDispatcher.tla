-------------------------- MODULE TimerDispatcher --------------------------
(***************************************************************************)
(* TimerDispatcher (object/timer_dispatcher.cc): Set, Cancel and the last  *)
(* handle's close, racing with the expiry of its Timer in interrupt        *)
(* context and with the DPC the expiry queues.  Of Timer (kernel/timer.cc) *)
(* the module keeps whether it is on a CPU's queue, which CPU runs its     *)
(* callback, and that Cancel removes it under the timer lock and then      *)
(* waits for the callback; TimerQueue.tla has the queues.  The other       *)
(* timers of a queue may draw its expiry to any time its slack allows.     *)
(* The DPC is                                                              *)
(* on the list of the CPU whose interrupt queued it, and its worker, which *)
(* cannot leave that CPU, does not run during the interrupt (Dpc.tla).     *)
(***************************************************************************)
EXTENDS Integers, FiniteSets

CONSTANTS TmCpus, TmCallers,   \* CPUs; threads that use the timer
          TmOptions,           \* options_: which way the slack extends
          MaxTmOps, MaxTmTime, \* bounds: calls made, deadlines
          MaxTmSlack           \* bound: the slack of a deadline

ASSUME TmAssumption ==
  /\ IsFiniteSet(TmCpus) /\ IsFiniteSet(TmCallers)
  /\ TmCpus \cap TmCallers = {} /\ "none" \notin TmCpus \cup TmCallers
  /\ TmOptions \in {"center", "early", "late"}
  /\ MaxTmOps \in Nat /\ MaxTmTime \in Nat \ {0} /\ MaxTmSlack \in Nat

VARIABLES tmSignaled,     \* ZX_TIMER_SIGNALED
          tmDeadline,     \* deadline_; 0 is none
          tmSlack,        \* slack_amount_
          cancelPending,  \* cancel_pending_
          tmLock,         \* holder of the dispatcher's lock, or "none"
          tmQueue, tmScheduled,   \* the queue timer_ is on; when it is due
          tmActive,       \* <<CPU, "fire" or "done">> in the callback, or NotActive
          tmDpc,          \* the CPU whose DPC list timer_dpc_ is on, or "none"
          tmHandle, tmRefs, tmDeleted,
          tmPc,           \* place of each caller and of each CPU's DPC worker
          tmCall,         \* what each caller asked for
          tmHit,          \* result of the Cancel in progress
          tmNow, tmOps,   \* the clock; calls so far
          tmWant,         \* history: last deadline set, or -1
          tmMay           \* history: the first time its slack allows

tmHw == <<tmQueue, tmScheduled, tmActive, tmDpc>>
tmObj == <<tmHandle, tmRefs, tmDeleted>>
tmRest == <<tmCall, tmNow, tmOps>>
tmVars == <<tmSignaled, tmDeadline, tmSlack, cancelPending, tmLock, tmHw, tmObj,
            tmPc, tmHit, tmRest, tmWant, tmMay>>

NotActive == <<"none", "done">>
TmThreads == TmCallers \cup TmCpus
TmPcs == {"idle", "lock", "wait", "canceled", "missed", "rewait", "arm", "release"}
NoCall == <<"cancel", 0, 0>>
TmCalls == {<<"cancel", 0, 0>>, <<"close", 0, 0>>}
             \cup ({"set"} \X (1..MaxTmTime) \X (0..MaxTmSlack))

\* Deadline::earliest and Deadline::latest.
Earliest(d, slack) == IF TmOptions = "late" THEN d ELSE d - slack
Latest(d, slack) == IF TmOptions = "early" THEN d ELSE d + slack

TimerTypeOK ==
  /\ tmSignaled \in BOOLEAN /\ cancelPending \in BOOLEAN /\ tmHit \in BOOLEAN
  /\ tmDeadline \in 0..MaxTmTime /\ tmSlack \in 0..MaxTmSlack
  /\ tmScheduled \in Int /\ tmNow \in Nat
  /\ tmLock \in TmThreads \cup {"none"}
  /\ tmQueue \in TmCpus \cup {"none"} /\ tmDpc \in TmCpus \cup {"none"}
  /\ tmActive \in (TmCpus \X {"fire", "done"}) \cup {NotActive}
  /\ tmHandle \in BOOLEAN /\ tmDeleted \in BOOLEAN /\ tmRefs \in Int
  /\ tmPc \in [TmThreads -> TmPcs]
  /\ tmCall \in [TmCallers -> TmCalls]
  /\ tmOps \in 0..MaxTmOps
  /\ tmWant \in -1..MaxTmTime /\ tmMay \in Int

TimerInit ==
  /\ tmSignaled = FALSE /\ tmDeadline = 0 /\ tmSlack = 0 /\ cancelPending = FALSE
  /\ tmLock = "none" /\ tmQueue = "none" /\ tmScheduled = 0
  /\ tmActive = NotActive /\ tmDpc = "none"
  /\ tmHandle = TRUE /\ tmRefs = 1 /\ tmDeleted = FALSE
  /\ tmPc = [p \in TmThreads |-> "idle"]
  /\ tmCall = [p \in TmCallers |-> NoCall]
  /\ tmHit = FALSE /\ tmNow = 1 /\ tmOps = 0 /\ tmWant = -1 /\ tmMay = 0

TmGo(p, pc) == tmPc' = [tmPc EXCEPT ![p] = pc]
TmUnlock(p, pc) == TmGo(p, pc) /\ tmLock' = "none"

\* The Timer leaves its queue, if it is on one.
TmDequeue == tmQueue' = "none" /\ tmScheduled' = 0
-----------------------------------------------------------------------------
(* The system calls.  Set and Cancel hold a reference for their duration;  *)
(* closing the last handle hands its reference to on_zero_handles.         *)

TimerCall(p, call) ==
  /\ tmPc[p] = "idle" /\ tmHandle /\ tmOps < MaxTmOps
  /\ tmOps' = tmOps + 1
  /\ tmCall' = [tmCall EXCEPT ![p] = call]
  /\ TmGo(p, "lock")
  /\ IF call[1] = "close" THEN tmHandle' = FALSE /\ UNCHANGED tmRefs
                          ELSE tmRefs' = tmRefs + 1 /\ UNCHANGED tmHandle
  /\ UNCHANGED <<tmSignaled, tmDeadline, tmSlack, cancelPending, tmLock, tmHw,
                 tmDeleted, tmHit, tmNow, tmWant, tmMay>>

\* Mutant: the signal of the deadline before is left on.
CancelTimerKeepsSignal(p) ==
  /\ tmPc[p] = "lock" /\ tmLock = "none"
  /\ tmLock' = p
  /\ tmDeadline' = 0 /\ tmSlack' = 0
  /\ tmWant' = -1 /\ tmMay' = 0
  /\ IF tmDeadline = 0 \/ cancelPending
     THEN TmGo(p, "missed") /\ UNCHANGED <<tmQueue, tmScheduled, tmHit>>
     ELSE TmGo(p, "wait") /\ TmDequeue /\ tmHit' = (tmQueue # "none")
  /\ UNCHANGED <<tmSignaled, cancelPending, tmActive, tmDpc, tmObj, tmRest>>

\* The call takes the lock and runs CancelTimerLocked up to the point where
\* Timer::Cancel has dropped the timer lock.
CancelTimerLocked(p) ==
  /\ tmPc[p] = "lock" /\ tmLock = "none"
  /\ tmLock' = p
  /\ tmSignaled' = FALSE
  /\ tmDeadline' = 0 /\ tmSlack' = 0
  /\ tmWant' = -1 /\ tmMay' = 0
  /\ \/ /\ tmDeadline = 0 \/ cancelPending
        /\ TmGo(p, "missed")
        /\ UNCHANGED <<tmQueue, tmScheduled, tmHit>>
     \/ /\ tmDeadline # 0 /\ ~cancelPending
        /\ TmDequeue
        /\ tmHit' = (tmQueue # "none")
        /\ TmGo(p, "wait")
  /\ UNCHANGED <<cancelPending, tmActive, tmDpc, tmObj, tmRest>>

\* Mutant: the reference is dropped also when the callback was missed.
TimerCancelDoneDrops(p) ==
  /\ tmPc[p] = "wait" /\ tmActive = NotActive
  /\ tmRefs' = tmRefs - 1
  /\ cancelPending' = ~tmHit
  /\ tmHit' = FALSE
  /\ TmGo(p, "canceled")
  /\ UNCHANGED <<tmSignaled, tmDeadline, tmSlack, tmLock, tmHw, tmHandle,
                 tmDeleted, tmRest, tmWant, tmMay>>

\* Timer::Cancel has waited for the callback; CancelTimerLocked drops the
\* timer's reference or leaves that to the DPC.
TimerCancelDone(p) ==
  /\ tmPc[p] = "wait" /\ tmActive = NotActive
  /\ IF tmHit THEN tmRefs' = tmRefs - 1 /\ UNCHANGED cancelPending
              ELSE cancelPending' = TRUE /\ UNCHANGED tmRefs
  /\ tmHit' = FALSE
  /\ TmGo(p, "canceled")
  /\ UNCHANGED <<tmSignaled, tmDeadline, tmSlack, tmLock, tmHw, tmHandle,
                 tmDeleted, tmRest, tmWant, tmMay>>

\* TimerDispatcher::Cancel returns.
CancelReturn(p) ==
  /\ tmPc[p] \in {"missed", "canceled"} /\ tmCall[p][1] = "cancel"
  /\ TmUnlock(p, "release")
  /\ UNCHANGED <<tmSignaled, tmDeadline, tmSlack, cancelPending, tmHw, tmObj, tmHit,
                 tmRest, tmWant, tmMay>>

\* on_zero_handles: when CancelTimerLocked did not cancel the Timer, do.
TimerOnZeroHandles(p) ==
  /\ tmCall[p][1] = "close"
  /\ \/ /\ tmPc[p] = "canceled"
        /\ TmUnlock(p, "release")
        /\ UNCHANGED <<tmQueue, tmScheduled>>
     \/ /\ tmPc[p] = "missed"
        /\ TmDequeue
        /\ TmGo(p, "rewait")
        /\ UNCHANGED tmLock
  /\ UNCHANGED <<tmSignaled, tmDeadline, tmSlack, cancelPending, tmActive,
                 tmDpc, tmObj, tmHit, tmRest, tmWant, tmMay>>

OnZeroHandlesWaited(p) ==
  /\ p \in TmCallers
  /\ tmCall[p][1] = "close" /\ tmPc[p] = "rewait" /\ tmActive = NotActive
  /\ TmUnlock(p, "release")
  /\ UNCHANGED <<tmSignaled, tmDeadline, tmSlack, cancelPending, tmHw, tmObj, tmHit,
                 tmRest, tmWant, tmMay>>

\* TimerDispatcher::Set after CancelTimerLocked: the deadline has passed, or
\* the DPC will arm the Timer, or Set does, having canceled it first.
TimerSet(p) ==
  LET d == tmCall[p][2]
      slack == tmCall[p][3]
  IN  /\ tmPc[p] \in {"missed", "canceled"} /\ tmCall[p][1] = "set"
      /\ tmWant' = d /\ tmMay' = Earliest(d, slack)
      /\ \/ /\ d <= tmNow
            /\ tmSignaled' = TRUE
            /\ TmUnlock(p, "release")
            /\ UNCHANGED <<tmDeadline, tmSlack, tmRefs, tmQueue, tmScheduled>>
         \/ /\ d > tmNow /\ cancelPending
            /\ tmDeadline' = d /\ tmSlack' = slack
            /\ TmUnlock(p, "release")
            /\ UNCHANGED <<tmSignaled, tmRefs, tmQueue, tmScheduled>>
         \/ /\ d > tmNow /\ ~cancelPending
            /\ tmDeadline' = d /\ tmSlack' = slack
            /\ tmRefs' = tmRefs + 1
            /\ \/ /\ tmPc[p] = "canceled" /\ TmGo(p, "arm")
                  /\ UNCHANGED <<tmQueue, tmScheduled>>
               \/ tmPc[p] = "missed" /\ TmGo(p, "rewait") /\ TmDequeue
            /\ UNCHANGED <<tmSignaled, tmLock>>
      /\ UNCHANGED <<cancelPending, tmActive, tmDpc, tmHandle, tmDeleted, tmHit,
                     tmRest>>

\* SetTimerLocked: Timer::Cancel has waited for the callback.
SetTimerWaited(p) ==
  /\ tmPc[p] = "rewait" /\ tmActive = NotActive
  /\ p \in TmCallers => tmCall[p][1] = "set"
  /\ TmGo(p, "arm")
  /\ UNCHANGED <<tmSignaled, tmDeadline, tmSlack, cancelPending, tmLock, tmHw, tmObj,
                 tmHit, tmRest, tmWant, tmMay>>

\* Timer::Set puts the Timer on the queue of the CPU the thread runs on, due
\* at its deadline or at the time of another timer that its slack reaches
\* (TimerQueue::Insert), and the lock is dropped.  The DPC, which passes the
\* reference on, is over.
SetTimerLocked(p, c) ==
  /\ tmPc[p] = "arm"
  /\ p \in TmCpus => c = p
  /\ tmQueue' = c
  /\ tmScheduled' \in Earliest(tmDeadline, tmSlack)..Latest(tmDeadline, tmSlack)
  /\ TmUnlock(p, IF p \in TmCpus THEN "idle" ELSE "release")
  /\ UNCHANGED <<tmSignaled, tmDeadline, tmSlack, cancelPending, tmActive, tmDpc, tmObj,
                 tmHit, tmRest, tmWant, tmMay>>

\* The thread's reference goes, and with the last one the object.
TimerRelease(p) ==
  /\ tmPc[p] = "release"
  /\ tmRefs' = tmRefs - 1
  /\ tmDeleted' = (tmRefs = 1)
  /\ TmGo(p, "idle")
  /\ tmCall' = [q \in TmCallers |-> IF q = p THEN NoCall ELSE tmCall[q]]
  /\ UNCHANGED <<tmSignaled, tmDeadline, tmSlack, cancelPending, tmLock, tmHw,
                 tmHandle, tmHit, tmNow, tmOps, tmWant, tmMay>>
-----------------------------------------------------------------------------
(* The expiry: TimerQueue::TickInternal, its callback, and the DPC.        *)

TimerTick(c) ==
  /\ tmQueue = c /\ tmScheduled <= tmNow /\ tmActive = NotActive
  /\ TmDequeue
  /\ tmActive' = <<c, "fire">>
  /\ UNCHANGED <<tmSignaled, tmDeadline, tmSlack, cancelPending, tmLock,
                 tmDpc, tmObj, tmPc, tmHit, tmRest, tmWant, tmMay>>

\* timer_irq_callback: Dpc::Queue does nothing to a DPC that is on a list.
TimerIrqCallback(c) ==
  /\ tmActive = <<c, "fire">>
  /\ tmDpc' = IF tmDpc = "none" THEN c ELSE tmDpc
  /\ tmActive' = <<c, "done">>
  /\ UNCHANGED <<tmSignaled, tmDeadline, tmSlack, cancelPending, tmLock, tmQueue,
                 tmScheduled, tmObj, tmPc, tmHit, tmRest, tmWant, tmMay>>

TimerTickDone(c) ==
  /\ tmActive = <<c, "done">>
  /\ tmActive' = NotActive
  /\ UNCHANGED <<tmSignaled, tmDeadline, tmSlack, cancelPending, tmLock, tmQueue,
                 tmScheduled, tmDpc, tmObj, tmPc, tmHit, tmRest, tmWant, tmMay>>

\* The CPU's worker takes the DPC off its list.
TimerDpcPop(c) ==
  /\ tmDpc = c /\ tmPc[c] = "idle" /\ tmActive \notin {c} \X {"fire", "done"}
  /\ tmDpc' = "none"
  /\ TmGo(c, "lock")
  /\ UNCHANGED <<tmSignaled, tmDeadline, tmSlack, cancelPending, tmLock, tmQueue,
                 tmScheduled, tmActive, tmObj, tmHit, tmRest, tmWant, tmMay>>

\* Mutant: a timer set again while its DPC was queued is not armed.
OnTimerFiredNoRearm(c) ==
  /\ tmPc[c] = "lock" /\ tmLock = "none"
  /\ cancelPending' = FALSE
  /\ IF cancelPending THEN UNCHANGED <<tmSignaled, tmDeadline, tmSlack>>
                      ELSE tmSignaled' = TRUE /\ tmDeadline' = 0 /\ tmSlack' = 0
  /\ TmGo(c, "release")
  /\ UNCHANGED <<tmLock, tmHw, tmObj, tmHit, tmRest, tmWant, tmMay>>

\* OnTimerFired under the lock, up to SetTimerLocked's wait.
OnTimerFired(c) ==
  /\ tmPc[c] = "lock" /\ tmLock = "none"
  /\ cancelPending' = FALSE
  /\ \/ /\ cancelPending /\ tmDeadline # 0
        /\ tmLock' = c /\ TmGo(c, "rewait") /\ TmDequeue
        /\ UNCHANGED <<tmSignaled, tmDeadline, tmSlack>>
     \/ /\ cancelPending /\ tmDeadline = 0
        /\ TmGo(c, "release")
        /\ UNCHANGED <<tmSignaled, tmDeadline, tmSlack, tmLock, tmQueue,
                       tmScheduled>>
     \/ /\ ~cancelPending
        /\ tmSignaled' = TRUE /\ tmDeadline' = 0 /\ tmSlack' = 0
        /\ TmGo(c, "release")
        /\ UNCHANGED <<tmLock, tmQueue, tmScheduled>>
  /\ UNCHANGED <<tmActive, tmDpc, tmObj, tmHit, tmRest, tmWant, tmMay>>

TimerClock ==
  /\ tmNow < MaxTmTime + MaxTmSlack
  /\ tmNow' = tmNow + 1
  /\ UNCHANGED <<tmSignaled, tmDeadline, tmSlack, cancelPending, tmLock, tmHw, tmObj,
                 tmPc, tmHit, tmCall, tmOps, tmWant, tmMay>>
-----------------------------------------------------------------------------
TimerCallStep(p) ==
  \/ CancelTimerLocked(p) \/ TimerCancelDone(p) \/ CancelReturn(p)
  \/ TimerOnZeroHandles(p) \/ TimerSet(p)
TimerStep(p) ==
  \/ OnZeroHandlesWaited(p) \/ SetTimerWaited(p)
  \/ (\E c \in TmCpus : SetTimerLocked(p, c)) \/ TimerRelease(p)
TimerIrq(c) == TimerTick(c) \/ TimerIrqCallback(c) \/ TimerTickDone(c)

TimerNext ==
  \/ \E p \in TmCallers : \/ \E call \in TmCalls : TimerCall(p, call)
                          \/ TimerCallStep(p)
  \/ \E p \in TmThreads : TimerStep(p)
  \/ \E c \in TmCpus : TimerIrq(c) \/ TimerDpcPop(c) \/ OnTimerFired(c)
  \/ TimerClock

\* Threads inside a call, interrupts and DPC workers keep running, and time
\* passes.  The lock is then handed to every thread that waits for it, since
\* calls are finitely many.
TimerThreadsRun ==
  /\ \A p \in TmCallers : WF_tmVars(TimerCallStep(p) \/ TimerStep(p))
  /\ \A c \in TmCpus : /\ WF_tmVars(TimerIrq(c))
                       /\ WF_tmVars(TimerDpcPop(c) \/ OnTimerFired(c) \/ TimerStep(c))

TimerFairness == TimerThreadsRun /\ WF_tmVars(TimerClock)

TimerSpec == TimerInit /\ [][TimerNext]_tmVars /\ TimerFairness
-----------------------------------------------------------------------------
TmOne(b) == IF b THEN 1 ELSE 0

\* The holders of references: calls in progress, calls that arm the Timer,
\* workers that run the DPC, and the call whose Cancel took the Timer off.
TmInCall == {p \in TmCallers : tmPc[p] # "idle"}
TmArming == {p \in TmCallers : tmPc[p] \in {"rewait", "arm"} /\ tmCall[p][1] = "set"}
TmWorkers == {c \in TmCpus : tmPc[c] # "idle"}
TmTaken == {p \in TmCallers : tmPc[p] = "wait" /\ tmHit}
TmFiring == tmActive \in TmCpus \X {"fire"}

\* The references are exactly the handle's (or the closing thread's), one for
\* each call in progress, and one that follows the Timer from Set's AddRef
\* through its queue, its callback and the DPC: none is dropped twice, which
\* would free the object under someone, and none is leaked.
TimerReferences ==
  tmRefs = TmOne(tmHandle) + Cardinality(TmInCall) + Cardinality(TmArming)
           + Cardinality(TmWorkers) + Cardinality(TmTaken)
           + TmOne(tmQueue # "none") + TmOne(tmDpc # "none") + TmOne(TmFiring)

\* When the last reference goes nothing can come back to the object: its
\* Timer is on no queue and in no callback, its DPC on no list and in no
\* worker, and no deadline is left (the destructors' assertions).
TimerGoneQuietly ==
  tmDeleted => /\ tmQueue = "none" /\ tmActive = NotActive /\ tmDpc = "none"
               /\ tmDeadline = 0 /\ tmSlack = 0 /\ tmPc = [p \in TmThreads |-> "idle"]

\* The timer is signaled only for the deadline that was set last, and not
\* before the time from which its own slack allows that: the expiry of a timer
\* since canceled or set again is dropped, wherever between the interrupt and
\* the DPC it was overtaken, and the slack of the one does not serve the other.
TimerSignalIsLatest ==
  tmSignaled => tmWant # -1 /\ tmMay <= tmNow

\* Timer::Set never finds the Timer on a queue or in a callback (it panics),
\* and never runs twice at once.
TimerSetWhenIdle ==
  \A p \in TmThreads :
    tmPc[p] = "arm" => tmQueue = "none" /\ tmActive = NotActive /\ tmLock = p

\* A deadline that stays set is signaled, although the DPC of an earlier one
\* may have to arm the Timer.
TimerFires ==
  \A d \in 0..MaxTmTime : []<>(tmSignaled \/ tmWant # d)

\* After the last handle is closed the object is freed: a timer that nobody
\* can wait for does not keep it alive.
TimerFreed == ~tmHandle ~> tmDeleted

\* The references are exact, and what is freed or set is on no queue and in no
\* callback.
TimerConsistent ==
  TimerTypeOK /\ TimerReferences /\ TimerGoneQuietly /\ TimerSetWhenIdle
=============================================================================
