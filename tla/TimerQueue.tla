----------------------------- MODULE TimerQueue -----------------------------
(***************************************************************************)
(* Timer and TimerQueue (kernel/timer.cc): the sorted queue of each CPU,   *)
(* coalescing within the slack of a deadline, the one-shot hardware timer, *)
(* the tick interrupt, Cancel, and the move of an unplugged CPU's timers.  *)
(* What timer_lock covers is one action; callbacks run outside it and may  *)
(* set their own timer again.                                              *)
(***************************************************************************)
EXTENDS Integers, Sequences, SequencesExt

CONSTANTS TqCpus, TqBoot,     \* CPUs; the one that is never unplugged
          TqTimers,
          TqDeadlines,        \* deadlines set: <<when, slack, mode>>
          MaxTqTime,          \* bound: the clock; later deadlines are infinite
          MaxTqSets           \* bound: calls of Timer::Set

VARIABLES tqList,        \* timer_list_ of each CPU
          tqSched,       \* scheduled_time_ of each timer
          tqSpan,        \* history: <<earliest, latest>> asked for
          tqNext,        \* next_timer_deadline_, what the hardware is set to
          tqPreempt,     \* preempt_timer_deadline_
          tqActive,      \* active_cpu_ of each timer, or "none"
          tqCancel,      \* cancel_
          tqCanceler,    \* a thread is in Cancel, waiting for the callback
          tqTick,        \* the time the CPU's tick began, or -1
          tqUp,          \* CPUs online
          tqNow, tqSets  \* the clock; calls of Set so far

tqTimer == <<tqSched, tqSpan, tqActive, tqCancel, tqCanceler>>
tqCount == <<tqNow, tqSets>>
tqVars == <<tqList, tqTimer, tqNext, tqPreempt, tqTick, tqUp, tqCount>>

Infinite == MaxTqTime + 1
TqQueued(t) == \E c \in TqCpus : t \in ToSet(tqList[c])
EarlierOf(a, b) == IF a < b THEN a ELSE b
DeadlineOf(l) == IF l = <<>> THEN Infinite ELSE tqSched[Head(l)]

TqTypeOK ==
  /\ \A c \in TqCpus : ToSet(tqList[c]) \subseteq TqTimers
  /\ tqSched \in [TqTimers -> 0..Infinite]
  /\ tqSpan \in [TqTimers -> (0..Infinite) \X (0..Infinite)]
  /\ tqNext \in [TqCpus -> 0..Infinite] /\ tqPreempt \in [TqCpus -> 0..Infinite]
  /\ tqActive \in [TqTimers -> TqCpus \cup {"none"}]
  /\ tqCancel \in [TqTimers -> BOOLEAN] /\ tqCanceler \in [TqTimers -> BOOLEAN]
  /\ tqTick \in [TqCpus -> -1..MaxTqTime]
  /\ tqUp \subseteq TqCpus /\ tqNow \in 0..MaxTqTime /\ tqSets \in 0..MaxTqSets

TqInit ==
  /\ tqList = [c \in TqCpus |-> <<>>]
  /\ tqSched = [t \in TqTimers |-> 0]
  /\ tqSpan = [t \in TqTimers |-> <<0, 0>>]
  /\ tqNext = [c \in TqCpus |-> Infinite]
  /\ tqPreempt = [c \in TqCpus |-> Infinite]
  /\ tqActive = [t \in TqTimers |-> "none"]
  /\ tqCancel = [t \in TqTimers |-> FALSE]
  /\ tqCanceler = [t \in TqTimers |-> FALSE]
  /\ tqTick = [c \in TqCpus |-> -1]
  /\ tqUp = TqCpus /\ tqNow = 0 /\ tqSets = 0
-----------------------------------------------------------------------------
(* TimerQueue::Insert.                                                     *)

\* Mutant: the timer joins the first one, however early that is.
InsertWithFirst(l, sched, when, earliest, latest) ==
  IF l # <<>> /\ sched[Head(l)] <= latest
  THEN [at |-> 2, sched |-> sched[Head(l)]] ELSE [at |-> 1, sched |-> when]

\* Where in l a timer for `when` goes, and when it is scheduled: before the
\* first entry later than `latest`, or with the entry it coalesces with.
Insert(l, sched, when, earliest, latest) ==
  LET better(i) == \* the next entry is the better fit
        /\ i < Len(l)
        /\ LET n == sched[l[i + 1]]
           IN  \/ n <= when
               \/ n < latest /\ n - when < when - sched[l[i]]
      place[i \in 1..(Len(l) + 1)] ==
        IF i > Len(l) \/ (i <= Len(l) /\ sched[l[i]] > latest)
        THEN [at |-> i, sched |-> when]
        ELSE IF \/ sched[l[i]] >= when
                \/ sched[l[i]] >= earliest /\ ~better(i)
             THEN [at |-> i + 1, sched |-> sched[l[i]]]
             ELSE place[i + 1]
  IN  place[1]

\* Deadline::earliest and latest; times saturate.
SpanOf(deadline) ==
  LET when == deadline[1]  slack == deadline[2]  mode == deadline[3]
  IN  <<IF mode = "LATE" THEN when ELSE IF when < slack THEN 0 ELSE when - slack,
        IF mode = "EARLY" THEN when ELSE EarlierOf(when + slack, Infinite)>>

\* Timer::Set in the callback, on c, of a timer being canceled does nothing.
SetIgnored(t, c) == tqActive[t] = c /\ tqCancel[t]

\* Timer::Set on CPU c, from its callback on c or from its owner.
TimerQueueSet(t, c, deadline) ==
  LET when == deadline[1]
      span == SpanOf(deadline)
      p == Insert(tqList[c], tqSched, when, span[1], span[2])
  IN  /\ tqSets < MaxTqSets /\ c \in tqUp
      /\ ~TqQueued(t)
      /\ \/ tqActive[t] = c
         \/ tqActive[t] = "none" /\ ~tqCanceler[t] /\ tqTick[c] = -1
      /\ tqSets' = tqSets + 1
      /\ \/ /\ SetIgnored(t, c)
            /\ UNCHANGED <<tqList, tqSched, tqSpan, tqCancel, tqNext>>
         \/ /\ ~SetIgnored(t, c)
            /\ tqSched' = [tqSched EXCEPT ![t] = p.sched]
            /\ tqSpan' = [tqSpan EXCEPT ![t] = span]
            /\ tqCancel' = [tqCancel EXCEPT ![t] = FALSE]
            /\ tqList' = [tqList EXCEPT ![c] = InsertAt(@, p.at, t)]
            /\ tqNext' = [tqNext EXCEPT ![c] =
                 IF p.at = 1 THEN EarlierOf(@, when) ELSE @]
      /\ UNCHANGED <<tqPreempt, tqActive, tqCanceler, tqTick, tqUp, tqNow>>

\* Timer::Cancel by a thread on c, up to the wait.  The hardware is left as
\* it is: it is set to the old head's time or an earlier one.
TimerQueueCancel(t, c) ==
  /\ c \in tqUp /\ tqTick[c] = -1
  /\ ~tqCanceler[t] /\ (TqQueued(t) \/ tqActive[t] # "none")
  /\ tqCancel' = [tqCancel EXCEPT ![t] = TRUE]
  /\ tqCanceler' = [tqCanceler EXCEPT ![t] = TRUE]
  /\ tqList' = [q \in TqCpus |-> SelectSeq(tqList[q], LAMBDA x : x # t)]
  /\ tqNext' = [tqNext EXCEPT ![c] =
       IF tqList[c] # <<>> /\ Head(tqList[c]) = t
       THEN EarlierOf(@, DeadlineOf(tqList'[c])) ELSE @]
  /\ UNCHANGED <<tqSched, tqSpan, tqActive, tqPreempt, tqTick, tqUp, tqCount>>

\* Timer::Cancel from the timer's own callback, which has not set it again.
TimerQueueCancelInside(t) ==
  /\ tqActive[t] # "none" /\ ~TqQueued(t)
  /\ tqCancel' = [tqCancel EXCEPT ![t] = TRUE]
  /\ UNCHANGED <<tqList, tqSched, tqSpan, tqActive, tqCanceler, tqNext,
                 tqPreempt, tqTick, tqUp, tqCount>>

\* Timer::Cancel has seen the callback over, and returns.
TimerQueueCanceled(t) ==
  /\ tqCanceler[t] /\ tqActive[t] = "none"
  /\ tqCanceler' = [tqCanceler EXCEPT ![t] = FALSE]
  /\ UNCHANGED <<tqList, tqSched, tqSpan, tqActive, tqCancel, tqNext,
                 tqPreempt, tqTick, tqUp, tqCount>>

\* TimerQueue::PreemptReset.
PreemptReset(c, deadline) ==
  /\ c \in tqUp /\ tqTick[c] = -1 /\ tqSets < MaxTqSets
  /\ tqSets' = tqSets + 1
  /\ tqPreempt' = [tqPreempt EXCEPT ![c] = deadline]
  /\ tqNext' = [tqNext EXCEPT ![c] = EarlierOf(@, deadline)]
  /\ UNCHANGED <<tqList, tqTimer, tqTick, tqUp, tqNow>>
-----------------------------------------------------------------------------
(* The tick interrupt.                                                     *)

\* TimerQueue::Tick: the hardware fires; the preemption timer is served.
TqTickBegin(c) ==
  /\ c \in tqUp /\ tqTick[c] = -1 /\ tqNext[c] <= tqNow
  /\ tqTick' = [tqTick EXCEPT ![c] = tqNow]
  /\ tqNext' = [tqNext EXCEPT ![c] = Infinite]
  /\ tqPreempt' = [tqPreempt EXCEPT ![c] = IF @ <= tqNow THEN Infinite ELSE @]
  /\ UNCHANGED <<tqList, tqTimer, tqUp, tqCount>>

NoCallback(c) == \A t \in TqTimers : tqActive[t] # c
HeadDue(c) == tqList[c] # <<>> /\ tqSched[Head(tqList[c])] <= tqTick[c]

\* TickInternal takes the head off the list and calls it back.
TqTickFire(c) ==
  /\ tqTick[c] # -1 /\ NoCallback(c) /\ HeadDue(c)
  /\ tqActive' = [tqActive EXCEPT ![Head(tqList[c])] = c]
  /\ tqList' = [tqList EXCEPT ![c] = Tail(@)]
  /\ UNCHANGED <<tqSched, tqSpan, tqCancel, tqCanceler, tqNext, tqPreempt,
                 tqTick, tqUp, tqCount>>

TqCallbackDone(t) ==
  /\ tqActive[t] # "none"
  /\ tqActive' = [tqActive EXCEPT ![t] = "none"]
  /\ UNCHANGED <<tqList, tqSched, tqSpan, tqCancel, tqCanceler, tqNext,
                 tqPreempt, tqTick, tqUp, tqCount>>

\* Mutant: the hardware is armed for the preemption timer only.
TqTickEndPreemptOnly(c) ==
  /\ tqTick[c] # -1 /\ NoCallback(c) /\ ~HeadDue(c)
  /\ tqTick' = [tqTick EXCEPT ![c] = -1]
  /\ tqNext' = [tqNext EXCEPT ![c] = EarlierOf(@, tqPreempt[c])]
  /\ UNCHANGED <<tqList, tqTimer, tqPreempt, tqUp, tqCount>>

\* Nothing more is due: Tick sets the hardware for the head or preemption.
TqTickEnd(c) ==
  /\ tqTick[c] # -1 /\ NoCallback(c) /\ ~HeadDue(c)
  /\ tqTick' = [tqTick EXCEPT ![c] = -1]
  /\ tqNext' = [tqNext EXCEPT ![c] =
       EarlierOf(@, EarlierOf(DeadlineOf(tqList[c]), tqPreempt[c]))]
  /\ UNCHANGED <<tqList, tqTimer, tqPreempt, tqUp, tqCount>>

\* TimerQueue::TransitionOffCpu: c is offline and its timers go to dst, one
\* by one, without slack.
TqTransitionOffCpu(c, dst) ==
  /\ c \in tqUp \ {TqBoot} /\ dst \in tqUp \ {c}
  /\ tqTick[c] = -1 /\ tqTick[dst] = -1
  /\ LET put(l, t) == LET w == tqSched[t]
                      IN  InsertAt(l, Insert(l, tqSched, w, w, w).at, t)
         new == FoldLeft(put, tqList[dst], tqList[c])
     IN  /\ tqList' = [tqList EXCEPT ![dst] = new, ![c] = <<>>]
         /\ tqNext' = [tqNext EXCEPT
              ![dst] = IF new # <<>> /\ (tqList[dst] = <<>> \/
                                         Head(new) # Head(tqList[dst]))
                       THEN EarlierOf(@, DeadlineOf(new)) ELSE @,
              ![c] = Infinite]
  /\ tqPreempt' = [tqPreempt EXCEPT ![c] = Infinite]
  /\ tqUp' = tqUp \ {c}
  /\ UNCHANGED <<tqTimer, tqTick, tqCount>>

TqClock ==
  /\ tqNow < MaxTqTime
  /\ tqNow' = tqNow + 1
  /\ UNCHANGED <<tqList, tqTimer, tqNext, tqPreempt, tqTick, tqUp, tqSets>>
-----------------------------------------------------------------------------
TqIrq(c) == TqTickBegin(c) \/ TqTickFire(c) \/ TqTickEnd(c)

TqNext ==
  \/ \E t \in TqTimers, c \in TqCpus :
       \/ \E d \in TqDeadlines : TimerQueueSet(t, c, d)
       \/ TimerQueueCancel(t, c)
  \/ \E t \in TqTimers :
       TimerQueueCancelInside(t) \/ TimerQueueCanceled(t) \/ TqCallbackDone(t)
  \/ \E c \in TqCpus : \/ \E d \in TqDeadlines : PreemptReset(c, d[1])
                       \/ TqIrq(c)
                       \/ \E dst \in TqCpus : TqTransitionOffCpu(c, dst)
  \/ TqClock

TqSpec == TqInit /\ [][TqNext]_tqVars
-----------------------------------------------------------------------------
\* Every queue is sorted, as Tick, which looks at the head only, needs; no
\* timer is on two.
TqSorted ==
  /\ \A c \in TqCpus : \A i, j \in DOMAIN tqList[c] :
       i < j => /\ tqSched[tqList[c][i]] <= tqSched[tqList[c][j]]
                /\ tqList[c][i] # tqList[c][j]
  /\ \A c, e \in TqCpus : c # e => ToSet(tqList[c]) \cap ToSet(tqList[e]) = {}

\* Coalescing, here and after a move to another CPU, keeps a timer between
\* the earliest and the latest time its deadline allows.
TqWithinSlack ==
  \A t \in TqTimers : TqQueued(t) => /\ tqSpan[t][1] <= tqSched[t]
                                     /\ tqSched[t] <= tqSpan[t][2]

\* Outside the tick a CPU's hardware timer is set no later than its first
\* timer and its preemption deadline: whoever inserted, canceled or moved
\* timers, none is slept through.
TqHardwareArmed ==
  \A c \in tqUp : tqTick[c] = -1 =>
    tqNext[c] <= EarlierOf(DeadlineOf(tqList[c]), tqPreempt[c])

\* When Cancel returns the timer is neither in its callback nor on a queue,
\* even if the callback was setting it again.
TqCancelFinal ==
  \A t \in TqTimers : tqCanceler[t] => ~TqQueued(t)

\* The queues: sorted, within every timer's slack, and without the timers whose
\* Cancel is returning.
TqConsistent == TqTypeOK /\ TqSorted /\ TqWithinSlack /\ TqCancelFinal
=============================================================================
