------------------------------- MODULE Event -------------------------------
(***************************************************************************)
(* Event (kernel/event.cc): a flag with a wait queue.  WaitWorker and      *)
(* Signal each run under the wait queue's lock from their test to their    *)
(* last change, so each is one action; backing off and retrying the lock   *)
(* changes nothing.  Unsignal is a plain store.  Other modules instantiate *)
(* this one for the events they own.                                       *)
(***************************************************************************)
CONSTANT AutoUnsignal    \* Event::AUTOUNSIGNAL

VARIABLES signaled,      \* result_ is not kNotSignaled
          waiters        \* threads in wait_

\* Event::WaitWorker finds the event unsignaled and blocks t.
Block(t) ==
  /\ ~signaled
  /\ waiters' = waiters \cup {t}
  /\ UNCHANGED signaled

\* Event::WaitWorker finds it signaled; the first thread to see that of an
\* auto-unsignal event clears it.
Pass ==
  /\ signaled
  /\ signaled' = ~AutoUnsignal
  /\ UNCHANGED waiters

\* Event::Signal.  Which thread an auto-unsignal event wakes is up to the
\* wait queue's order.
Signal ==
  \/ /\ signaled \/ waiters = {}
     /\ signaled' = TRUE
     /\ UNCHANGED waiters
  \/ /\ ~signaled /\ AutoUnsignal
     /\ \E t \in waiters : waiters' = waiters \ {t}
     /\ UNCHANGED signaled
  \/ /\ ~signaled /\ ~AutoUnsignal /\ waiters # {}
     /\ waiters' = {}
     /\ signaled' = TRUE

\* Event::Unsignal.
Unsignal ==
  /\ signaled' = FALSE
  /\ UNCHANGED waiters

\* A waiting thread times out, is killed or is suspended: the wait queue
\* drops it.
Leave(t) ==
  /\ t \in waiters
  /\ waiters' = waiters \ {t}
  /\ UNCHANGED signaled
=============================================================================
