------------------------- MODULE CountingSemaphore -------------------------
(***************************************************************************)
(* What kernel/semaphore.h promises of a Semaphore, without its count      *)
(* encoding, its lock-free paths or its queue lock: a number of permits    *)
(* and a set of blocked threads.  A Post admits one blocked thread if      *)
(* there is one and stores a permit otherwise; a Wait takes a permit or    *)
(* blocks; a blocked thread may give up (timeout, suspend, kill).          *)
(***************************************************************************)
EXTENDS Naturals

CONSTANT Threads

VARIABLES value,     \* permits stored for future Waits
          waiting    \* threads blocked in Wait

absVars == <<value, waiting>>

AbsInit ==
  /\ value \in Nat
  /\ waiting = {}

\* A Post with nobody waiting stores a permit.
Store ==
  /\ waiting = {}
  /\ value' = value + 1
  /\ UNCHANGED waiting

\* A Post with a waiter admits exactly one and stores nothing.
Admit ==
  /\ value = 0
  /\ \E w \in waiting : waiting' = waiting \ {w}
  /\ UNCHANGED value

\* A Wait that finds a permit takes it.
Take ==
  /\ value > 0
  /\ value' = value - 1
  /\ UNCHANGED waiting

\* A Wait that finds none blocks.
Block ==
  /\ value = 0
  /\ \E t \in Threads \ waiting : waiting' = waiting \cup {t}
  /\ UNCHANGED value

\* A blocked thread leaves without a permit.
GiveUp ==
  /\ \E w \in waiting : waiting' = waiting \ {w}
  /\ UNCHANGED value

AbsNext == Store \/ Admit \/ Take \/ Block \/ GiveUp

AbsSpec == AbsInit /\ [][AbsNext]_absVars
=============================================================================
