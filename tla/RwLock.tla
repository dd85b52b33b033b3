------------------------------- MODULE RwLock -------------------------------
(***************************************************************************)
(* What a lock promises: one thread that may write, or any number that may *)
(* only read.  Mutex (with no readers) and BrwLock implement it.           *)
(***************************************************************************)
CONSTANT LockThreads

VARIABLES reading, writing      \* the threads that hold the lock, by mode

RwInit == reading = {} /\ writing = {}

\* A set of threads gets the lock to read, at once when they were waiting
\* together.
GrantReaders(S) ==
  /\ S \cap reading = {} /\ S # {}
  /\ writing = {}
  /\ reading' = reading \cup S
  /\ UNCHANGED writing

GrantWriter(t) ==
  /\ reading = {} /\ writing = {}
  /\ writing' = {t}
  /\ UNCHANGED reading

\* The only reader becomes the writer.
Upgrade(t) ==
  /\ reading = {t}
  /\ reading' = {} /\ writing' = {t}

LetGo(t) ==
  /\ t \in reading \cup writing
  /\ reading' = reading \ {t} /\ writing' = writing \ {t}

RwNext ==
  /\ <<reading, writing>>' # <<reading, writing>>
  /\ \/ \E S \in SUBSET LockThreads : GrantReaders(S)
     \/ \E t \in LockThreads : GrantWriter(t) \/ Upgrade(t) \/ LetGo(t)

RwSpec == RwInit /\ [][RwNext]_<<reading, writing>>
=============================================================================
