------------------------------- MODULE Mutex -------------------------------
(***************************************************************************)
(* The kernel's Mutex (kernel/kernel/mutex.cc): a word holding the owner   *)
(* and a flag for contention, and a queue of blocked threads under a lock  *)
(* of its own.  One action per atomic operation on the word; between two   *)
(* of them any other thread may take the fast path, which does not look at *)
(* the queue's lock.                                                       *)
(*                                                                         *)
(* Blocking needs further locks and may have to back off.  Threads wait    *)
(* in the order they came: priorities decide who is first, which nothing   *)
(* here depends on.                                                        *)
(***************************************************************************)
EXTENDS Integers, Sequences

CONSTANTS MxThreads,      \* threads
          MxNone          \* no thread, a null pointer

ASSUME MxNoneAssumption == MxNone \notin MxThreads

VARIABLES mxOwner,        \* val_ without its flag
          mxContested,    \* STATE_FLAG_CONTESTED of val_
          mxWaiters,      \* wait_, the blocked threads
          mxBoosted,      \* owner of wait_, who inherits their priorities
          mxLock,         \* who holds the lock of wait_
          mxPc,           \* where each thread is
          mxSaw,          \* owner a thread read and is about to block on
          mxDestroyed     \* the destructor has run

mxVars == <<mxOwner, mxContested, mxWaiters, mxBoosted, mxLock, mxPc, mxSaw,
            mxDestroyed>>
mxWord == <<mxOwner, mxContested>>
mxQueue == <<mxWaiters, mxBoosted>>

MutexTypeOK ==
  /\ mxOwner \in MxThreads \cup {MxNone}
  /\ mxContested \in BOOLEAN
  /\ mxWaiters \in Seq(MxThreads)
  /\ \A i, j \in DOMAIN mxWaiters : mxWaiters[i] = mxWaiters[j] => i = j
  /\ mxBoosted \in MxThreads \cup {MxNone}
  /\ mxLock \in MxThreads \cup {MxNone}
  /\ mxPc \in [MxThreads -> {"idle", "spin", "queue", "or", "take", "block",
                             "asleep", "held", "contended", "wake", "unlock"}]
  /\ mxSaw \in [MxThreads -> MxThreads \cup {MxNone}]
  /\ mxDestroyed \in BOOLEAN

MutexInit ==
  /\ mxOwner = MxNone /\ mxContested = FALSE
  /\ mxWaiters = <<>> /\ mxBoosted = MxNone
  /\ mxLock = MxNone
  /\ mxPc = [t \in MxThreads |-> "idle"]
  /\ mxSaw = [t \in MxThreads |-> MxNone]
  /\ mxDestroyed = FALSE
-----------------------------------------------------------------------------
MxAt(t, p) == mxPc[t] = p
MxGoto(t, p) == mxPc' = [mxPc EXCEPT ![t] = p]

\* Mutant: the exchange also succeeds on a mutex that is held.
AcquireFastUnowned(t) ==
  /\ MxAt(t, "idle") \/ MxAt(t, "spin")
  /\ ~mxDestroyed /\ ~mxContested
  /\ mxOwner' = t
  /\ MxGoto(t, "held")
  /\ UNCHANGED <<mxContested, mxQueue, mxLock, mxSaw, mxDestroyed>>

\* AcquireCommon and each turn of the spinning loop: swap the owner in if the
\* word is free.
AcquireFast(t) ==
  /\ MxAt(t, "idle") \/ MxAt(t, "spin")
  /\ ~mxDestroyed
  /\ mxOwner = MxNone /\ ~mxContested
  /\ mxOwner' = t
  /\ MxGoto(t, "held")
  /\ UNCHANGED <<mxContested, mxQueue, mxLock, mxSaw, mxDestroyed>>

\* The exchange fails, or fails spuriously.
AcquireMiss(t) ==
  /\ MxAt(t, "idle") /\ ~mxDestroyed
  /\ MxGoto(t, "spin")
  /\ UNCHANGED <<mxWord, mxQueue, mxLock, mxSaw, mxDestroyed>>

\* The spinning ends: too long, contested, or the owner seems to be on this
\* CPU.
AcquireGiveUp(t) ==
  /\ MxAt(t, "spin")
  /\ MxGoto(t, "queue")
  /\ UNCHANGED <<mxWord, mxQueue, mxLock, mxSaw, mxDestroyed>>

\* AcquireContendedMutex takes the queue's lock and reads the word.
AcquireContended(t) ==
  /\ MxAt(t, "queue") /\ mxLock = MxNone
  /\ mxLock' = t
  /\ IF mxContested THEN MxGoto(t, "block") /\ mxSaw' = [mxSaw EXCEPT ![t] = mxOwner]
                    ELSE MxGoto(t, "or") /\ UNCHANGED mxSaw
  /\ UNCHANGED <<mxWord, mxQueue, mxDestroyed>>

\* fetch_or of the flag; the word may have become free since it was read.
AcquireFetchOr(t) ==
  /\ MxAt(t, "or")
  /\ mxContested' = TRUE
  /\ IF mxOwner = MxNone THEN MxGoto(t, "take") /\ UNCHANGED mxSaw
                         ELSE MxGoto(t, "block") /\ mxSaw' = [mxSaw EXCEPT ![t] = mxOwner]
  /\ UNCHANGED <<mxOwner, mxQueue, mxLock, mxDestroyed>>

\* It had: the plain store of the new owner, without the flag.
AcquireTake(t) ==
  /\ MxAt(t, "take")
  /\ mxOwner' = t /\ mxContested' = FALSE
  /\ mxLock' = MxNone
  /\ MxGoto(t, "held")
  /\ UNCHANGED <<mxQueue, mxSaw, mxDestroyed>>

\* BlockAndAssignOwnerLocked.
AcquireBlock(t) ==
  /\ MxAt(t, "block")
  /\ mxWaiters' = Append(mxWaiters, t)
  /\ mxBoosted' = mxSaw[t]
  /\ mxLock' = MxNone
  /\ MxGoto(t, "asleep")
  /\ UNCHANGED <<mxWord, mxSaw, mxDestroyed>>

\* The other locks were not to be had; the flag stays as it is.
AcquireBackOff(t) ==
  /\ MxAt(t, "block")
  /\ mxLock' = MxNone
  /\ MxGoto(t, "queue")
  /\ UNCHANGED <<mxWord, mxQueue, mxSaw, mxDestroyed>>

\* TryRelease.
TryRelease(t) ==
  /\ MxAt(t, "held")
  /\ IF mxOwner = t /\ ~mxContested
     THEN mxOwner' = MxNone /\ MxGoto(t, "idle")
     ELSE MxGoto(t, "contended") /\ UNCHANGED mxOwner
  /\ UNCHANGED <<mxContested, mxQueue, mxLock, mxSaw, mxDestroyed>>

\* Mutant: the contested flag is not set for the waiters that remain.
ReleaseContendedUnflagged(t) ==
  /\ MxAt(t, "contended") /\ mxLock = MxNone
  /\ mxLock' = t
  /\ mxOwner' = IF mxWaiters = <<>> THEN MxNone ELSE Head(mxWaiters)
  /\ mxContested' = FALSE
  /\ MxGoto(t, IF mxWaiters = <<>> THEN "unlock" ELSE "wake")
  /\ UNCHANGED <<mxQueue, mxSaw, mxDestroyed>>

\* Mutant: the mutex is released without handing it to a waiter.
ReleaseContendedFrees(t) ==
  /\ MxAt(t, "contended") /\ mxLock = MxNone
  /\ mxLock' = t
  /\ mxOwner' = MxNone /\ mxContested' = FALSE
  /\ MxGoto(t, "unlock")
  /\ UNCHANGED <<mxQueue, mxSaw, mxDestroyed>>

\* ReleaseContendedMutex: with the queue locked, the word is given to the
\* first waiter, if there is one.
ReleaseContended(t) ==
  /\ MxAt(t, "contended") /\ mxLock = MxNone
  /\ mxLock' = t
  /\ IF mxWaiters = <<>>
     THEN mxOwner' = MxNone /\ mxContested' = FALSE /\ MxGoto(t, "unlock")
     ELSE /\ mxOwner' = Head(mxWaiters)
          /\ mxContested' = (Len(mxWaiters) > 1)
          /\ MxGoto(t, "wake")
  /\ UNCHANGED <<mxQueue, mxSaw, mxDestroyed>>

\* WakeThreadsLocked, the queue's owner becoming the thread that is woken if
\* others still wait.
ReleaseWake(t) ==
  /\ MxAt(t, "wake")
  /\ mxWaiters' = Tail(mxWaiters)
  /\ mxBoosted' = IF Len(mxWaiters) > 1 THEN Head(mxWaiters) ELSE MxNone
  /\ mxPc' = [mxPc EXCEPT ![t] = "unlock", ![Head(mxWaiters)] = "held"]
  /\ UNCHANGED <<mxWord, mxLock, mxSaw, mxDestroyed>>

ReleaseUnlock(t) ==
  /\ MxAt(t, "unlock")
  /\ mxLock' = MxNone
  /\ MxGoto(t, "idle")
  /\ UNCHANGED <<mxWord, mxQueue, mxSaw, mxDestroyed>>

\* Mutant: the destructor does not take the queue's lock.
MutexDestroyUnlocked ==
  /\ ~mxDestroyed
  /\ mxOwner = MxNone
  /\ \A t \in MxThreads : mxPc[t] \in {"idle", "unlock"}
  /\ mxDestroyed' = TRUE
  /\ UNCHANGED <<mxWord, mxQueue, mxLock, mxPc, mxSaw>>

\* ~Mutex, once the code that uses the mutex knows that nobody has or wants
\* it; it cannot know of a thread still on its way out of Release.
MutexDestroy ==
  /\ ~mxDestroyed
  /\ mxOwner = MxNone
  /\ \A t \in MxThreads : mxPc[t] \in {"idle", "unlock"}
  /\ mxLock = MxNone
  /\ mxDestroyed' = TRUE
  /\ UNCHANGED <<mxWord, mxQueue, mxLock, mxPc, mxSaw>>
-----------------------------------------------------------------------------
MutexStep(t) ==
  \/ AcquireGiveUp(t) \/ AcquireContended(t) \/ AcquireFetchOr(t)
  \/ AcquireTake(t) \/ AcquireBlock(t) \/ TryRelease(t)
  \/ ReleaseContended(t) \/ ReleaseWake(t) \/ ReleaseUnlock(t)

MutexNext ==
  \/ \E t \in MxThreads : \/ MutexStep(t)
                          \/ AcquireFast(t) \/ AcquireMiss(t) \/ AcquireBackOff(t)
  \/ MutexDestroy

\* A thread that is running goes on, and gets the queue's lock, a fair
\* spinlock, if that is free again and again.
MutexFairness == \A t \in MxThreads : SF_mxVars(MutexStep(t))

MutexSpec == MutexInit /\ [][MutexNext]_mxVars
MutexFairSpec == MutexSpec /\ MutexFairness
-----------------------------------------------------------------------------
\* The threads that may touch what the mutex protects.
MxHolders == {t \in MxThreads : mxPc[t] = "held"}

MutexPromise == INSTANCE RwLock WITH LockThreads <- MxThreads,
                                     reading <- {}, writing <- MxHolders

\* The mutex is a lock: one thread at a time, also when fast exchanges of the
\* word fall between the steps of the thread that holds the queue's lock.
MutexImplements == MutexPromise!RwSpec

\* A blocked thread is never forgotten: while one waits the word has an owner
\* and the flag is set, so that the owner cannot release by the fast path,
\* and the owner that inherits the waiters' priorities is the one in the word.
MutexWaitersRemembered ==
  mxWaiters # <<>> /\ (\A t \in MxThreads : mxPc[t] # "wake")
    => mxOwner # MxNone /\ mxContested /\ mxBoosted = mxOwner

\* The flag is only set on a word that has an owner, except by the thread
\* about to store itself there; a thread releasing a contended mutex finds
\* in the word what it saw there before it took the queue's lock.
MutexWordConsistent ==
  /\ mxContested /\ mxOwner = MxNone => \E t \in MxThreads : mxPc[t] = "take"
  /\ \A t \in MxThreads :
       /\ mxPc[t] = "contended" => mxOwner = t /\ mxContested
       /\ mxPc[t] = "held" => mxOwner = t
       /\ mxPc[t] = "block" => mxSaw[t] \notin {MxNone, t} /\ mxSaw[t] = mxOwner

\* The destructor does not run while a releasing thread will still touch the
\* mutex, although the word already says that it is free.
MutexNotFreedInUse ==
  mxDestroyed => mxLock = MxNone /\ \A t \in MxThreads : mxPc[t] = "idle"

\* No thread stays blocked: each is again and again awake, which it only is
\* with the mutex.
MutexGranted == \A t \in MxThreads : []<>(mxPc[t] # "asleep")

\* The word and the queue agree, so that no release forgets a blocked thread.
MutexConsistent ==
  MutexTypeOK /\ MutexWordConsistent /\ MutexWaitersRemembered
=============================================================================
