---------------------------- MODULE KernelProofs ----------------------------
(***************************************************************************)
(* Theorems about Semaphore, Mutex and Suspend, for every set of threads,  *)
(* CPUs and wake sources.                                                  *)
(***************************************************************************)
EXTENDS Semaphore, Mutex, Suspend, TLAPS

(* The semaphore *)

\* What the lock-free and the locked paths know at each place.  A count seen
\* negative under the lock stays negative until the holder stores it, a count
\* seen non-negative under the lock stays so, and a compare-exchange only
\* ever succeeds on the non-negative (Post) or positive (Wait) count loaded.
PcKnows ==
  \A t \in Threads :
    /\ pc[t] = "post_cas" => old[t] >= 0
    /\ pc[t] = "wait_cas" => old[t] > 0
    /\ pc[t] = "post_add" => count >= 0
    /\ pc[t] \in {"post_reset", "post_zero"} => count < 0 /\ waitq = {}
    /\ pc[t] = "post_wake" => count < 0 /\ waitq # {}
    /\ pc[t] = "wait_block" => count < 0

\* The inductive invariant.
SemIInv == TypeOK /\ NoLostWakeup /\ PermitsConserved /\ PcKnows

\* The initial states satisfy the inductive invariant.
LEMMA SemInitIInv == Init => SemIInv
  BY ThreadsAssumption, CountAssumption, SMTT(30)
  DEF Init, SemIInv, TypeOK, NoLostWakeup, PermitsConserved, Permits, PcKnows, Pcs,
      LockedPcs

\* Every step of Post and Wait preserves the inductive invariant.
LEMMA SemNextIInv == SemIInv /\ [Next]_vars => SemIInv'
<1> SUFFICES ASSUME SemIInv, [Next]_vars PROVE SemIInv'
  BY SMTT(30)
<1> USE ThreadsAssumption, CountAssumption
    DEF SemIInv, TypeOK, NoLostWakeup, PermitsConserved, Permits, PcKnows, Pcs, LockedPcs
<1>1. ASSUME NEW t \in Threads, PostBegin(t) PROVE SemIInv'
  BY <1>1, SMTT(30) DEF PostBegin, LoadForPost
<1>2. ASSUME NEW t \in Threads, PostCas(t) PROVE SemIInv'
  BY <1>2, SMTT(30) DEF PostCas
<1>3. ASSUME NEW t \in Threads, PostCasFailed(t) PROVE SemIInv'
  BY <1>3, SMTT(30) DEF PostCasFailed, LoadForPost
<1>4. ASSUME NEW t \in Threads, PostLocked(t) PROVE SemIInv'
  BY <1>4, SMTT(30) DEF PostLocked
<1>5. ASSUME NEW t \in Threads, PostAdd(t) PROVE SemIInv'
  BY <1>5, SMTT(30) DEF PostAdd
<1>6. ASSUME NEW t \in Threads, PostReset(t) PROVE SemIInv'
  BY <1>6, SMTT(30) DEF PostReset
<1>7. ASSUME NEW t \in Threads, PostWake(t) PROVE SemIInv'
  BY <1>7, SMTT(30) DEF PostWake
<1>8. ASSUME NEW t \in Threads, PostBackoff(t) PROVE SemIInv'
  BY <1>8, SMTT(30) DEF PostBackoff
<1>9. ASSUME NEW t \in Threads, PostZero(t) PROVE SemIInv'
  BY <1>9, SMTT(30) DEF PostZero
<1>10. ASSUME NEW t \in Threads, WaitBegin(t) PROVE SemIInv'
  BY <1>10, SMTT(30) DEF WaitBegin, LoadForWait
<1>11. ASSUME NEW t \in Threads, WaitCas(t) PROVE SemIInv'
  BY <1>11, SMTT(30) DEF WaitCas
<1>12. ASSUME NEW t \in Threads, WaitCasFailed(t) PROVE SemIInv'
  BY <1>12, SMTT(30) DEF WaitCasFailed, LoadForWait
<1>13. ASSUME NEW t \in Threads, WaitLocked(t) PROVE SemIInv'
  BY <1>13, SMTT(30) DEF WaitLocked
<1>14. ASSUME NEW t \in Threads, WaitRelease(t) PROVE SemIInv'
  BY <1>14, SMTT(30) DEF WaitRelease
<1>15. ASSUME NEW t \in Threads, WaitBlock(t) PROVE SemIInv'
  BY <1>15, SMTT(30) DEF WaitBlock
<1>16. ASSUME NEW t \in Threads, WaitFailed(t) PROVE SemIInv'
  BY <1>16, SMTT(30) DEF WaitFailed
<1>17. CASE UNCHANGED vars
  BY <1>17 DEF vars
<1>18. QED
  BY <1>1, <1>2, <1>3, <1>4, <1>5, <1>6, <1>7, <1>8, <1>9, <1>10, <1>11,
     <1>12, <1>13, <1>14, <1>15, <1>16, <1>17, ZenonT(40) DEF Next, Step

\* The inductive invariant holds in every reachable state.
THEOREM SemaphoreInvariant == Spec => []SemIInv
  BY SemInitIInv, SemNextIInv, PTL DEF Spec

\* Type correctness and the lock discipline of semaphore.cc.
THEOREM SemaphoreTypeOK == Spec => []TypeOK
  BY SemaphoreInvariant, PTL DEF SemIInv

\* No thread stays queued while the count would let a Wait through.
THEOREM SemaphoreNoLostWakeup == Spec => []NoLostWakeup
  BY SemaphoreInvariant, PTL DEF SemIInv

\* Posts and successful Waits balance.
THEOREM SemaphorePermitsConserved == Spec => []PermitsConserved
  BY SemaphoreInvariant, PTL DEF SemIInv

\* The queue's lock, the queue and the count fit where the threads are, and
\* every Post is worth one successful Wait.
THEOREM SemaphoreCountsHold == Spec => []SemaphoreCounts
<1>1. SemIInv => SemaphoreCounts
  BY SMTT(30) DEF SemIInv, SemaphoreCounts
<1> QED
  BY <1>1, SemaphoreInvariant, PTL

\* Every step of the semaphore is a step of the counting semaphore or leaves
\* its permits and its blocked threads alone.
LEMMA StepRefines ==
  SemIInv /\ [Next]_vars => [Abstract!AbsNext]_(Abstract!absVars)
<1> SUFFICES ASSUME SemIInv, [Next]_vars
             PROVE [Abstract!AbsNext]_(Abstract!absVars)
  BY SMTT(30)
<1> USE DEF SemIInv, TypeOK, NoLostWakeup, PcKnows, Permits, LockedPcs, Abstract!absVars
<1>1. CASE UNCHANGED vars
  BY <1>1, SMTT(30) DEF vars
<1>2. ASSUME NEW t \in Threads,
             PostCas(t) \/ PostAdd(t) \/ PostReset(t)
      PROVE Abstract!Store
  BY <1>2, SMTT(30) DEF PostCas, PostAdd, PostReset, Abstract!Store
<1>3. ASSUME NEW t \in Threads, PostWake(t) PROVE Abstract!Admit
  BY <1>3, SMTT(30) DEF PostWake, Abstract!Admit
<1>4. ASSUME NEW t \in Threads, WaitCas(t) PROVE Abstract!Take
  BY <1>4, SMTT(30) DEF WaitCas, Abstract!Take
<1>5. ASSUME NEW t \in Threads, WaitLocked(t)
      PROVE Abstract!Take \/ UNCHANGED Abstract!absVars
  BY <1>5, SMTT(30) DEF WaitLocked, Abstract!Take
<1>6. ASSUME NEW t \in Threads, WaitBlock(t) PROVE Abstract!Block
  BY <1>6, SMTT(30) DEF WaitBlock, Abstract!Block
<1>7. ASSUME NEW t \in Threads, WaitFailed(t) PROVE Abstract!GiveUp
  BY <1>7, SMTT(30) DEF WaitFailed, Abstract!GiveUp
<1>8. ASSUME NEW t \in Threads,
             \/ PostBegin(t) \/ PostCasFailed(t) \/ PostLocked(t) \/ PostBackoff(t)
             \/ PostZero(t) \/ WaitBegin(t) \/ WaitCasFailed(t) \/ WaitRelease(t)
      PROVE UNCHANGED Abstract!absVars
  BY <1>8, SMTT(30) DEF PostBegin, PostCasFailed, PostLocked, PostBackoff, PostZero,
              WaitBegin, WaitCasFailed, WaitRelease
<1>9. QED
  BY <1>1, <1>2, <1>3, <1>4, <1>5, <1>6, <1>7, <1>8, SMTT(30)
  DEF Next, Step, Abstract!AbsNext

\* The semaphore of semaphore.cc implements the one semaphore.h describes.
THEOREM SemaphoreRefinement == Spec => Refinement
<1>1. Init => Abstract!AbsInit
  BY CountAssumption DEF Init, Permits, Abstract!AbsInit
<1>2. QED
  BY <1>1, SemaphoreInvariant, StepRefines, PTL DEF Spec, Refinement, Abstract!AbsSpec
-----------------------------------------------------------------------------
(* The mutex *)

-----------------------------------------------------------------------------
(* The inductive invariant *)

\* The queue's lock is held between taking it and letting go of it.
LockHeld ==
  \A t \in MxThreads :
    mxLock = t <=> mxPc[t] \in {"or", "take", "block", "wake", "unlock"}

\* The threads on the queue are those that sleep.
QueuedAsleep ==
  /\ \A i \in DOMAIN mxWaiters : mxPc[mxWaiters[i]] = "asleep"
  /\ \A t \in MxThreads : mxPc[t] = "asleep" => \E i \in DOMAIN mxWaiters : mxWaiters[i] = t

\* Who the word names, and what each place in the code knows of the word and
\* of the queue.
WordAt(t) ==
  /\ mxPc[t] = "held" => mxOwner = t
  /\ mxPc[t] = "contended" => mxOwner = t /\ mxContested
  /\ mxPc[t] = "or" => mxWaiters = <<>>
  /\ mxPc[t] = "take" => mxOwner = MxNone /\ mxContested /\ mxWaiters = <<>>
  /\ mxPc[t] = "block" => /\ mxSaw[t] = mxOwner /\ mxSaw[t] \notin {MxNone, t}
                          /\ mxContested
  /\ mxPc[t] = "wake" => /\ mxWaiters # <<>> /\ mxOwner = mxWaiters[1]
                         /\ mxContested = (Len(mxWaiters) > 1)

OwnerPlace ==
  mxOwner # MxNone => mxPc[mxOwner] \in {"held", "contended", "asleep"}

FlagHasOwner ==
  mxContested /\ mxOwner = MxNone => \E t \in MxThreads : mxPc[t] = "take"

MutexIInv ==
  /\ MutexTypeOK
  /\ LockHeld
  /\ QueuedAsleep
  /\ \A t \in MxThreads : WordAt(t)
  /\ OwnerPlace
  /\ FlagHasOwner
  /\ MutexWaitersRemembered
  /\ MutexNotFreedInUse

\* What the inductive invariant says of the word is what the runs check.
LEMMA IInvWord == MutexIInv => MutexWordConsistent
BY ZenonT(40) DEF MutexIInv, WordAt, FlagHasOwner, MutexWordConsistent

\* The initial state: nobody has the mutex or wants it.
LEMMA MutexInitIInv == MutexInit => MutexIInv
<1> SUFFICES ASSUME MutexInit PROVE MutexIInv
  OBVIOUS
<1> USE MxNoneAssumption DEF MutexInit
<1>1. MutexTypeOK
  <2>1. mxWaiters \in Seq(MxThreads) /\ \A i, j \in DOMAIN mxWaiters : i = j
    OBVIOUS
  <2>2. /\ mxOwner \in MxThreads \cup {MxNone} /\ mxBoosted \in MxThreads \cup {MxNone}
        /\ mxLock \in MxThreads \cup {MxNone}
        /\ mxContested \in BOOLEAN /\ mxDestroyed \in BOOLEAN
    BY ZenonT(40)
  <2> QED
    BY <2>1, <2>2, ZenonT(40) DEF MutexTypeOK
<1>2. LockHeld /\ QueuedAsleep
  BY DEF LockHeld, QueuedAsleep
<1>3. \A t \in MxThreads : WordAt(t)
  BY ZenonT(40) DEF WordAt
<1>4. OwnerPlace /\ FlagHasOwner /\ MutexWaitersRemembered /\ MutexNotFreedInUse
  BY Zenon DEF OwnerPlace, FlagHasOwner, MutexWaitersRemembered, MutexNotFreedInUse
<1> QED
  BY <1>1, <1>2, <1>3, <1>4, ZenonT(40) DEF MutexIInv

-----------------------------------------------------------------------------
(* One lemma per action *)

\* AcquireCommon's exchange: the word being free, nobody waits.
LEMMA AcquireFastKeeps ==
  ASSUME MutexIInv, NEW t \in MxThreads, AcquireFast(t) PROVE MutexIInv'
<1> USE MxNoneAssumption DEF MutexIInv, AcquireFast, MxAt, MxGoto, mxWord, mxQueue
<1>1. MutexTypeOK'
  BY ZenonT(40) DEF MutexTypeOK
<1>2. LockHeld'
  BY ZenonT(40) DEF MutexTypeOK, LockHeld
<1>3. QueuedAsleep'
  BY SMTT(30) DEF MutexTypeOK, QueuedAsleep
<1>4. \A u \in MxThreads : WordAt(u)'
  BY DEF MutexTypeOK, LockHeld, WordAt, MutexWaitersRemembered, FlagHasOwner, OwnerPlace
<1>5. OwnerPlace'
  BY ZenonT(40) DEF MutexTypeOK, OwnerPlace, WordAt
<1>6. FlagHasOwner'
  BY Zenon DEF MutexTypeOK, FlagHasOwner, WordAt, LockHeld
<1>7. MutexWaitersRemembered'
  BY ZenonT(40) DEF MutexTypeOK, MutexWaitersRemembered, WordAt, LockHeld
<1>8. MutexNotFreedInUse'
  BY Zenon DEF MutexTypeOK, MutexNotFreedInUse
<1> QED
  BY <1>1, <1>2, <1>3, <1>4, <1>5, <1>6, <1>7, <1>8, ZenonT(40)

\* The exchange fails: only the thread's place changes.
LEMMA AcquireMissKeeps ==
  ASSUME MutexIInv, NEW t \in MxThreads, AcquireMiss(t) PROVE MutexIInv'
<1> USE MxNoneAssumption DEF MutexIInv, AcquireMiss, MxAt, MxGoto, mxWord, mxQueue
<1>1. MutexTypeOK'
  BY Zenon DEF MutexTypeOK
<1>2. LockHeld'
  BY ZenonT(40) DEF MutexTypeOK, LockHeld
<1>3. QueuedAsleep'
  BY DEF MutexTypeOK, QueuedAsleep
<1>4. \A u \in MxThreads : WordAt(u)'
  BY ZenonT(40) DEF MutexTypeOK, LockHeld, WordAt, MutexWaitersRemembered,
     FlagHasOwner, OwnerPlace
<1>5. OwnerPlace'
  BY ZenonT(40) DEF MutexTypeOK, OwnerPlace, WordAt
<1>6. FlagHasOwner'
  BY ZenonT(40) DEF MutexTypeOK, FlagHasOwner, WordAt, LockHeld
<1>7. MutexWaitersRemembered'
  BY ZenonT(40) DEF MutexTypeOK, MutexWaitersRemembered, WordAt, LockHeld
<1>8. MutexNotFreedInUse'
  BY Zenon DEF MutexTypeOK, MutexNotFreedInUse
<1> QED
  BY <1>1, <1>2, <1>3, <1>4, <1>5, <1>6, <1>7, <1>8, Zenon

\* The spinning ends: only the thread's place changes.
LEMMA AcquireGiveUpKeeps ==
  ASSUME MutexIInv, NEW t \in MxThreads, AcquireGiveUp(t) PROVE MutexIInv'
<1> USE MxNoneAssumption DEF MutexIInv, AcquireGiveUp, MxAt, MxGoto, mxWord, mxQueue
<1>1. MutexTypeOK'
  BY ZenonT(40) DEF MutexTypeOK
<1>2. LockHeld'
  BY ZenonT(40) DEF MutexTypeOK, LockHeld
<1>3. QueuedAsleep'
  BY DEF MutexTypeOK, QueuedAsleep
<1>4. \A u \in MxThreads : WordAt(u)'
  BY ZenonT(40) DEF MutexTypeOK, LockHeld, WordAt, MutexWaitersRemembered,
     FlagHasOwner, OwnerPlace
<1>5. OwnerPlace'
  BY Zenon DEF MutexTypeOK, OwnerPlace, WordAt
<1>6. FlagHasOwner'
  BY ZenonT(40) DEF MutexTypeOK, FlagHasOwner, WordAt, LockHeld
<1>7. MutexWaitersRemembered'
  BY ZenonT(40) DEF MutexTypeOK, MutexWaitersRemembered, WordAt, LockHeld
<1>8. MutexNotFreedInUse'
  BY Zenon DEF MutexTypeOK, MutexNotFreedInUse
<1> QED
  BY <1>1, <1>2, <1>3, <1>4, <1>5, <1>6, <1>7, <1>8, ZenonT(40)

\* The queue's lock is taken: a flag seen under it belongs to an owner, and
\* without a flag nobody waits.
LEMMA AcquireContendedKeeps ==
  ASSUME MutexIInv, NEW t \in MxThreads, AcquireContended(t) PROVE MutexIInv'
<1> USE MxNoneAssumption DEF MutexIInv, AcquireContended, MxAt, MxGoto, mxWord, mxQueue
<1>1. MutexTypeOK'
  BY SMTT(30) DEF MutexTypeOK
<1>2. LockHeld'
  BY SMTT(30) DEF MutexTypeOK, LockHeld
<1>3. QueuedAsleep'
  BY SMTT(30) DEF MutexTypeOK, QueuedAsleep
<1>4. \A u \in MxThreads : WordAt(u)'
  BY DEF MutexTypeOK, LockHeld, WordAt, MutexWaitersRemembered, FlagHasOwner, OwnerPlace
<1>5. OwnerPlace'
  BY ZenonT(40) DEF MutexTypeOK, OwnerPlace, WordAt
<1>6. FlagHasOwner'
  BY ZenonT(40) DEF MutexTypeOK, FlagHasOwner, WordAt, LockHeld
<1>7. MutexWaitersRemembered'
  BY ZenonT(40) DEF MutexTypeOK, MutexWaitersRemembered, WordAt, LockHeld
<1>8. MutexNotFreedInUse'
  BY Zenon DEF MutexTypeOK, MutexNotFreedInUse
<1> QED
  BY <1>1, <1>2, <1>3, <1>4, <1>5, <1>6, <1>7, <1>8, ZenonT(40)

\* The flag is set; the owner it is set for is not the thread itself.
LEMMA AcquireFetchOrKeeps ==
  ASSUME MutexIInv, NEW t \in MxThreads, AcquireFetchOr(t) PROVE MutexIInv'
<1> USE MxNoneAssumption DEF MutexIInv, AcquireFetchOr, MxAt, MxGoto, mxWord, mxQueue
<1>1. MutexTypeOK'
  BY SMTT(30) DEF MutexTypeOK
<1>2. LockHeld'
  BY SMTT(30) DEF MutexTypeOK, LockHeld
<1>3. QueuedAsleep'
  BY DEF MutexTypeOK, QueuedAsleep
<1>4. \A u \in MxThreads : WordAt(u)'
  BY ZenonT(120) DEF MutexTypeOK, LockHeld, WordAt, MutexWaitersRemembered,
     FlagHasOwner, OwnerPlace
<1>5. OwnerPlace'
  BY ZenonT(40) DEF MutexTypeOK, OwnerPlace, WordAt
<1>6. FlagHasOwner'
  BY ZenonT(40) DEF MutexTypeOK, FlagHasOwner, WordAt, LockHeld
<1>7. MutexWaitersRemembered'
  BY Zenon DEF MutexTypeOK, MutexWaitersRemembered, WordAt, LockHeld
<1>8. MutexNotFreedInUse'
  BY Zenon DEF MutexTypeOK, MutexNotFreedInUse
<1> QED
  BY <1>1, <1>2, <1>3, <1>4, <1>5, <1>6, <1>7, <1>8, ZenonT(40)

\* The plain store overwrites nothing: the word was still free.
LEMMA AcquireTakeKeeps ==
  ASSUME MutexIInv, NEW t \in MxThreads, AcquireTake(t) PROVE MutexIInv'
<1> USE MxNoneAssumption DEF MutexIInv, AcquireTake, MxAt, MxGoto, mxWord, mxQueue
<1>1. MutexTypeOK'
  BY Zenon DEF MutexTypeOK
<1>2. LockHeld'
  BY ZenonT(40) DEF MutexTypeOK, LockHeld
<1>3. QueuedAsleep'
  BY DEF MutexTypeOK, QueuedAsleep
<1>4. \A u \in MxThreads : WordAt(u)'
  BY ZenonT(40) DEF MutexTypeOK, LockHeld, WordAt, MutexWaitersRemembered,
     FlagHasOwner, OwnerPlace
<1>5. OwnerPlace'
  BY Zenon DEF MutexTypeOK, OwnerPlace, WordAt
<1>6. FlagHasOwner'
  BY Zenon DEF MutexTypeOK, FlagHasOwner, WordAt, LockHeld
<1>7. MutexWaitersRemembered'
  BY Zenon DEF MutexTypeOK, MutexWaitersRemembered, WordAt, LockHeld
<1>8. MutexNotFreedInUse'
  BY Zenon DEF MutexTypeOK, MutexNotFreedInUse
<1> QED
  BY <1>1, <1>2, <1>3, <1>4, <1>5, <1>6, <1>7, <1>8, Zenon

\* The thread joins the queue: it was not on it, and its owner is the word's.
LEMMA AcquireBlockKeeps ==
  ASSUME MutexIInv, NEW t \in MxThreads, AcquireBlock(t) PROVE MutexIInv'
<1> USE MxNoneAssumption DEF MutexIInv, AcquireBlock, MxAt, MxGoto, mxWord, mxQueue
<1>1. MutexTypeOK'
  <2>1. /\ mxWaiters' \in Seq(MxThreads) /\ DOMAIN mxWaiters' = 1..(Len(mxWaiters) + 1)
        /\ \A i \in 1..Len(mxWaiters) : mxWaiters'[i] = mxWaiters[i]
        /\ mxWaiters'[Len(mxWaiters) + 1] = t
    BY SMTT(30) DEF MutexTypeOK
  <2>2. \A i \in 1..Len(mxWaiters) : mxWaiters[i] # t
    BY SMTT(30) DEF MutexTypeOK, QueuedAsleep
  <2>3. \A i, j \in DOMAIN mxWaiters' : mxWaiters'[i] = mxWaiters'[j] => i = j
    BY <2>1, <2>2, SMTT(30) DEF MutexTypeOK
  <2> QED
    BY <2>1, <2>3, ZenonT(40) DEF MutexTypeOK
<1>2. LockHeld'
  BY ZenonT(40) DEF MutexTypeOK, LockHeld
<1>3. QueuedAsleep'
  BY SMTT(30) DEF MutexTypeOK, QueuedAsleep
<1>4. \A u \in MxThreads : WordAt(u)'
  BY ZenonT(40) DEF MutexTypeOK, LockHeld, WordAt, MutexWaitersRemembered,
     FlagHasOwner, OwnerPlace
<1>5. OwnerPlace'
  BY ZenonT(40) DEF MutexTypeOK, OwnerPlace, WordAt
<1>6. FlagHasOwner'
  BY Zenon DEF MutexTypeOK, FlagHasOwner, WordAt, LockHeld
<1>7. MutexWaitersRemembered'
  BY Zenon DEF MutexTypeOK, MutexWaitersRemembered, WordAt, LockHeld
<1>8. MutexNotFreedInUse'
  BY Zenon DEF MutexTypeOK, MutexNotFreedInUse
<1> QED
  BY <1>1, <1>2, <1>3, <1>4, <1>5, <1>6, <1>7, <1>8, Zenon

\* The lock is dropped and the flag stays; it still has its owner.
LEMMA AcquireBackOffKeeps ==
  ASSUME MutexIInv, NEW t \in MxThreads, AcquireBackOff(t) PROVE MutexIInv'
<1> USE MxNoneAssumption DEF MutexIInv, AcquireBackOff, MxAt, MxGoto, mxWord, mxQueue
<1>1. MutexTypeOK'
  BY Zenon DEF MutexTypeOK
<1>2. LockHeld'
  BY ZenonT(40) DEF MutexTypeOK, LockHeld
<1>3. QueuedAsleep'
  BY SMTT(30) DEF MutexTypeOK, QueuedAsleep
<1>4. \A u \in MxThreads : WordAt(u)'
  BY DEF MutexTypeOK, LockHeld, WordAt, MutexWaitersRemembered, FlagHasOwner, OwnerPlace
<1>5. OwnerPlace'
  BY Zenon DEF MutexTypeOK, OwnerPlace, WordAt
<1>6. FlagHasOwner'
  BY Zenon DEF MutexTypeOK, FlagHasOwner, WordAt, LockHeld
<1>7. MutexWaitersRemembered'
  BY ZenonT(40) DEF MutexTypeOK, MutexWaitersRemembered, WordAt, LockHeld
<1>8. MutexNotFreedInUse'
  BY Zenon DEF MutexTypeOK, MutexNotFreedInUse
<1> QED
  BY <1>1, <1>2, <1>3, <1>4, <1>5, <1>6, <1>7, <1>8, ZenonT(40)

\* The fast release: without the flag nobody waits.
LEMMA TryReleaseKeeps ==
  ASSUME MutexIInv, NEW t \in MxThreads, TryRelease(t) PROVE MutexIInv'
<1> USE MxNoneAssumption DEF MutexIInv, TryRelease, MxAt, MxGoto, mxWord, mxQueue
<1>1. MutexTypeOK'
  BY ZenonT(40) DEF MutexTypeOK
<1>2. LockHeld'
  BY SMTT(30) DEF MutexTypeOK, LockHeld
<1>3. QueuedAsleep'
  BY SMTT(30) DEF MutexTypeOK, QueuedAsleep
<1>4. \A u \in MxThreads : WordAt(u)'
  BY SMTT(30) DEF MutexTypeOK, QueuedAsleep, WordAt
<1>5. OwnerPlace'
  BY SMTT(30) DEF MutexTypeOK, OwnerPlace, WordAt
<1>6. FlagHasOwner'
  BY ZenonT(40) DEF MutexTypeOK, FlagHasOwner, WordAt, LockHeld
<1>7. MutexWaitersRemembered'
  BY DEF MutexTypeOK, MutexWaitersRemembered, WordAt, LockHeld
<1>8. MutexNotFreedInUse'
  BY Zenon DEF MutexTypeOK, MutexNotFreedInUse
<1> QED
  BY <1>1, <1>2, <1>3, <1>4, <1>5, <1>6, <1>7, <1>8, ZenonT(40)

\* The word is given to the first waiter.
LEMMA ReleaseContendedKeeps ==
  ASSUME MutexIInv, NEW t \in MxThreads, ReleaseContended(t) PROVE MutexIInv'
<1> USE MxNoneAssumption DEF MutexIInv, ReleaseContended, MxAt, MxGoto, mxWord, mxQueue
<1>0. mxWaiters # <<>> => /\ Head(mxWaiters) \in MxThreads \ {t, MxNone}
                          /\ Head(mxWaiters) = mxWaiters[1]
                          /\ mxPc[Head(mxWaiters)] = "asleep"
  BY DEF MutexTypeOK, QueuedAsleep
<1>1. MutexTypeOK'
  <2>1. CASE mxWaiters = <<>>
    BY <2>1, ZenonT(40) DEF MutexTypeOK
  <2>2. CASE mxWaiters # <<>>
    <3>1. mxContested' = TRUE \/ mxContested' = FALSE
      BY <2>2, SMTT(30)
    <3> QED
      BY <1>0, <2>2, <3>1, ZenonT(40) DEF MutexTypeOK
  <2> QED
    BY <2>1, <2>2, ZenonT(40)
<1>2. LockHeld'
  BY SMTT(30) DEF MutexTypeOK, LockHeld
<1>3. QueuedAsleep'
  BY SMTT(30) DEF MutexTypeOK, QueuedAsleep
<1>4. \A u \in MxThreads : WordAt(u)'
  BY SMTT(30) DEF MutexTypeOK, LockHeld, WordAt, MutexWaitersRemembered, FlagHasOwner,
     OwnerPlace
<1>5. OwnerPlace'
  BY <1>0, SMTT(30) DEF MutexTypeOK, OwnerPlace
<1>6. FlagHasOwner'
  BY <1>0, ZenonT(40) DEF FlagHasOwner
<1>7. MutexWaitersRemembered'
  BY SMTT(30) DEF MutexTypeOK, MutexWaitersRemembered, WordAt, LockHeld
<1>8. MutexNotFreedInUse'
  BY ZenonT(40) DEF MutexTypeOK, MutexNotFreedInUse
<1> QED
  BY <1>1, <1>2, <1>3, <1>4, <1>5, <1>6, <1>7, <1>8, ZenonT(40)

\* The first waiter leaves the queue and holds the mutex.
LEMMA ReleaseWakeKeeps ==
  ASSUME MutexIInv, NEW t \in MxThreads, ReleaseWake(t) PROVE MutexIInv'
<1> USE MxNoneAssumption DEF MutexIInv, ReleaseWake, MxAt, MxGoto, mxWord, mxQueue
<1>0. /\ mxWaiters # <<>> /\ Head(mxWaiters) = mxWaiters[1]
      /\ mxWaiters[1] \in MxThreads \ {t} /\ mxPc[mxWaiters[1]] = "asleep"
      /\ mxWaiters' \in Seq(MxThreads) /\ DOMAIN mxWaiters' = 1..(Len(mxWaiters) - 1)
      /\ \A i \in 1..(Len(mxWaiters) - 1) : mxWaiters'[i] = mxWaiters[i + 1]
  BY DEF MutexTypeOK, QueuedAsleep, WordAt
<1>1. MutexTypeOK'
  <2>1. \A i, j \in DOMAIN mxWaiters' : mxWaiters'[i] = mxWaiters'[j] => i = j
    BY <1>0, SMTT(30) DEF MutexTypeOK
  <2> QED
    BY <1>0, <2>1, ZenonT(40) DEF MutexTypeOK
<1>2. LockHeld'
  BY DEF MutexTypeOK, LockHeld
<1>3. QueuedAsleep'
  <2>1. \A i \in DOMAIN mxWaiters' : mxPc'[mxWaiters'[i]] = "asleep"
    BY <1>0, SMTT(30) DEF MutexTypeOK, QueuedAsleep
  <2>2. ASSUME NEW u \in MxThreads, mxPc'[u] = "asleep"
        PROVE  \E i \in DOMAIN mxWaiters' : mxWaiters'[i] = u
    <3>1. PICK k \in DOMAIN mxWaiters : mxWaiters[k] = u
      BY <2>2, <1>0, SMTT(30) DEF MutexTypeOK, QueuedAsleep
    <3>2. k # 1 /\ k \in 1..Len(mxWaiters) /\ Len(mxWaiters) \in Nat
      BY <2>2, <3>1, <1>0, SMTT(30) DEF MutexTypeOK
    <3>3. k - 1 \in DOMAIN mxWaiters' /\ mxWaiters'[k - 1] = mxWaiters[(k - 1) + 1]
      BY <3>2, <1>0, SMTT(30)
    <3>4. (k - 1) + 1 = k
      BY <3>2, SMTT(30)
    <3> QED
      BY <3>1, <3>3, <3>4, ZenonT(40)
  <2> QED
    BY <2>1, <2>2, ZenonT(40) DEF QueuedAsleep
<1>4. \A u \in MxThreads : WordAt(u)'
  BY SMTT(30) DEF MutexTypeOK, LockHeld, WordAt, MutexWaitersRemembered, FlagHasOwner,
     OwnerPlace
<1>5. OwnerPlace'
  BY ZenonT(40) DEF MutexTypeOK, OwnerPlace, WordAt
<1>6. FlagHasOwner'
  BY ZenonT(40) DEF MutexTypeOK, FlagHasOwner, WordAt, LockHeld
<1>7. MutexWaitersRemembered'
  BY DEF MutexTypeOK, MutexWaitersRemembered, WordAt, LockHeld
<1>8. MutexNotFreedInUse'
  BY Zenon DEF MutexTypeOK, MutexNotFreedInUse
<1> QED
  BY <1>1, <1>2, <1>3, <1>4, <1>5, <1>6, <1>7, <1>8, ZenonT(40)

\* The releasing thread drops the queue's lock.
LEMMA ReleaseUnlockKeeps ==
  ASSUME MutexIInv, NEW t \in MxThreads, ReleaseUnlock(t) PROVE MutexIInv'
<1> USE MxNoneAssumption DEF MutexIInv, ReleaseUnlock, MxAt, MxGoto, mxWord, mxQueue
<1>1. MutexTypeOK'
  BY ZenonT(40) DEF MutexTypeOK
<1>2. LockHeld'
  BY ZenonT(40) DEF MutexTypeOK, LockHeld
<1>3. QueuedAsleep'
  BY SMTT(30) DEF MutexTypeOK, QueuedAsleep
<1>4. \A u \in MxThreads : WordAt(u)'
  BY ZenonT(40) DEF MutexTypeOK, LockHeld, WordAt, MutexWaitersRemembered,
     FlagHasOwner, OwnerPlace
<1>5. OwnerPlace'
  BY Zenon DEF MutexTypeOK, OwnerPlace, WordAt
<1>6. FlagHasOwner'
  BY Zenon DEF MutexTypeOK, FlagHasOwner, WordAt, LockHeld
<1>7. MutexWaitersRemembered'
  BY ZenonT(40) DEF MutexTypeOK, MutexWaitersRemembered, WordAt, LockHeld
<1>8. MutexNotFreedInUse'
  BY ZenonT(40) DEF MutexTypeOK, MutexNotFreedInUse
<1> QED
  BY <1>1, <1>2, <1>3, <1>4, <1>5, <1>6, <1>7, <1>8, ZenonT(40)

\* The destructor: the lock being free, nobody is on the way out.
LEMMA DestroyKeeps ==
  ASSUME MutexIInv, MutexDestroy PROVE MutexIInv'
<1> USE MxNoneAssumption DEF MutexIInv, MutexDestroy, mxWord, mxQueue
<1>1. MutexTypeOK' /\ LockHeld' /\ QueuedAsleep'
  BY ZenonT(40) DEF MutexTypeOK, LockHeld, QueuedAsleep
<1>2. (\A u \in MxThreads : WordAt(u)') /\ OwnerPlace' /\ FlagHasOwner'
  BY ZenonT(40) DEF WordAt, OwnerPlace, FlagHasOwner
<1>3. MutexWaitersRemembered'
  BY ZenonT(40) DEF MutexWaitersRemembered
<1>4. MutexNotFreedInUse'
  BY Zenon DEF MutexNotFreedInUse, LockHeld
<1> QED
  BY <1>1, <1>2, <1>3, <1>4, ZenonT(40)

-----------------------------------------------------------------------------
(* Theorems *)

\* Every step of the mutex, by any thread, keeps the inductive invariant.
LEMMA MutexNextKeeps == MutexIInv /\ [MutexNext]_mxVars => MutexIInv'
<1> SUFFICES ASSUME MutexIInv, [MutexNext]_mxVars PROVE MutexIInv'
  OBVIOUS
<1>1. ASSUME NEW t \in MxThreads,
             MutexStep(t) \/ AcquireFast(t) \/ AcquireMiss(t) \/ AcquireBackOff(t)
      PROVE  MutexIInv'
  BY <1>1, AcquireFastKeeps, AcquireMissKeeps, AcquireGiveUpKeeps, AcquireContendedKeeps,
     AcquireFetchOrKeeps, AcquireTakeKeeps, AcquireBlockKeeps, AcquireBackOffKeeps,
     TryReleaseKeeps, ReleaseContendedKeeps, ReleaseWakeKeeps, ReleaseUnlockKeeps,
     ZenonT(40)
     DEF MutexStep
<1>2. CASE MutexDestroy
  BY <1>2, DestroyKeeps, ZenonT(40)
<1>3. CASE UNCHANGED mxVars
  BY <1>3, SMTT(30) DEF mxVars, MutexIInv, MutexTypeOK, LockHeld, QueuedAsleep, WordAt,
     OwnerPlace,
     FlagHasOwner, MutexWaitersRemembered, MutexNotFreedInUse
<1> QED
  BY <1>1, <1>2, <1>3, ZenonT(40) DEF MutexNext

\* The inductive invariant holds for any set of threads.
THEOREM MutexInvariant == MutexSpec => []MutexIInv
<1>1. MutexInit => MutexIInv
  BY MutexInitIInv, ZenonT(40)
<1>2. MutexIInv /\ [MutexNext]_mxVars => MutexIInv'
  BY MutexNextKeeps, ZenonT(40)
<1> QED
  BY <1>1, <1>2, PTL DEF MutexSpec

\* The word agrees with where every thread is: the flag has an owner, and a
\* thread releasing a contended mutex finds itself in the word.
THEOREM MutexWord == MutexSpec => []MutexWordConsistent
BY MutexInvariant, IInvWord, PTL

\* A blocked thread is never forgotten, and its priority is inherited by the
\* owner that the word names.
THEOREM MutexRemembers == MutexSpec => []MutexWaitersRemembered
<1>1. MutexIInv => MutexWaitersRemembered
  BY ZenonT(40) DEF MutexIInv
<1> QED
  BY <1>1, MutexInvariant, PTL

\* The word, the blocked threads and the places of all threads in mutex.cc fit
\* together.
THEOREM MutexConsistentHolds == MutexSpec => []MutexConsistent
<1>1. MutexIInv => MutexConsistent
  BY IInvWord, ZenonT(40) DEF MutexIInv, MutexConsistent
<1> QED
  BY <1>1, MutexInvariant, PTL

\* The destructor never runs while a releasing thread will still touch the
\* mutex.
THEOREM MutexFreedUnused == MutexSpec => []MutexNotFreedInUse
<1>1. MutexIInv => MutexNotFreedInUse
  BY Zenon DEF MutexIInv
<1> QED
  BY <1>1, MutexInvariant, PTL

\* Who holds the mutex changes only as a lock allows.
LEMMA StepImplements ==
  MutexIInv /\ [MutexNext]_mxVars => [MutexPromise!RwNext]_<<{}, MxHolders>>
<1> SUFFICES ASSUME MutexIInv, [MutexNext]_mxVars
             PROVE  MutexPromise!RwNext \/ UNCHANGED <<{}, MxHolders>>
  OBVIOUS
<1> USE MxNoneAssumption
<1>0. MutexTypeOK /\ QueuedAsleep /\ \A u \in MxThreads : WordAt(u)
  BY ZenonT(40) DEF MutexIInv
\* A thread gets the mutex that nobody holds.
<1>1. ASSUME NEW u \in MxThreads, MxHolders = {}, MxHolders' = {u}
      PROVE  MutexPromise!RwNext
  BY <1>1, ZenonT(40) DEF MutexPromise!RwNext, MutexPromise!GrantWriter
<1>2. ASSUME MxHolders' = MxHolders PROVE UNCHANGED <<{}, MxHolders>>
  BY <1>2, ZenonT(40)
<1>3. ASSUME NEW t \in MxThreads,
             mxPc[t] # "held",
             NEW p \in {"spin", "queue", "or", "take", "block", "asleep", "unlock",
                        "wake", "idle"},
             MxGoto(t, p)
      PROVE  MxHolders' = MxHolders
  BY <1>0, <1>3, ZenonT(40) DEF MutexTypeOK, MxGoto, MxHolders
<1>4. ASSUME NEW t \in MxThreads, AcquireFast(t) \/ AcquireTake(t)
      PROVE  MutexPromise!RwNext
  <2>1. MxHolders = {} /\ MxHolders' = {t}
    BY <1>0, <1>4, SMTT(30) DEF MutexTypeOK, WordAt, AcquireFast, AcquireTake, MxAt,
       MxGoto,
       MxHolders
  <2> QED
    BY <1>1, <2>1, ZenonT(40)
<1>5. ASSUME NEW t \in MxThreads, ReleaseWake(t) PROVE MutexPromise!RwNext
  <2>1. Head(mxWaiters) \in MxThreads /\ mxPc[Head(mxWaiters)] = "asleep"
        /\ mxOwner = Head(mxWaiters)
    BY <1>0, <1>5, SMTT(30) DEF MutexTypeOK, QueuedAsleep, WordAt, ReleaseWake, MxAt
  <2>2. MxHolders = {} /\ MxHolders' = {Head(mxWaiters)}
    BY <1>0, <1>5, <2>1, SMTT(30) DEF MutexTypeOK, WordAt, ReleaseWake, MxAt, MxHolders
  <2> QED
    BY <1>1, <2>1, <2>2, ZenonT(40)
<1>6. ASSUME NEW t \in MxThreads, TryRelease(t) PROVE MutexPromise!RwNext
  <2>1. t \in MxHolders /\ MxHolders' = MxHolders \ {t}
    BY <1>0, <1>6, ZenonT(40) DEF MutexTypeOK, TryRelease, MxAt, MxGoto, MxHolders
  <2> QED
    BY <2>1, ZenonT(40) DEF MutexPromise!RwNext, MutexPromise!LetGo
<1>7. ASSUME NEW t \in MxThreads,
             \/ AcquireMiss(t) \/ AcquireGiveUp(t) \/ AcquireContended(t)
             \/ AcquireFetchOr(t) \/ AcquireBlock(t) \/ AcquireBackOff(t)
             \/ ReleaseContended(t) \/ ReleaseUnlock(t)
      PROVE  MxHolders' = MxHolders
  BY <1>3, <1>7, ZenonT(40) DEF AcquireMiss, AcquireGiveUp, AcquireContended,
     AcquireFetchOr,
     AcquireBlock, AcquireBackOff, ReleaseContended, ReleaseUnlock, MxAt
<1>8. CASE MutexDestroy \/ UNCHANGED mxVars
  BY <1>2, <1>8, ZenonT(40) DEF MutexDestroy, mxVars, MxHolders
<1> QED
  BY <1>2, <1>4, <1>5, <1>6, <1>7, <1>8, ZenonT(40) DEF MutexNext, MutexStep

\* The mutex is a lock: whatever steps of other threads, fast exchanges of
\* the word included, fall between its own, it implements RwLock.
THEOREM MutexIsLock == MutexSpec => MutexImplements
<1>1. MutexInit => MutexPromise!RwInit
  BY Zenon DEF MutexInit, MutexPromise!RwInit, MxHolders
<1>2. MutexIInv /\ [MutexNext]_mxVars => [MutexPromise!RwNext]_<<{}, MxHolders>>
  BY StepImplements, ZenonT(40)
<1> QED
  BY <1>1, <1>2, MutexInvariant, PTL DEF MutexSpec, MutexImplements, MutexPromise!RwSpec
-----------------------------------------------------------------------------
(* System suspend *)

-----------------------------------------------------------------------------
(* The inductive invariants *)

\* How far a secondary CPU that is not late has got, by the place of the
\* suspending thread.
SecondaryAt(c) ==
  c \notin late =>
    /\ spc = "idle" => power[c] = kActive
    /\ spc \in {"pick", "wait", "boot", "boot_wait", "boot_done"} =>
         IF c \notin toSuspend THEN power[c] = kSuspend
         ELSE ~(spc = "wait" /\ c = scpu) => power[c] = kActive
    /\ spc \in {"resume", "resume_wait"} =>
         IF c \notin toResume THEN power[c] = kActive
         ELSE ~(spc = "resume_wait" /\ c = scpu) => power[c] = kSuspend

\* The sets of CPUs agree with that place, and the CPU waited for is on its
\* way: its wait is never canceled.
SetsAt ==
  /\ spc \in {"pick", "wait", "boot", "boot_wait", "boot_done"} => toResume = Secondary
  /\ spc \in {"boot", "boot_wait", "boot_done"} => toSuspend = {}
  /\ spc = "wait" => scpu \in toSuspend /\ power[scpu] \in {kActiveToSuspend, kSuspend}
  /\ spc = "resume_wait" => scpu \in toResume /\ power[scpu] \in {kSuspendToActive, kActive}

\* The boot CPU is only put to sleep, and only waited for, in one place.
BootAt ==
  /\ power[Boot] \in {kActive, kActiveToSuspend, kSuspend, kSuspendToWakeup, kWakeup}
  /\ spc # "boot_wait" => power[Boot] \in {kActive, kWakeup}
  /\ spc = "boot_wait" => power[Boot] # kActive
  /\ spc = "boot_done" => startState \in {"Wakeup", "timed_out"}

SuspendIInv ==
  /\ SuspendTypeOK
  /\ suspendedBit <=> spc # "idle"
  /\ SetsAt
  /\ BootAt
  /\ \A c \in Secondary : SecondaryAt(c)

\* The initial state: nothing suspended.
LEMMA SuspendInitIInv == SuspendInit => SuspendIInv
<1> SUFFICES ASSUME SuspendInit PROVE SuspendIInv
  OBVIOUS
<1> USE BootAssumption DEF SuspendInit
<1>1. SuspendTypeOK
  <2>1. suspendedBit \in BOOLEAN /\ timer \in BOOLEAN /\ complete \in [Cpus -> BOOLEAN]
    BY ZenonT(40)
  <2>2. /\ wakeCount \in Int
        /\ power \in [Cpus -> PowerStates]
        /\ idleState \in [Cpus -> PowerStates \cup {<<>>}]
        /\ wseen \in [Sources -> PowerStates]
        /\ wpc \in [Sources -> WakerPcs]
    BY SMTT(30) DEF PowerStates, WakerPcs
  <2> QED
    BY <2>1, <2>2, ZenonT(40) DEF SuspendTypeOK, SuspenderPcs, Cpus
<1>2. SetsAt /\ BootAt /\ \A c \in Secondary : SecondaryAt(c)
  BY ZenonT(40) DEF SetsAt, BootAt, SecondaryAt, Cpus
<1> QED
  BY <1>1, <1>2, ZenonT(40) DEF SuspendIInv

-----------------------------------------------------------------------------
(* One lemma per group of actions *)

\* The idle thread loads its state.
LEMMA IdleLoadKeeps ==
  ASSUME SuspendIInv, NEW c \in Cpus, IdleLoad(c) PROVE SuspendIInv'
<1> USE BootAssumption
    DEF SuspendIInv, Cpus, IdleLoad
<1>1. SuspendTypeOK'
  BY ZenonT(40) DEF SuspendTypeOK, PowerStates, SuspenderPcs, WakerPcs, kActive,
     kActiveToSuspend, kSuspend, kSuspendToWakeup, kWakeup, kSuspendToActive
<1>2. suspendedBit' <=> spc' # "idle"
  BY Zenon DEF SuspendTypeOK
<1>3. SetsAt'
  BY Zenon DEF SuspendTypeOK, SetsAt, kActive, kActiveToSuspend, kSuspend,
     kSuspendToWakeup, kWakeup, kSuspendToActive
<1>4. BootAt'
  BY ZenonT(40) DEF SuspendTypeOK, BootAt, SetsAt, kActive, kActiveToSuspend, kSuspend,
     kSuspendToWakeup, kWakeup, kSuspendToActive
<1>5. \A d \in Secondary : SecondaryAt(d)'
  BY ZenonT(40) DEF SuspendTypeOK, SetsAt, SecondaryAt, kActive, kActiveToSuspend,
     kSuspend,
     kSuspendToWakeup, kWakeup, kSuspendToActive
<1> QED
  BY <1>1, <1>2, <1>3, <1>4, <1>5, ZenonT(40)

\* The idle thread ends the transition that it loaded.
LEMMA IdleCompleteKeeps ==
  ASSUME SuspendIInv, NEW c \in Cpus, IdleComplete(c) PROVE SuspendIInv'
<1> USE BootAssumption
    DEF SuspendIInv, Cpus, IdleComplete
<1>1. SuspendTypeOK'
  BY DEF SuspendTypeOK, PowerStates, SuspenderPcs, WakerPcs, kActive, kActiveToSuspend,
     kSuspend, kSuspendToWakeup, kWakeup, kSuspendToActive
<1>2. suspendedBit' <=> spc' # "idle"
  BY ZenonT(40) DEF SuspendTypeOK
<1>3. SetsAt'
  BY SMTT(60) DEF SuspendTypeOK, SetsAt, kActive, kActiveToSuspend, kSuspend,
     kSuspendToWakeup, kWakeup, kSuspendToActive
<1>4. BootAt'
  BY SMTT(30) DEF SuspendTypeOK, BootAt, SetsAt, kActive, kActiveToSuspend, kSuspend,
     kSuspendToWakeup, kWakeup, kSuspendToActive
<1>5. \A d \in Secondary : SecondaryAt(d)'
  BY SMTT(30) DEF SuspendTypeOK, SetsAt, SecondaryAt, kActive, kActiveToSuspend, kSuspend,
     kSuspendToWakeup, kWakeup, kSuspendToActive
<1> QED
  BY <1>1, <1>2, <1>3, <1>4, <1>5, ZenonT(40)

\* The idle thread signals.
LEMMA IdleSignalKeeps ==
  ASSUME SuspendIInv, NEW c \in Cpus, IdleSignal(c) PROVE SuspendIInv'
<1> USE BootAssumption
    DEF SuspendIInv, Cpus, IdleSignal
<1>1. SuspendTypeOK'
  BY ZenonT(40) DEF SuspendTypeOK, PowerStates, SuspenderPcs, WakerPcs, kActive,
     kActiveToSuspend, kSuspend, kSuspendToWakeup, kWakeup, kSuspendToActive
<1>2. suspendedBit' <=> spc' # "idle"
  BY Zenon DEF SuspendTypeOK
<1>3. SetsAt'
  BY Zenon DEF SuspendTypeOK, SetsAt, kActive, kActiveToSuspend, kSuspend,
     kSuspendToWakeup, kWakeup, kSuspendToActive
<1>4. BootAt'
  BY ZenonT(40) DEF SuspendTypeOK, BootAt, SetsAt, kActive, kActiveToSuspend, kSuspend,
     kSuspendToWakeup, kWakeup, kSuspendToActive
<1>5. \A d \in Secondary : SecondaryAt(d)'
  BY ZenonT(40) DEF SuspendTypeOK, SetsAt, SecondaryAt, kActive, kActiveToSuspend,
     kSuspend,
     kSuspendToWakeup, kWakeup, kSuspendToActive
<1> QED
  BY <1>1, <1>2, <1>3, <1>4, <1>5, ZenonT(40)

\* The call begins: all secondary CPUs are to be suspended and resumed.
LEMMA BeginSuspendKeeps ==
  ASSUME SuspendIInv, BeginSuspend PROVE SuspendIInv'
<1> USE BootAssumption
    DEF SuspendIInv, Cpus, BeginSuspend
<1>1. SuspendTypeOK'
  BY Zenon DEF SuspendTypeOK, PowerStates, SuspenderPcs, WakerPcs, kActive,
     kActiveToSuspend, kSuspend, kSuspendToWakeup, kWakeup, kSuspendToActive
<1>2. suspendedBit' <=> spc' # "idle"
  BY ZenonT(40) DEF SuspendTypeOK
<1>3. SetsAt'
  <2>1. toResume' = Secondary
    BY ZenonT(40) DEF SecondaryAt
  <2> QED
    BY <2>1, ZenonT(40) DEF SetsAt
<1>4. BootAt'
  BY ZenonT(40) DEF SuspendTypeOK, BootAt, SetsAt, kActive, kActiveToSuspend, kSuspend,
     kSuspendToWakeup, kWakeup, kSuspendToActive
<1>5. \A d \in Secondary : SecondaryAt(d)'
  BY ZenonT(40) DEF SuspendTypeOK, SetsAt, SecondaryAt, kActive, kActiveToSuspend,
     kSuspend,
     kSuspendToWakeup, kWakeup, kSuspendToActive
<1> QED
  BY <1>1, <1>2, <1>3, <1>4, <1>5, ZenonT(40)

\* The secondary CPUs are suspended one by one, until one is given up on.
LEMMA SuspendSecondaryKeeps ==
  ASSUME SuspendIInv, SuspendSecondary PROVE SuspendIInv'
<1> USE BootAssumption
    DEF SuspendIInv, Cpus, SuspendSecondary, StartTransition, FinishTransition,
        FindState, TransitionTimeout, AbortSuspend, suspRest, SuspenderRuns,
        PendingPowerWork
<1>1. SuspendTypeOK'
  <2>1. power' \in [Cpus -> PowerStates]
    BY SMTT(30) DEF SuspendTypeOK, PowerStates, kActiveToSuspend
  <2>2. complete' \in [Cpus -> BOOLEAN]
    BY ZenonT(40) DEF SuspendTypeOK
  <2>3. /\ spc' \in SuspenderPcs /\ scpu' \in Cpus
        /\ toSuspend' \subseteq Secondary /\ toResume' \subseteq Secondary
        /\ late' \subseteq Secondary
    BY SMTT(30) DEF SuspendTypeOK, SuspenderPcs, SetsAt
  <2>4. suspRest' = suspRest /\ startState' = startState
    BY ZenonT(40)
  <2> QED
    BY <2>1, <2>2, <2>3, <2>4, ZenonT(40) DEF SuspendTypeOK
<1>2. suspendedBit' <=> spc' # "idle"
  BY Zenon DEF SuspendTypeOK
<1>3. SetsAt'
  BY ZenonT(120) DEF SuspendTypeOK, SetsAt, kActive, kActiveToSuspend, kSuspend,
     kSuspendToWakeup, kWakeup, kSuspendToActive
<1>4. BootAt'
  BY DEF SuspendTypeOK, BootAt, SetsAt, kActive, kActiveToSuspend, kSuspend,
     kSuspendToWakeup, kWakeup, kSuspendToActive
<1>5. \A d \in Secondary : SecondaryAt(d)'
  BY SMTT(30) DEF SuspendTypeOK, SetsAt, SecondaryAt, kActive, kActiveToSuspend, kSuspend,
     kSuspendToWakeup, kWakeup, kSuspendToActive
<1> QED
  BY <1>1, <1>2, <1>3, <1>4, <1>5, ZenonT(40)

\* The secondary CPUs are all suspended.
LEMMA SetResumeTimerKeeps ==
  ASSUME SuspendIInv, SetResumeTimer PROVE SuspendIInv'
<1> USE BootAssumption
    DEF SuspendIInv, Cpus, SetResumeTimer
<1>1. SuspendTypeOK'
  BY Zenon DEF SuspendTypeOK, PowerStates, SuspenderPcs, WakerPcs, kActive,
     kActiveToSuspend, kSuspend, kSuspendToWakeup, kWakeup, kSuspendToActive
<1>2. suspendedBit' <=> spc' # "idle"
  BY ZenonT(40) DEF SuspendTypeOK
<1>3. SetsAt'
  BY ZenonT(40) DEF SuspendTypeOK, SetsAt, kActive, kActiveToSuspend, kSuspend,
     kSuspendToWakeup, kWakeup, kSuspendToActive
<1>4. BootAt'
  BY ZenonT(40) DEF SuspendTypeOK, BootAt, SetsAt, kActive, kActiveToSuspend, kSuspend,
     kSuspendToWakeup, kWakeup, kSuspendToActive
<1>5. \A d \in Secondary : SecondaryAt(d)'
  BY ZenonT(40) DEF SuspendTypeOK, SetsAt, SecondaryAt, kActive, kActiveToSuspend,
     kSuspend,
     kSuspendToWakeup, kWakeup, kSuspendToActive
<1> QED
  BY <1>1, <1>2, <1>3, <1>4, <1>5, Zenon

\* The boot CPU is told to suspend, or is in Wakeup.
LEMMA SuspendBootKeeps ==
  ASSUME SuspendIInv, SuspendBoot PROVE SuspendIInv'
<1> USE BootAssumption
    DEF SuspendIInv, Cpus, SuspendBoot, StartTransition, suspRest, SuspenderRuns,
        PendingPowerWork
<1>1. SuspendTypeOK'
  BY ZenonT(40) DEF SuspendTypeOK, PowerStates, SuspenderPcs, WakerPcs, kActive,
     kActiveToSuspend, kSuspend, kSuspendToWakeup, kWakeup, kSuspendToActive
<1>2. suspendedBit' <=> spc' # "idle"
  BY Zenon DEF SuspendTypeOK
<1>3. SetsAt'
  BY Zenon DEF SuspendTypeOK, SetsAt, kActive, kActiveToSuspend, kSuspend,
     kSuspendToWakeup, kWakeup, kSuspendToActive
<1>4. BootAt'
  <2>1. power[Boot] \in {kActive, kWakeup} /\ power \in [Cpus -> PowerStates]
    BY ZenonT(40) DEF SuspendTypeOK, BootAt
  <2>2. CASE StartTransition(Boot, "Active", "Suspend", "boot_wait")
    <3>1. power'[Boot] = kActiveToSuspend
      BY <2>1, <2>2, ZenonT(40) DEF kActiveToSuspend
    <3> QED
      BY <2>2, <3>1, SMTT(30) DEF BootAt, kActive, kActiveToSuspend, kSuspend,
         kSuspendToWakeup,
         kWakeup, kSuspendToActive
  <2>3. CASE spc' = "boot_done" /\ power' = power /\ power[Boot] # kActive
             /\ startState' = power[Boot][1]
    BY <2>1, <2>3, SMTT(30) DEF BootAt, kActive, kActiveToSuspend, kSuspend,
       kSuspendToWakeup,
       kWakeup, kSuspendToActive
  <2> QED
    BY <2>2, <2>3, ZenonT(40)
<1>5. \A d \in Secondary : SecondaryAt(d)'
  BY ZenonT(40) DEF SuspendTypeOK, SetsAt, SecondaryAt, kActive, kActiveToSuspend,
     kSuspend,
     kSuspendToWakeup, kWakeup, kSuspendToActive
<1> QED
  BY <1>1, <1>2, <1>3, <1>4, <1>5, ZenonT(40)

\* The suspending thread runs again: the boot CPU is in Wakeup.
LEMMA BootWaitKeeps ==
  ASSUME SuspendIInv, BootWait PROVE SuspendIInv'
<1> USE BootAssumption
    DEF SuspendIInv, Cpus, BootWait, suspRest, SuspenderRuns, PendingPowerWork
<1>1. SuspendTypeOK'
  BY ZenonT(40) DEF SuspendTypeOK, PowerStates, SuspenderPcs, WakerPcs, kActive,
     kActiveToSuspend, kSuspend, kSuspendToWakeup, kWakeup, kSuspendToActive
<1>2. suspendedBit' <=> spc' # "idle"
  BY ZenonT(40) DEF SuspendTypeOK
<1>3. SetsAt'
  BY ZenonT(40) DEF SuspendTypeOK, SetsAt, kActive, kActiveToSuspend, kSuspend,
     kSuspendToWakeup, kWakeup, kSuspendToActive
<1>4. BootAt'
  BY DEF SuspendTypeOK, BootAt, SetsAt, kActive, kActiveToSuspend, kSuspend,
     kSuspendToWakeup, kWakeup, kSuspendToActive
<1>5. \A d \in Secondary : SecondaryAt(d)'
  BY ZenonT(40) DEF SuspendTypeOK, SetsAt, SecondaryAt, kActive, kActiveToSuspend,
     kSuspend,
     kSuspendToWakeup, kWakeup, kSuspendToActive
<1> QED
  BY <1>1, <1>2, <1>3, <1>4, <1>5, Zenon

\* It only times out on a boot CPU that runs.
LEMMA BootTimeoutKeeps ==
  ASSUME SuspendIInv, BootTimeout PROVE SuspendIInv'
<1> USE BootAssumption
    DEF SuspendIInv, Cpus, BootTimeout, suspRest, SuspenderRuns, PendingPowerWork
<1>1. SuspendTypeOK'
  BY Zenon DEF SuspendTypeOK, PowerStates, SuspenderPcs, WakerPcs, kActive,
     kActiveToSuspend, kSuspend, kSuspendToWakeup, kWakeup, kSuspendToActive
<1>2. suspendedBit' <=> spc' # "idle"
  BY Zenon DEF SuspendTypeOK
<1>3. SetsAt'
  BY ZenonT(40) DEF SuspendTypeOK, SetsAt, kActive, kActiveToSuspend, kSuspend,
     kSuspendToWakeup, kWakeup, kSuspendToActive
<1>4. BootAt'
  BY DEF SuspendTypeOK, BootAt, SetsAt, kActive, kActiveToSuspend, kSuspend,
     kSuspendToWakeup, kWakeup, kSuspendToActive
<1>5. \A d \in Secondary : SecondaryAt(d)'
  BY ZenonT(40) DEF SuspendTypeOK, SetsAt, SecondaryAt, kActive, kActiveToSuspend,
     kSuspend,
     kSuspendToWakeup, kWakeup, kSuspendToActive
<1> QED
  BY <1>1, <1>2, <1>3, <1>4, <1>5, ZenonT(40)

\* The boot CPU becomes active.
LEMMA BootResumedKeeps ==
  ASSUME SuspendIInv, BootResumed PROVE SuspendIInv'
<1> USE BootAssumption
    DEF SuspendIInv, Cpus, BootResumed
<1>1. SuspendTypeOK'
  BY ZenonT(40) DEF SuspendTypeOK, PowerStates, SuspenderPcs, WakerPcs, kActive,
     kActiveToSuspend, kSuspend, kSuspendToWakeup, kWakeup, kSuspendToActive
<1>2. suspendedBit' <=> spc' # "idle"
  BY ZenonT(40) DEF SuspendTypeOK
<1>3. SetsAt'
  BY ZenonT(40) DEF SuspendTypeOK, SetsAt, kActive, kActiveToSuspend, kSuspend,
     kSuspendToWakeup, kWakeup, kSuspendToActive
<1>4. BootAt'
  BY ZenonT(40) DEF SuspendTypeOK, BootAt, SetsAt, kActive, kActiveToSuspend, kSuspend,
     kSuspendToWakeup, kWakeup, kSuspendToActive
<1>5. \A d \in Secondary : SecondaryAt(d)'
  BY ZenonT(40) DEF SuspendTypeOK, SetsAt, SecondaryAt, kActive, kActiveToSuspend,
     kSuspend,
     kSuspendToWakeup, kWakeup, kSuspendToActive
<1> QED
  BY <1>1, <1>2, <1>3, <1>4, <1>5, ZenonT(40)

\* The secondary CPUs are resumed one by one, until one is given up on.
LEMMA ResumeSecondaryKeeps ==
  ASSUME SuspendIInv, ResumeSecondary PROVE SuspendIInv'
<1> USE BootAssumption
    DEF SuspendIInv, Cpus, ResumeSecondary, StartTransition, FinishTransition,
        FindState, TransitionTimeout, AbortResume, suspRest, SuspenderRuns,
        PendingPowerWork
<1>1. SuspendTypeOK'
  BY ZenonT(120) DEF SuspendTypeOK, PowerStates, SuspenderPcs, WakerPcs, kActive,
     kActiveToSuspend, kSuspend, kSuspendToWakeup, kWakeup, kSuspendToActive
<1>2. suspendedBit' <=> spc' # "idle"
  BY Zenon DEF SuspendTypeOK
<1>3. SetsAt'
  BY DEF SuspendTypeOK, SetsAt, kActive, kActiveToSuspend, kSuspend, kSuspendToWakeup,
     kWakeup, kSuspendToActive
<1>4. BootAt'
  BY ZenonT(40) DEF SuspendTypeOK, BootAt, SetsAt, kActive, kActiveToSuspend, kSuspend,
     kSuspendToWakeup, kWakeup, kSuspendToActive
<1>5. \A d \in Secondary : SecondaryAt(d)'
  BY DEF SuspendTypeOK, SetsAt, SecondaryAt, kActive, kActiveToSuspend, kSuspend,
     kSuspendToWakeup, kWakeup, kSuspendToActive
<1> QED
  BY <1>1, <1>2, <1>3, <1>4, <1>5, Zenon

\* The call ends with none left to resume.
LEMMA EndSuspendKeeps ==
  ASSUME SuspendIInv, EndSuspend PROVE SuspendIInv'
<1> USE BootAssumption
    DEF SuspendIInv, Cpus, EndSuspend
<1>1. SuspendTypeOK'
  BY ZenonT(40) DEF SuspendTypeOK, PowerStates, SuspenderPcs, WakerPcs, kActive,
     kActiveToSuspend, kSuspend, kSuspendToWakeup, kWakeup, kSuspendToActive
<1>2. suspendedBit' <=> spc' # "idle"
  BY Zenon DEF SuspendTypeOK
<1>3. SetsAt'
  BY ZenonT(40) DEF SuspendTypeOK, SetsAt, kActive, kActiveToSuspend, kSuspend,
     kSuspendToWakeup, kWakeup, kSuspendToActive
<1>4. BootAt'
  BY ZenonT(40) DEF SuspendTypeOK, BootAt, SetsAt, kActive, kActiveToSuspend, kSuspend,
     kSuspendToWakeup, kWakeup, kSuspendToActive
<1>5. \A d \in Secondary : SecondaryAt(d)'
  BY ZenonT(40) DEF SuspendTypeOK, SetsAt, SecondaryAt, kActive, kActiveToSuspend,
     kSuspend,
     kSuspendToWakeup, kWakeup, kSuspendToActive
<1> QED
  BY <1>1, <1>2, <1>3, <1>4, <1>5, ZenonT(40)

\* A wake event is triggered.
LEMMA TriggerWakeKeeps ==
  ASSUME SuspendIInv, NEW w \in Sources, TriggerWake(w) PROVE SuspendIInv'
<1> USE BootAssumption
    DEF SuspendIInv, Cpus, TriggerWake, wakeRest
<1>1. SuspendTypeOK'
  BY DEF SuspendTypeOK, PowerStates, SuspenderPcs, WakerPcs, kActive, kActiveToSuspend,
     kSuspend, kSuspendToWakeup, kWakeup, kSuspendToActive
<1>2. suspendedBit' <=> spc' # "idle"
  BY ZenonT(40) DEF SuspendTypeOK
<1>3. SetsAt'
  BY ZenonT(40) DEF SuspendTypeOK, SetsAt, kActive, kActiveToSuspend, kSuspend,
     kSuspendToWakeup, kWakeup, kSuspendToActive
<1>4. BootAt'
  BY ZenonT(40) DEF SuspendTypeOK, BootAt, SetsAt, kActive, kActiveToSuspend, kSuspend,
     kSuspendToWakeup, kWakeup, kSuspendToActive
<1>5. \A d \in Secondary : SecondaryAt(d)'
  BY ZenonT(40) DEF SuspendTypeOK, SetsAt, SecondaryAt, kActive, kActiveToSuspend,
     kSuspend,
     kSuspendToWakeup, kWakeup, kSuspendToActive
<1> QED
  BY <1>1, <1>2, <1>3, <1>4, <1>5, ZenonT(40)

\* A wake source finds the boot CPU suspended, or not.
LEMMA WakeFromSuspendKeeps ==
  ASSUME SuspendIInv, NEW w \in Sources, WakeFromSuspend(w) PROVE SuspendIInv'
<1> USE BootAssumption
    DEF SuspendIInv, Cpus, WakeFromSuspend, wakeRest
<1>1. SuspendTypeOK'
  BY SMTT(30) DEF SuspendTypeOK, PowerStates, SuspenderPcs, WakerPcs, kActive,
     kActiveToSuspend,
     kSuspend, kSuspendToWakeup, kWakeup, kSuspendToActive
<1>2. suspendedBit' <=> spc' # "idle"
  BY Zenon DEF SuspendTypeOK
<1>3. SetsAt'
  BY ZenonT(40) DEF SuspendTypeOK, SetsAt, kActive, kActiveToSuspend, kSuspend,
     kSuspendToWakeup, kWakeup, kSuspendToActive
<1>4. BootAt'
  BY SMTT(30) DEF SuspendTypeOK, BootAt, SetsAt, kActive, kActiveToSuspend, kSuspend,
     kSuspendToWakeup, kWakeup, kSuspendToActive
<1>5. \A d \in Secondary : SecondaryAt(d)'
  BY ZenonT(120) DEF SuspendTypeOK, SetsAt, SecondaryAt, kActive, kActiveToSuspend,
     kSuspend,
     kSuspendToWakeup, kWakeup, kSuspendToActive
<1> QED
  BY <1>1, <1>2, <1>3, <1>4, <1>5, Zenon

\* A wake source finds what it saw, or not.
LEMMA WakeFromActiveKeeps ==
  ASSUME SuspendIInv, NEW w \in Sources, WakeFromActive(w) PROVE SuspendIInv'
<1> USE BootAssumption
    DEF SuspendIInv, Cpus, WakeFromActive, wakeRest
<1>1. SuspendTypeOK'
  BY DEF SuspendTypeOK, PowerStates, SuspenderPcs, WakerPcs, kActive, kActiveToSuspend,
     kSuspend, kSuspendToWakeup, kWakeup, kSuspendToActive
<1>2. suspendedBit' <=> spc' # "idle"
  BY ZenonT(40) DEF SuspendTypeOK
<1>3. SetsAt'
  BY ZenonT(40) DEF SuspendTypeOK, SetsAt, kActive, kActiveToSuspend, kSuspend,
     kSuspendToWakeup, kWakeup, kSuspendToActive
<1>4. BootAt'
  BY ZenonT(40) DEF SuspendTypeOK, BootAt, SetsAt, kActive, kActiveToSuspend, kSuspend,
     kSuspendToWakeup, kWakeup, kSuspendToActive
<1>5. \A d \in Secondary : SecondaryAt(d)'
  BY ZenonT(40) DEF SuspendTypeOK, SetsAt, SecondaryAt, kActive, kActiveToSuspend,
     kSuspend,
     kSuspendToWakeup, kWakeup, kSuspendToActive
<1> QED
  BY <1>1, <1>2, <1>3, <1>4, <1>5, Zenon

\* A wake event is acknowledged.
LEMMA AcknowledgeWakeKeeps ==
  ASSUME SuspendIInv, NEW w \in Sources, AcknowledgeWake(w) PROVE SuspendIInv'
<1> USE BootAssumption
    DEF SuspendIInv, Cpus, AcknowledgeWake, wakeRest
<1>1. SuspendTypeOK'
  BY SMTT(30) DEF SuspendTypeOK, PowerStates, SuspenderPcs, WakerPcs, kActive,
     kActiveToSuspend,
     kSuspend, kSuspendToWakeup, kWakeup, kSuspendToActive
<1>2. suspendedBit' <=> spc' # "idle"
  BY ZenonT(40) DEF SuspendTypeOK
<1>3. SetsAt'
  BY ZenonT(40) DEF SuspendTypeOK, SetsAt, kActive, kActiveToSuspend, kSuspend,
     kSuspendToWakeup, kWakeup, kSuspendToActive
<1>4. BootAt'
  BY ZenonT(40) DEF SuspendTypeOK, BootAt, SetsAt, kActive, kActiveToSuspend, kSuspend,
     kSuspendToWakeup, kWakeup, kSuspendToActive
<1>5. \A d \in Secondary : SecondaryAt(d)'
  BY ZenonT(40) DEF SuspendTypeOK, SetsAt, SecondaryAt, kActive, kActiveToSuspend,
     kSuspend,
     kSuspendToWakeup, kWakeup, kSuspendToActive
<1> QED
  BY <1>1, <1>2, <1>3, <1>4, <1>5, Zenon

\* Every step, by any CPU, wake source or the suspending thread, keeps the
\* invariant.
LEMMA SuspendNextKeeps == SuspendIInv /\ [SuspendNext]_suspVars => SuspendIInv'
<1> SUFFICES ASSUME SuspendIInv, [SuspendNext]_suspVars PROVE SuspendIInv'
  OBVIOUS
<1>1. CASE BeginSuspend \/ Suspender
  BY <1>1, BeginSuspendKeeps, SuspendSecondaryKeeps, SetResumeTimerKeeps,
     SuspendBootKeeps,
     BootWaitKeeps, BootTimeoutKeeps, BootResumedKeeps, ResumeSecondaryKeeps,
     EndSuspendKeeps, ZenonT(40)
     DEF Suspender
<1>2. ASSUME NEW c \in Cpus, Idle(c) PROVE SuspendIInv'
  BY <1>2, IdleLoadKeeps, IdleCompleteKeeps, IdleSignalKeeps, ZenonT(40) DEF Idle
<1>3. ASSUME NEW w \in Sources, TriggerWake(w) \/ Waker(w) \/ AcknowledgeWake(w)
      PROVE  SuspendIInv'
  BY <1>3, TriggerWakeKeeps, WakeFromSuspendKeeps, WakeFromActiveKeeps,
     AcknowledgeWakeKeeps, ZenonT(40)
     DEF Waker
<1>4. CASE UNCHANGED suspVars
  BY <1>4, SMTT(90) DEF suspVars, SuspendIInv, SuspendTypeOK, SetsAt, BootAt, SecondaryAt
<1> QED
  BY <1>1, <1>2, <1>3, <1>4, Zenon DEF SuspendNext

-----------------------------------------------------------------------------
(* Wake events, when their interrupts run on the boot CPU *)

Trying == {w \in Sources : wpc[w] \in {"try_suspend", "try_active"}}

\* One wake source at a time is in WakeBootCpu, and nothing else changes the
\* boot CPU's state meanwhile; once none is, a pending event has turned the
\* boot CPU around, unless the call is already resuming the others.
WakeIInv ==
  /\ \A v, w \in Trying : v = w
  /\ \A w \in Sources : wpc[w] = "try_active" =>
       wseen[w] = power[Boot] /\ power[Boot] \in {kActive, kActiveToSuspend}
  /\ suspendedBit /\ wakeCount > 0 /\ Trying = {} =>
       power[Boot] \in {kSuspendToWakeup, kWakeup} \/ spc \in {"resume", "resume_wait"}

\* Steps of the suspending thread: it runs when no wake source is.
LEMMA SuspenderKeepsWakes ==
  ASSUME RemoteWakers = {}, SuspendIInv, WakeIInv, BeginSuspend \/ Suspender
  PROVE  WakeIInv'
<1> USE BootAssumption
<1>1. Trying = {} /\ wpc' = wpc /\ wseen' = wseen /\ wakeCount' = wakeCount
  BY ZenonT(40) DEF BeginSuspend, Suspender, SuspendSecondary, SetResumeTimer,
     SuspendBoot,
     BootWait,
     BootTimeout, BootResumed, ResumeSecondary, EndSuspend, StartTransition,
     FinishTransition, FindState, TransitionTimeout, suspRest, SuspenderRuns,
     BootInterrupted, Trying
<1>2. Trying' = {}
  BY <1>1, ZenonT(40) DEF Trying
<1>3. ASSUME suspendedBit', wakeCount > 0
      PROVE  \/ power'[Boot] \in {kSuspendToWakeup, kWakeup}
             \/ spc' \in {"resume", "resume_wait"}
  <2>1. suspendedBit /\ ~BeginSuspend
    <3>1. wakeCount # 0
      BY <1>3, SMTT(30) DEF SuspendIInv, SuspendTypeOK
    <3>2. ~BeginSuspend
      BY <3>1, ZenonT(40) DEF BeginSuspend
    <3>3. spc # "idle"
      BY <3>2, ZenonT(40) DEF Suspender, SuspendSecondary, SetResumeTimer, SuspendBoot,
         BootWait,
         BootTimeout, BootResumed, ResumeSecondary, EndSuspend, FinishTransition,
         TransitionTimeout
    <3> QED
      BY <3>2, <3>3, ZenonT(40) DEF SuspendIInv
  <2>2. power[Boot] \in {kSuspendToWakeup, kWakeup} \/ spc \in {"resume", "resume_wait"}
    BY <1>1, <1>3, <2>1, ZenonT(40) DEF WakeIInv
  <2>3. CASE SuspendSecondary \/ ResumeSecondary
    <3>1. power'[Boot] = power[Boot]
      <4>1. toSuspend \subseteq Secondary /\ toResume \subseteq Secondary
            /\ power \in [Cpus -> PowerStates] /\ Boot \in Cpus
        BY ZenonT(40) DEF SuspendIInv, SuspendTypeOK, Cpus
      <4>2. ASSUME NEW c \in Secondary, NEW f, NEW t, NEW p, StartTransition(c, f, t, p)
            PROVE  power'[Boot] = power[Boot]
        BY <4>1, <4>2, ZenonT(40) DEF StartTransition
      <4> QED
        BY <2>3, <4>1, <4>2, ZenonT(40) DEF SuspendSecondary, ResumeSecondary,
           FinishTransition, FindState, TransitionTimeout
    <3>2. spc \in {"resume", "resume_wait"} => spc' \in {"resume", "resume_wait"}
      BY <2>3, ZenonT(40) DEF SuspendSecondary, ResumeSecondary, StartTransition,
         FinishTransition, TransitionTimeout, AbortResume
    <3> QED
      BY <2>2, <3>1, <3>2, ZenonT(40)
  <2>4. CASE SuspendBoot
    BY <2>2, <2>4, SMTT(30) DEF SuspendBoot, StartTransition, SuspendIInv,
       SuspendTypeOK, BootAt,
       kActive, kWakeup, kSuspendToWakeup
  <2>5. CASE SetResumeTimer \/ BootWait \/ BootTimeout \/ BootResumed \/ EndSuspend
    BY <1>3, <2>1, <2>2, <2>5, ZenonT(40) DEF SetResumeTimer, BootWait, BootTimeout,
       BootResumed, EndSuspend, SuspendIInv
  <2> QED
    BY <2>1, <2>3, <2>4, <2>5, ZenonT(40) DEF Suspender
<1>4. \A w \in Sources : wpc'[w] # "try_active"
  BY <1>1, ZenonT(40) DEF Trying
<1> QED
  BY <1>1, <1>2, <1>3, <1>4, ZenonT(40) DEF WakeIInv

\* Steps of the idle threads: the boot CPU's runs when no wake source does.
LEMMA IdleKeepsWakes ==
  ASSUME RemoteWakers = {}, SuspendIInv, WakeIInv, NEW c \in Cpus, Idle(c)
  PROVE  WakeIInv'
<1> USE BootAssumption
<1>1. /\ wpc' = wpc /\ wseen' = wseen /\ wakeCount' = wakeCount /\ spc' = spc
      /\ suspendedBit' = suspendedBit
      /\ Trying' = Trying
  BY ZenonT(40) DEF Idle, IdleLoad, IdleComplete, IdleSignal, Trying
<1>2. power'[Boot] = power[Boot] \/ Trying = {}
  BY ZenonT(40) DEF Idle, IdleLoad, IdleComplete, IdleSignal, IdleRuns, BootInterrupted,
     Trying,
     SuspendIInv, SuspendTypeOK, Cpus
<1>3. power[Boot] \in {kSuspendToWakeup, kWakeup} => power'[Boot] \in {kSuspendToWakeup, kWakeup}
  BY DEF Idle, IdleLoad, IdleComplete, IdleSignal, SuspendIInv, SuspendTypeOK, Cpus,
     kSuspendToWakeup, kWakeup
<1>4. \A w \in Sources : wpc[w] = "try_active" => w \in Trying
  BY ZenonT(40) DEF Trying
<1> QED
  BY <1>1, <1>2, <1>3, <1>4, ZenonT(40) DEF WakeIInv

\* Steps of the wake sources.
LEMMA WakersKeepWakes ==
  ASSUME RemoteWakers = {}, SuspendIInv, WakeIInv, NEW w \in Sources,
         TriggerWake(w) \/ Waker(w) \/ AcknowledgeWake(w)
  PROVE  WakeIInv'
<1> USE BootAssumption DEF wakeRest
<1>0. wpc \in [Sources -> WakerPcs] /\ wseen \in [Sources -> PowerStates] /\ wakeCount \in Int
      /\ power \in [Cpus -> PowerStates] /\ Boot \in Cpus
  BY Zenon DEF SuspendIInv, SuspendTypeOK, Cpus
<1>1. CASE TriggerWake(w)
  <2>1. Trying = {} /\ Trying' \subseteq {w} /\ wpc'[w] # "try_active"
    BY <1>0, <1>1, ZenonT(40) DEF TriggerWake, BootInterrupted, Trying
  <2>2. suspendedBit' /\ wakeCount' > 0 /\ Trying' = {} => suspendedBit /\ wakeCount > 0
    BY <1>0, <1>1, SMTT(30) DEF TriggerWake, Trying
  <2> QED
    BY <1>0, <1>1, <2>1, <2>2, ZenonT(40) DEF TriggerWake, WakeIInv, Trying
<1>2. CASE WakeFromSuspend(w)
  <2>1. Trying = {w} /\ Trying' \subseteq {w}
    BY <1>0, <1>2, SMTT(30) DEF WakeFromSuspend, WakeIInv, Trying
  <2>2. wpc'[w] = "try_active" => /\ wseen'[w] = power'[Boot]
                                  /\ power'[Boot] \in {kActive, kActiveToSuspend}
    BY <1>0, <1>2, ZenonT(40) DEF WakeFromSuspend
  <2>3. Trying' = {} => power'[Boot] \in {kSuspendToWakeup, kWakeup}
    BY <1>0, <1>2, ZenonT(40) DEF WakeFromSuspend, Trying, SuspendIInv, BootAt
  <2>4. \A v \in Sources : wpc'[v] = "try_active" => v = w
    BY <2>1, ZenonT(40) DEF Trying
  <2> QED
    BY <2>1, <2>2, <2>3, <2>4, ZenonT(40) DEF WakeIInv
<1>3. CASE WakeFromActive(w)
  <2>1. Trying = {w} /\ power[Boot] = wseen[w]
    BY <1>0, <1>3, ZenonT(40) DEF WakeFromActive, WakeIInv, Trying
  <2>2. Trying' = {} /\ power'[Boot] = kWakeup
    BY <1>0, <1>3, <2>1, ZenonT(40) DEF WakeFromActive, Trying
  <2>3. \A v \in Sources : wpc'[v] # "try_active"
    BY <2>2, ZenonT(40) DEF Trying
  <2> QED
    BY <2>2, <2>3, ZenonT(40) DEF WakeIInv
<1>4. CASE AcknowledgeWake(w)
  <2>1. Trying' = Trying /\ \A v \in Sources : wpc'[v] = "try_active" => wpc[v] = "try_active"
    BY <1>0, <1>4, ZenonT(40) DEF AcknowledgeWake, Trying
  <2>2. wakeCount' > 0 => wakeCount > 0
    BY <1>0, <1>4, SMTT(30) DEF AcknowledgeWake
  <2> QED
    BY <1>4, <2>1, <2>2, ZenonT(40) DEF AcknowledgeWake, WakeIInv
<1> QED
  BY <1>1, <1>2, <1>3, <1>4, ZenonT(40) DEF Waker

\* Every step keeps both invariants.
LEMMA NextKeepsWakes ==
  ASSUME RemoteWakers = {}
  PROVE  SuspendIInv /\ WakeIInv /\ [SuspendNext]_suspVars => WakeIInv'
<1> SUFFICES ASSUME SuspendIInv, WakeIInv, [SuspendNext]_suspVars PROVE WakeIInv'
  OBVIOUS
<1>1. CASE UNCHANGED suspVars
  BY <1>1, ZenonT(40) DEF suspVars, WakeIInv, Trying
<1> QED
  BY <1>1, SuspenderKeepsWakes, IdleKeepsWakes, WakersKeepWakes, ZenonT(40)
  DEF SuspendNext

-----------------------------------------------------------------------------
(* Theorems *)

\* The inductive invariant holds, wherever the interrupts of the wake sources
\* run.
THEOREM SuspendInvariant == SuspendSpec => []SuspendIInv
<1>1. SuspendInit => SuspendIInv
  BY SuspendInitIInv, Zenon
<1>2. SuspendIInv /\ [SuspendNext]_suspVars => SuspendIInv'
  BY SuspendNextKeeps, Zenon
<1> QED
  BY <1>1, <1>2, PTL DEF SuspendSpec

\* When TransitionAllActiveToSuspend returns, ended or aborted by a wake event,
\* a timeout or a CPU in an unexpected state, every secondary CPU is active
\* again but those that it gave up on.
THEOREM SuspendAllResumed == SuspendSpec => []AllResumed
<1>1. SuspendIInv => AllResumed
  BY ZenonT(40) DEF SuspendIInv, SecondaryAt, AllResumed
<1> QED
  BY <1>1, SuspendInvariant, PTL

\* The boot CPU is suspended only while all others are, but for one that an
\* earlier call gave up on.
THEOREM SuspendBootLast == SuspendSpec => []BootLast
<1>1. SuspendIInv => BootLast
  BY SMTT(30) DEF SuspendIInv, SetsAt, BootAt, SecondaryAt, BootLast, kActive, kWakeup
<1> QED
  BY <1>1, SuspendInvariant, PTL

\* The boot CPU's suspension ends in Wakeup, as TransitionAllActiveToSuspend
\* asserts.
THEOREM SuspendEndsInWakeup == SuspendSpec => []BootEndsInWakeup
<1>1. SuspendIInv => BootEndsInWakeup
  BY ZenonT(40) DEF SuspendIInv, BootAt, BootEndsInWakeup
<1> QED
  BY <1>1, SuspendInvariant, PTL

\* All of these together: the states of the CPUs fit the step the suspender
\* is at, from the first CPU it suspends to the return of the call, whichever
\* transitions on the way fail.
THEOREM SuspendConsistentHolds == SuspendSpec => []SuspendConsistent
<1>1. SuspendIInv => SuspendTypeOK
  BY Zenon DEF SuspendIInv
<1> QED
  BY <1>1, SuspendInvariant, SuspendAllResumed, SuspendBootLast, SuspendEndsInWakeup, PTL
  DEF SuspendConsistent

\* If all wake interrupts run on the boot CPU, no wake event is missed.
THEOREM SuspendNoMissedWake ==
  ASSUME RemoteWakers = {} PROVE SuspendSpec => []NoMissedWake
<1>1. SuspendInit => WakeIInv
  BY Zenon DEF SuspendInit, WakeIInv, Trying
<1>2. SuspendIInv /\ WakeIInv /\ [SuspendNext]_suspVars => WakeIInv'
  BY NextKeepsWakes, ZenonT(40)
<1>3. SuspendIInv /\ WakeIInv => NoMissedWake
  BY SMTT(30) DEF SuspendIInv, BootAt, WakeIInv, Trying, NoMissedWake, kActive,
     kSuspend, kWakeup,
     kSuspendToWakeup
<1> QED
  BY <1>1, <1>2, <1>3, SuspendInvariant, PTL DEF SuspendSpec

\* If all wake interrupts run on the boot CPU, the assertion at the end of
\* WakeBootCpu holds: a wake source stops trying only when the boot CPU is on
\* its way to Wakeup.
THEOREM SuspendGivesUpSafely ==
  ASSUME RemoteWakers = {} PROVE SuspendSpec => WakeGivesUpSafely
<1> DEFINE Safe == \A w \in Sources :
                     wpc[w] \in {"try_suspend", "try_active"} /\ wpc'[w] = "pending"
                       => power'[Boot] \in {kSuspendToWakeup, kWakeup}
<1>1. SuspendInit => WakeIInv
  BY Zenon DEF SuspendInit, WakeIInv, Trying
<1>2. SuspendIInv /\ WakeIInv /\ [SuspendNext]_suspVars => WakeIInv'
  BY NextKeepsWakes, Zenon
<1>3. ASSUME SuspendIInv, WakeIInv, SuspendNext PROVE Safe
  <2>0. wpc \in [Sources -> WakerPcs] /\ power \in [Cpus -> PowerStates] /\ Boot \in Cpus
    BY <1>3, ZenonT(40) DEF SuspendIInv, SuspendTypeOK, Cpus
  <2>1. CASE wpc' = wpc
    BY <2>1, ZenonT(40)
  <2>2. ASSUME NEW w \in Sources, TriggerWake(w) \/ AcknowledgeWake(w) PROVE Safe
    BY <2>0, <2>2, ZenonT(40) DEF TriggerWake, AcknowledgeWake
  <2>3. ASSUME NEW w \in Sources, WakeFromSuspend(w) PROVE Safe
    BY <1>3, <2>0, <2>3, ZenonT(40) DEF WakeFromSuspend, SuspendIInv, BootAt
  <2>4. ASSUME NEW w \in Sources, WakeFromActive(w) PROVE Safe
    BY <1>3, <2>0, <2>4, ZenonT(40) DEF WakeFromActive, WakeIInv
  <2>5. BeginSuspend \/ Suspender \/ (\E c \in Cpus : Idle(c)) => wpc' = wpc
    BY ZenonT(40) DEF BeginSuspend, Suspender, SuspendSecondary, SetResumeTimer,
       SuspendBoot, BootWait,
       BootTimeout, BootResumed, ResumeSecondary, EndSuspend, StartTransition,
       FinishTransition, FindState, TransitionTimeout, suspRest, Idle, IdleLoad,
       IdleComplete, IdleSignal
  <2> QED
    BY <1>3, <2>1, <2>2, <2>3, <2>4, <2>5, ZenonT(40) DEF SuspendNext, Waker
<1>4. SuspendIInv /\ WakeIInv /\ [SuspendNext]_suspVars => [Safe]_suspVars
  BY <1>3, Zenon
<1> QED
  BY <1>1, <1>2, <1>4, SuspendInvariant, PTL DEF SuspendSpec, WakeGivesUpSafely
=============================================================================
