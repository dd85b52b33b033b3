------------------------------ MODULE BrwLock ------------------------------
(***************************************************************************)
(* The blocking reader-writer lock (kernel/kernel/brwlock.cc and           *)
(* kernel/include/kernel/brwlock.h), with priority inheritance: state_     *)
(* counts readers and waiters and has a bit for a writer, writer_ names    *)
(* the writer, and wait_ queues the blocked threads under a lock of its    *)
(* own.  One action per atomic operation on state_: the fast paths do not  *)
(* look at the queue's lock, so they may fall between any two of them.     *)
(*                                                                         *)
(* A reader counts itself before it knows that it may read; a thread in    *)
(* the queue's lock counts itself a waiter before it blocks.  Getting the  *)
(* further locks to block or to wake may fail and is then tried again.     *)
(***************************************************************************)
EXTENDS Integers, Sequences, FiniteSets

CONSTANTS BrThreads,     \* threads
          BrNone,        \* no thread, a null pointer
          BrPriority,    \* priority of each thread
          MaxBrBackOffs  \* bound: times the further locks are not to be had

ASSUME BrAssumption ==
  /\ IsFiniteSet(BrThreads) /\ BrNone \notin BrThreads
  /\ BrPriority \in [BrThreads -> Int] /\ MaxBrBackOffs \in Nat

VARIABLES brReaders, brWaiters, brWriter,   \* the fields of state_
          brOwner,       \* writer_
          brQueue,       \* wait_: threads, by priority, then first come
          brBoosted,     \* the owner of wait_
          brLock,        \* who holds the lock of wait_
          brPc,          \* where each thread is
          brBackOffs

brState == <<brReaders, brWaiters, brWriter>>
brVars == <<brState, brOwner, brQueue, brBoosted, brLock, brPc, brBackOffs>>

BrPcs ==
  {"idle", "reading", "writing", "r_spin", "r_queue", "r_block", "r_restore",
   "r_take", "r_wake", "r_woke", "r_asleep", "w_spin", "w_queue", "w_block",
   "w_take", "w_wake", "w_asleep", "w_release", "u_queue", "u_take", "u_block",
   "wakeup", "wakeup_try"}

BrwTypeOK ==
  /\ brReaders \in 0..Cardinality(BrThreads)
  /\ brWaiters \in 0..Cardinality(BrThreads)
  /\ brWriter \in 0..1
  /\ {brOwner, brBoosted, brLock} \subseteq BrThreads \cup {BrNone}
  /\ brQueue \in Seq(BrThreads)
  /\ brPc \in [BrThreads -> BrPcs]
  /\ brBackOffs \in 0..MaxBrBackOffs

BrwInit ==
  /\ brReaders = 0 /\ brWaiters = 0 /\ brWriter = 0
  /\ brOwner = BrNone /\ brBoosted = BrNone /\ brLock = BrNone
  /\ brQueue = <<>>
  /\ brPc = [t \in BrThreads |-> "idle"]
  /\ brBackOffs = 0
-----------------------------------------------------------------------------
\* fetch_add of r readers, w waiters and x writers; the writer is the top bit.
FetchAdd(r, w, x) ==
  /\ brReaders' = brReaders + r
  /\ brWaiters' = brWaiters + w
  /\ brWriter' = (brWriter + x) % 2

\* From pc p to pc q.
BrMove(t, p, q) == brPc[t] = p /\ brPc' = [brPc EXCEPT ![t] = q]

BrTakeLock(t) == brLock = BrNone /\ brLock' = t
BrDropLock == brLock' = BrNone
BrQueueSame == UNCHANGED <<brOwner, brQueue, brBoosted, brBackOffs>>

\* A step t makes without the queue's lock, changing state_ only.
BrFast == UNCHANGED brLock /\ BrQueueSame

\* Mutant: a reader takes the lock past a waiting writer.
ReadAcquireBarges(t) ==
  /\ BrMove(t, "idle", IF brWriter = 0 THEN "reading" ELSE "r_spin")
  /\ FetchAdd(1, 0, 0) /\ BrFast

\* ReadAcquire: count this reader; it is one if nobody writes or waits.
ReadAcquire(t) ==
  /\ BrMove(t, "idle", IF brWaiters = 0 /\ brWriter = 0 THEN "reading" ELSE "r_spin")
  /\ FetchAdd(1, 0, 0) /\ BrFast

\* ContendedReadAcquire, the spinning: the writer is gone, or somebody waits
\* or it took too long.
ReadSpin(t) ==
  /\ \/ BrMove(t, "r_spin", "reading") /\ brWaiters = 0 /\ brWriter = 0
     \/ BrMove(t, "r_spin", "r_queue") /\ (brWaiters > 0 \/ brWriter = 1)
  /\ UNCHANGED brState /\ BrFast

\* With the queue's lock, this reader becomes a waiter; what it does next
\* depends on the state before.
ReadQueue(t) ==
  /\ BrTakeLock(t)
  /\ BrMove(t, "r_queue", IF brWriter = 1 THEN "r_block"
                          ELSE IF brWaiters = 0 THEN "r_take"
                          ELSE IF brReaders = 1 THEN "r_wake" ELSE "r_block")
  /\ FetchAdd(-1, 1, 0) /\ BrQueueSame

\* Nobody waited: a reader again, and in.
ReadTake(t) ==
  /\ BrMove(t, "r_take", "reading")
  /\ FetchAdd(1, -1, 0) /\ BrDropLock /\ BrQueueSame

\* Block: LockForBlock got its locks; the thread goes behind the last of at
\* least its priority, and the queue's owner is writer_.
BrBlock(t, p, q) ==
  /\ BrMove(t, p, q)
  /\ \E n \in 0..Len(brQueue) :
       /\ n > 0 => BrPriority[brQueue[n]] >= BrPriority[t]
       /\ \A i \in (n + 1)..Len(brQueue) : BrPriority[brQueue[i]] < BrPriority[t]
       /\ brQueue' = Append(SubSeq(brQueue, 1, n), t) \o SubSeq(brQueue, n + 1, Len(brQueue))
  /\ brBoosted' = brOwner
  /\ BrDropLock
  /\ UNCHANGED <<brState, brOwner, brBackOffs>>

\* LockForBlock, or the locking of the threads to wake, did not succeed.
BrBackOff ==
  /\ brBackOffs < MaxBrBackOffs
  /\ brBackOffs' = brBackOffs + 1
  /\ BrDropLock
  /\ UNCHANGED <<brOwner, brQueue, brBoosted>>

ReadBlock(t) == BrBlock(t, "r_block", "r_asleep")

\* Back off: the queue's lock is dropped first, and the waiter turned back
\* into a reader after that.
ReadBackOff(t) ==
  BrMove(t, "r_block", "r_restore") /\ UNCHANGED brState /\ BrBackOff

\* Mutant: the reader stays counted as a waiter.
ReadRestoreOnly(t) ==
  BrMove(t, "r_restore", "r_queue") /\ FetchAdd(1, 0, 0) /\ BrFast

ReadRestore(t) ==
  BrMove(t, "r_restore", "r_queue") /\ FetchAdd(1, -1, 0) /\ BrFast

\* TryWake: the first n are a writer, or the readers before the first writer.
BrFirst(n) ==
  \/ n = 1 /\ brPc[brQueue[1]] = "w_asleep"
  \/ /\ \A i \in 1..n : brPc[brQueue[i]] = "r_asleep"
     /\ n < Len(brQueue) => brPc[brQueue[n + 1]] = "w_asleep"

\* The lock is given to them, then they are woken.  t goes on to q.
TryWake(t, q) ==
  \E n \in 1..Len(brQueue) :
    LET writer == brPc[brQueue[1]] = "w_asleep"
        woken == {brQueue[i] : i \in 1..n}
    IN  /\ BrFirst(n)
        /\ IF writer THEN FetchAdd(0, -1, 1) /\ brOwner' = brQueue[1]
                     ELSE FetchAdd(n, -n, 0) /\ UNCHANGED brOwner
        /\ brBoosted' = IF writer /\ Len(brQueue) > 1 THEN brQueue[1] ELSE BrNone
        /\ brPc' = [u \in BrThreads |->
             IF u = t THEN q
             ELSE IF u \in woken THEN IF writer THEN "writing" ELSE "reading"
             ELSE brPc[u]]
        /\ brQueue' = SubSeq(brQueue, n + 1, Len(brQueue))
        /\ UNCHANGED brBackOffs

\* The last optimistic reader wakes the others: readers, and it is one of
\* them, or a writer, and it starts again.
ReadWake(t) ==
  /\ brPc[t] = "r_wake"
  /\ TryWake(t, IF brPc[brQueue[1]] = "w_asleep" THEN "r_woke" ELSE "r_take")
  /\ UNCHANGED brLock

ReadWoke(t) ==
  BrMove(t, "r_woke", "r_queue") /\ FetchAdd(1, -1, 0) /\ BrDropLock /\ BrQueueSame

\* Nobody is in the queue yet, or the locks were not to be had.
ReadWakeFails(t) ==
  /\ BrMove(t, "r_wake", "r_queue")
  /\ FetchAdd(1, -1, 0)
  /\ \/ brQueue = <<>> /\ BrDropLock /\ BrQueueSame
     \/ BrBackOff

\* ReadRelease: the last reader wakes those that wait.
ReadRelease(t) ==
  /\ BrMove(t, "reading", IF brReaders = 1 /\ brWaiters # 0 THEN "wakeup" ELSE "idle")
  /\ FetchAdd(-1, 0, 0) /\ BrFast

\* WriteAcquire, ReadUpgrade and the spinning of ContendedWriteAcquire: both
\* words exchanged at once.
AtomicWriteAcquire(t) ==
  /\ \/ BrMove(t, "idle", "writing") /\ brReaders = 0
     \/ BrMove(t, "w_spin", "writing") /\ brReaders = 0
     \/ BrMove(t, "reading", "writing") /\ brReaders = 1
  /\ brWaiters = 0 /\ brWriter = 0 /\ brOwner = BrNone
  /\ brReaders' = 0 /\ brWriter' = 1 /\ UNCHANGED brWaiters
  /\ brOwner' = t
  /\ UNCHANGED <<brQueue, brBoosted, brLock, brBackOffs>>

WriteMiss(t) ==
  /\ \/ BrMove(t, "idle", "w_spin") /\ (brState # <<0, 0, 0>> \/ brOwner # BrNone)
     \/ BrMove(t, "w_spin", "w_queue") /\ (brState # <<0, 0, 0>> \/ brOwner # BrNone)
     \/ BrMove(t, "reading", "u_queue") /\ (brState # <<1, 0, 0>> \/ brOwner # BrNone)
  /\ UNCHANGED brState /\ BrFast

\* ContendedWriteAcquire: count a waiter, and look at the state before.
WriteQueue(t) ==
  /\ BrTakeLock(t)
  /\ BrMove(t, "w_queue", IF brWriter = 1 \/ brReaders > 0 THEN "w_block"
                          ELSE IF brWaiters = 0 THEN "w_take" ELSE "w_wake")
  /\ FetchAdd(0, 1, 0) /\ BrQueueSame

WriteTake(t) ==
  /\ BrMove(t, "w_take", "writing")
  /\ FetchAdd(0, -1, 1)
  /\ brOwner' = t /\ BrDropLock
  /\ UNCHANGED <<brQueue, brBoosted, brBackOffs>>

WriteBlock(t) == BrBlock(t, "w_block", "w_asleep")

WriteBackOff(t) == BrMove(t, "w_block", "w_queue") /\ FetchAdd(0, -1, 0) /\ BrBackOff
WriteWake(t) == brPc[t] = "w_wake" /\ TryWake(t, "w_block") /\ UNCHANGED brLock

WriteWakeFails(t) ==
  /\ BrMove(t, "w_wake", "w_queue")
  /\ FetchAdd(0, -1, 0)
  /\ \/ brQueue = <<>> /\ BrDropLock /\ BrQueueSame
     \/ BrBackOff

\* WriteRelease: writer_ first, then the bit.
WriteRelease(t) ==
  /\ BrMove(t, "writing", "w_release")
  /\ brOwner' = BrNone
  /\ UNCHANGED <<brState, brQueue, brBoosted, brLock, brBackOffs>>

WriteReleased(t) ==
  /\ BrMove(t, "w_release", IF brWaiters # 0 THEN "wakeup" ELSE "idle")
  /\ FetchAdd(0, 0, 1) /\ BrFast

\* ReleaseWakeup: somebody else may have got the lock, or be about to.
ReleaseWakeup(t) ==
  /\ brLock = BrNone
  /\ IF brWaiters > 0 /\ brWriter = 0 /\ brReaders = 0
     THEN BrMove(t, "wakeup", "wakeup_try") /\ brLock' = t
     ELSE BrMove(t, "wakeup", "idle") /\ UNCHANGED brLock
  /\ UNCHANGED brState /\ BrQueueSame

ReleaseTryWake(t) == brPc[t] = "wakeup_try" /\ TryWake(t, "idle") /\ BrDropLock

ReleaseWakeFails(t) ==
  /\ BrMove(t, "wakeup_try", "wakeup")
  /\ UNCHANGED brState
  /\ \/ brQueue = <<>> /\ BrDropLock /\ BrQueueSame
     \/ BrBackOff

\* ContendedReadUpgrade: the reader becomes a waiter; if it was the only
\* reader it goes ahead of those in the queue.
UpgradeQueue(t) ==
  /\ BrTakeLock(t)
  /\ BrMove(t, "u_queue", IF brReaders = 1 /\ brWriter = 0 THEN "u_take" ELSE "u_block")
  /\ FetchAdd(-1, 1, 0) /\ BrQueueSame

UpgradeTake(t) ==
  /\ BrMove(t, "u_take", "writing")
  /\ FetchAdd(0, -1, 1)
  /\ brOwner' = t /\ BrDropLock
  /\ UNCHANGED <<brQueue, brBoosted, brBackOffs>>

UpgradeBlock(t) == BrBlock(t, "u_block", "w_asleep")
UpgradeBackOff(t) == BrMove(t, "u_block", "u_queue") /\ FetchAdd(1, -1, 0) /\ BrBackOff
-----------------------------------------------------------------------------
\* What a thread inside an operation does; holding the lock it may stay, but
\* not for ever.
BrwStep(t) ==
  \/ ReadSpin(t) \/ ReadQueue(t) \/ ReadTake(t) \/ ReadBlock(t) \/ ReadRestore(t)
  \/ ReadWake(t) \/ ReadWoke(t) \/ ReadRelease(t)
  \/ WriteQueue(t) \/ WriteTake(t) \/ WriteBlock(t) \/ WriteWake(t)
  \/ WriteRelease(t) \/ WriteReleased(t)
  \/ ReleaseWakeup(t) \/ ReleaseTryWake(t)
  \/ UpgradeQueue(t) \/ UpgradeTake(t) \/ UpgradeBlock(t)
  \/ brPc[t] = "w_spin" /\ (AtomicWriteAcquire(t) \/ WriteMiss(t))
  \/ brQueue = <<>> /\ (ReadWakeFails(t) \/ WriteWakeFails(t) \/ ReleaseWakeFails(t))

BrwNext ==
  \E t \in BrThreads :
    \/ BrwStep(t)
    \/ ReadAcquire(t) \/ AtomicWriteAcquire(t) \/ WriteMiss(t)
    \/ ReadBackOff(t) \/ WriteBackOff(t) \/ UpgradeBackOff(t)
    \/ ReadWakeFails(t) \/ WriteWakeFails(t) \/ ReleaseWakeFails(t)

\* A thread in the kernel runs, and gets the queue's lock, a fair spinlock,
\* if that is free again and again.
BrwFairness == \A t \in BrThreads : SF_brVars(BrwStep(t))

BrwSpec == BrwInit /\ [][BrwNext]_brVars
BrwFairSpec == BrwSpec /\ BrwFairness
-----------------------------------------------------------------------------
BrAt(pcs) == {t \in BrThreads : brPc[t] \in pcs}

\* A thread that wants to upgrade still reads until it becomes a waiter.
BrwPromise == INSTANCE RwLock WITH
  LockThreads <- BrThreads,
  reading <- BrAt({"reading", "u_queue"}),
  writing <- BrAt({"writing"})

\* The lock is a reader-writer lock: optimistic readers, speculative waiters
\* and upgrades never let a writer in beside anybody.
BrwImplements == BrwPromise!RwSpec

\* state_ counts exactly the threads it should.  A count too many would keep
\* the lock for ever; one too few would let a writer in, or leave a blocked
\* thread to nobody.
BrwCounts ==
  /\ brReaders = Cardinality(BrAt({"reading", "r_spin", "r_queue", "u_queue"}))
  /\ brWaiters = Cardinality(BrAt({"r_block", "r_restore", "r_take", "r_wake",
                   "r_woke", "r_asleep", "w_block", "w_take", "w_wake", "w_asleep",
                   "u_block", "u_take"}))
  /\ brWriter = Cardinality(BrAt({"writing", "w_release"}))

\* A blocked thread is never forgotten: somebody holds the lock or has counted
\* itself a reader, and will look at the waiters when it leaves, or somebody
\* is on its way to wake them.
BrwNoneForgotten ==
  brQueue # <<>> =>
    BrAt({"reading", "writing", "w_release", "r_spin", "r_queue", "u_queue",
          "wakeup", "wakeup_try", "r_wake", "r_take", "r_woke", "w_wake",
          "r_restore", "u_take"}) # {}

\* writer_ names the thread that writes and no other, and while a thread
\* writes nobody else inherits the priorities of those that wait.  (A writer
\* that left may, until the reader it left them to has woken them.)
BrwOwnerWrites ==
  /\ \A t \in BrAt({"writing"}) : brOwner = t /\ brBoosted \in {t, BrNone}
  /\ brOwner # BrNone => brPc[brOwner] = "writing"

\* No thread stays blocked: each is again and again awake, which it only is
\* with the lock.
BrwGranted == \A t \in BrThreads : []<>(brPc[t] \notin {"r_asleep", "w_asleep"})

\* The words of the lock agree with where its threads are, through every
\* back-off, upgrade and hand-over, and no blocked thread is forgotten.
BrwConsistent == BrwTypeOK /\ BrwCounts /\ BrwOwnerWrites /\ BrwNoneForgotten
=============================================================================
