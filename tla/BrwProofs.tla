----------------------------- MODULE BrwProofs -----------------------------
(***************************************************************************)
(* Proofs about BrwLock, for any finite set of threads with any priorities *)
(* and any number of back-offs.                                            *)
(***************************************************************************)
EXTENDS BrwLock, Sizes, TLAPS

-----------------------------------------------------------------------------
(* The inductive invariant *)

\* The places of the threads state_ counts as readers, as waiters and as the
\* writer; of those that may read; and of those that hold the queue's lock.
ReaderPcs == {"reading", "r_spin", "r_queue", "u_queue"}
WaiterPcs == {"r_block", "r_restore", "r_take", "r_wake", "r_woke", "r_asleep", "w_block",
              "w_take", "w_wake", "w_asleep", "u_block", "u_take"}
WriterPcs == {"writing", "w_release"}
HolderPcs == {"reading", "u_queue"}
LockPcs == {"r_block", "r_take", "r_wake", "r_woke", "w_block", "w_take", "w_wake",
            "u_take", "u_block", "wakeup_try"}

\* The places of threads that are or will be blocked, and of those that wake
\* them, or become one that does.
BlockedPcs == {"r_asleep", "w_asleep", "r_block", "w_block", "u_block"}
WakerPcs == {"reading", "writing", "w_release", "r_spin", "r_queue", "u_queue", "wakeup",
             "wakeup_try", "r_wake", "r_take", "r_woke", "r_restore", "u_take"}

NoneAt(pcs) == \A t \in BrThreads : brPc[t] \notin pcs

BrTypes ==
  /\ brPc \in [BrThreads -> BrPcs] /\ brQueue \in Seq(BrThreads)
  /\ brOwner \in BrThreads \cup {BrNone} /\ brBoosted \in BrThreads \cup {BrNone}
  /\ brLock \in BrThreads \cup {BrNone}
  /\ brBackOffs \in 0..MaxBrBackOffs

Counted ==
  /\ brReaders = Cardinality(BrAt(ReaderPcs))
  /\ brWaiters = Cardinality(BrAt(WaiterPcs))

\* One writer at most, the bit says whether there is one, and beside it
\* nobody may read.
WriterAlone ==
  /\ brWriter \in 0..1
  /\ brWriter = 0 <=> NoneAt(WriterPcs)
  /\ \A t, u \in BrThreads : brPc[t] \in WriterPcs /\ brPc[u] \in WriterPcs => t = u
  /\ NoneAt(WriterPcs) \/ NoneAt(HolderPcs)

LockHeld == \A t \in BrThreads : brLock = t <=> brPc[t] \in LockPcs

\* The threads in the queue are those that sleep, each once.
QueuedAsleep ==
  /\ \A i, k \in DOMAIN brQueue : brQueue[i] = brQueue[k] => i = k
  /\ \A i \in DOMAIN brQueue : brPc[brQueue[i]] \in {"r_asleep", "w_asleep"}
  /\ \A t \in BrThreads : brPc[t] \in {"r_asleep", "w_asleep"} =>
       \E i \in DOMAIN brQueue : brQueue[i] = t

\* What a thread in the queue's lock still knows of a state it saw before: as
\* long as anybody waits, nobody gets the lock past the queue.
Knows(t) ==
  /\ brPc[t] \in {"r_take", "u_block"} => NoneAt(WriterPcs) /\ brBoosted = BrNone
  /\ brPc[t] \in {"r_wake", "w_wake"} => NoneAt(WriterPcs) /\ NoneAt(HolderPcs)
  /\ brPc[t] = "u_take" => /\ NoneAt(WriterPcs) /\ NoneAt(HolderPcs)
                           /\ brBoosted = BrNone
  /\ brPc[t] = "w_take" => /\ NoneAt(WriterPcs) /\ NoneAt(HolderPcs)
                           /\ brQueue = <<>>
  /\ brPc[t] = "wakeup_try" /\ brQueue # <<>> =>
       NoneAt(WriterPcs) /\ NoneAt(HolderPcs)

OwnerWrites == \A t \in BrThreads : brPc[t] = "writing" <=> brOwner = t

\* Nobody inherits from an empty queue, nor while threads read.
BoostedWrites ==
  /\ brQueue = <<>> \/ ~NoneAt(HolderPcs) => brBoosted = BrNone
  /\ \A t \in BrThreads : brPc[t] = "writing" => brBoosted \in {t, BrNone}

Remembered == ~NoneAt(BlockedPcs) => ~NoneAt(WakerPcs)

BrwIInv ==
  /\ BrTypes /\ Counted /\ WriterAlone /\ LockHeld /\ QueuedAsleep
  /\ \A t \in BrThreads : Knows(t)
  /\ OwnerWrites /\ BoostedWrites /\ Remembered
-----------------------------------------------------------------------------
(* Counting threads *)

One(b) == IF b THEN 1 ELSE 0

\* Threads at some places are finitely many.
LEMMA BrAtFinite ==
  ASSUME FiniteSizes, NEW A
  PROVE  IsFiniteSet(BrAt(A)) /\ Cardinality(BrAt(A)) \in Nat
<1>1. BrAt(A) \in SUBSET BrThreads
  BY Zenon DEF BrAt
<1> QED
  BY <1>1, BrAssumption, ZenonT(40) DEF FiniteSizes, SizePart, SizeType

\* A thread that moves changes the counts of the places it leaves and enters.
LEMMA BrAtMove ==
  ASSUME FiniteSizes, NEW A, brPc \in [BrThreads -> BrPcs], NEW t \in BrThreads, NEW q,
         brPc' = [brPc EXCEPT ![t] = q]
  PROVE  Cardinality(BrAt(A)') =
           Cardinality(BrAt(A)) + One(q \in A) - One(brPc[t] \in A)
<1>1. CASE q \in A /\ brPc[t] \in A
  <2>1. BrAt(A)' = BrAt(A)
    BY <1>1, ZenonT(40) DEF BrAt
  <2> QED
    BY <1>1, <2>1, BrAtFinite, SMTT(30) DEF One
<1>2. CASE q \notin A /\ brPc[t] \notin A
  <2>1. BrAt(A)' = BrAt(A)
    BY <1>2, ZenonT(40) DEF BrAt
  <2> QED
    BY <1>2, <2>1, BrAtFinite DEF One
<1>3. CASE q \in A /\ brPc[t] \notin A
  <2>1. BrAt(A)' = BrAt(A) \cup {t} /\ t \notin BrAt(A)
    BY <1>3, Zenon DEF BrAt
  <2> QED
    BY <1>3, <2>1, BrAtFinite, SMTT(30) DEF FiniteSizes, SizeMore, One
<1>4. CASE q \notin A /\ brPc[t] \in A
  <2>1. BrAt(A)' = BrAt(A) \ {t} /\ t \in BrAt(A)
    BY <1>4, Zenon DEF BrAt
  <2>2. Cardinality(BrAt(A) \ {t}) = Cardinality(BrAt(A)) - 1
    BY <2>1, BrAtFinite, Zenon DEF FiniteSizes, SizeLess
  <2> QED
    BY <1>4, <2>1, <2>2, BrAtFinite DEF One
<1> QED
  BY <1>1, <1>2, <1>3, <1>4, ZenonT(40)

\* The counts after a move, when state_ was changed accordingly.
LEMMA MoveCounted ==
  ASSUME FiniteSizes, BrTypes, Counted, NEW t \in BrThreads, NEW q,
         brPc' = [brPc EXCEPT ![t] = q],
         brReaders' = brReaders + One(q \in ReaderPcs) - One(brPc[t] \in ReaderPcs),
         brWaiters' = brWaiters + One(q \in WaiterPcs) - One(brPc[t] \in WaiterPcs)
  PROVE  Counted'
<1>1. /\ Cardinality(BrAt(ReaderPcs)') = brReaders'
      /\ Cardinality(BrAt(WaiterPcs)') = brWaiters'
  BY BrAtMove, Zenon DEF Counted, BrTypes
<1> QED
  BY <1>1, Zenon DEF Counted, ReaderPcs, WaiterPcs

\* What the counts say of the threads.
CountFacts ==
  /\ brReaders \in Nat /\ brWaiters \in Nat
  /\ brReaders = 0 <=> NoneAt(ReaderPcs)
  /\ brWaiters = 0 <=> NoneAt(WaiterPcs)
  /\ \A t \in BrThreads : brPc[t] \in ReaderPcs =>
       (brReaders = 1 <=> \A u \in BrThreads : brPc[u] \in ReaderPcs => u = t)

\* The counts are exact, so they say so.
LEMMA CountsKnow == FiniteSizes /\ Counted => CountFacts
<1> SUFFICES ASSUME FiniteSizes, Counted PROVE CountFacts
  OBVIOUS
<1> DEFINE R == BrAt(ReaderPcs)
           W == BrAt(WaiterPcs)
<1>1. IsFiniteSet(R) /\ IsFiniteSet(W) /\ brReaders \in Nat /\ brWaiters \in Nat
  BY BrAtFinite, Zenon DEF Counted
<1>2. (brReaders = 0 <=> R = {}) /\ (brWaiters = 0 <=> W = {})
  BY <1>1, Zenon DEF FiniteSizes, SizeNone, Counted
<1>3. ASSUME NEW t \in R
      PROVE  brReaders = 1 <=> \A u \in R : u = t
  <2>1. brReaders = 1 <=> \E x : R = {x}
    BY <1>1, Zenon DEF FiniteSizes, SizeOne, Counted
  <2>2. (\E x : R = {x}) <=> \A u \in R : u = t
    <3>1. ASSUME NEW x, R = {x}
          PROVE  \A u \in R : u = t
      BY <3>1, Zenon
    <3>2. ASSUME \A u \in R : u = t
          PROVE  R = {t}
      BY <3>2, Zenon
    <3> QED
      BY <3>1, <3>2, Zenon
  <2> QED
    BY <2>1, <2>2, Zenon
<1> QED
  BY <1>1, <1>2, <1>3, Zenon DEF CountFacts, NoneAt, BrAt

\* The writer's bit.
LEMMA Bit ==
  ASSUME NEW w \in 0..1
  PROVE  (w + 0) % 2 = w /\ (w + 1) % 2 = 1 - w
OBVIOUS

\* The initial state.
LEMMA BrwInitIInv == FiniteSizes /\ BrwInit => BrwIInv
<1> SUFFICES ASSUME FiniteSizes, BrwInit PROVE BrwIInv
  OBVIOUS
<1> USE BrAssumption DEF BrwInit
<1>0. \A t \in BrThreads : brPc[t] = "idle"
  OBVIOUS
<1>1. BrTypes
  <2>1. "idle" \in BrPcs
    BY Zenon DEF BrPcs
  <2>2. brPc \in [BrThreads -> BrPcs]
    BY <2>1, Zenon
  <2> QED
    BY <2>2 DEF BrTypes
<1>2. Counted
  <2>1. BrAt(ReaderPcs) = {} /\ BrAt(WaiterPcs) = {}
    BY <1>0, ZenonT(40) DEF BrAt, ReaderPcs, WaiterPcs
  <2> QED
    BY <2>1, Zenon DEF FiniteSizes, SizeNone, Counted
<1>3. WriterAlone /\ LockHeld
  BY <1>0, SMTT(30) DEF WriterAlone, LockHeld, NoneAt, WriterPcs, HolderPcs, LockPcs
<1>4. QueuedAsleep /\ \A t \in BrThreads : Knows(t)
  BY <1>0 DEF QueuedAsleep, Knows
<1>5. OwnerWrites /\ BoostedWrites /\ Remembered
  BY <1>0, Zenon DEF OwnerWrites, BoostedWrites, Remembered, NoneAt, BlockedPcs
<1> QED
  BY <1>1, <1>2, <1>3, <1>4, <1>5, ZenonT(40) DEF BrwIInv
-----------------------------------------------------------------------------
(* Steps of one thread that leave the queue alone *)

AsleepPcs == {"r_asleep", "w_asleep"}

\* Thread t goes to q, and state_ and the queue's lock change with it.
Moves(t, q) ==
  /\ q \in BrPcs /\ brPc' = [brPc EXCEPT ![t] = q]
  /\ brPc[t] \notin AsleepPcs /\ q \notin AsleepPcs
  /\ brReaders' = brReaders + One(q \in ReaderPcs) - One(brPc[t] \in ReaderPcs)
  /\ brWaiters' = brWaiters + One(q \in WaiterPcs) - One(brPc[t] \in WaiterPcs)
  /\ q \in LockPcs /\ brPc[t] \in LockPcs => brLock' = brLock
  /\ q \in LockPcs /\ brPc[t] \notin LockPcs => brLock = BrNone /\ brLock' = t
  /\ q \notin LockPcs /\ brPc[t] \in LockPcs => brLock' = BrNone
  /\ q \notin LockPcs /\ brPc[t] \notin LockPcs => brLock' = brLock
  /\ UNCHANGED <<brQueue, brBoosted>>
  /\ brBackOffs' \in 0..MaxBrBackOffs

\* No thread but t has to do with the lock's state staying as it is.
OthersUnaware(t) ==
  \A u \in BrThreads \ {t} :
    /\ brPc[u] \notin {"r_take", "r_wake", "w_wake", "u_take", "w_take", "u_block"}
    /\ brPc[u] = "wakeup_try" => brQueue = <<>>

\* What such a step does to each thread, and what it keeps.
LEMMA MovesKeep ==
  ASSUME FiniteSizes, BrwIInv, NEW t \in BrThreads, NEW q, Moves(t, q)
  PROVE  /\ brPc'[t] = q /\ \A u \in BrThreads \ {t} : brPc'[u] = brPc[u]
         /\ brPc' \in [BrThreads -> BrPcs]
         /\ brLock' \in BrThreads \cup {BrNone}
         /\ Counted' /\ LockHeld' /\ QueuedAsleep'
<1>1. brPc'[t] = q /\ \A u \in BrThreads \ {t} : brPc'[u] = brPc[u]
  BY Zenon DEF Moves, BrwIInv, BrTypes
<1>2. brPc' \in [BrThreads -> BrPcs]
  BY Zenon DEF Moves, BrwIInv, BrTypes
<1>3. Counted'
  BY MoveCounted, Zenon DEF Moves, BrwIInv
<1>4. LockHeld' /\ brLock' \in BrThreads \cup {BrNone}
  <2>1. LockHeld /\ BrNone \notin BrThreads /\ brLock \in BrThreads \cup {BrNone}
    BY BrAssumption, ZenonT(40) DEF BrwIInv, BrTypes
  <2>2. CASE q \in LockPcs /\ brPc[t] \in LockPcs
    BY <1>1, <2>1, <2>2, ZenonT(40) DEF LockHeld, Moves
  <2>3. CASE q \in LockPcs /\ brPc[t] \notin LockPcs
    BY <1>1, <2>1, <2>3, ZenonT(40) DEF LockHeld, Moves
  <2>4. CASE q \notin LockPcs /\ brPc[t] \in LockPcs
    BY <1>1, <2>1, <2>4, SMTT(30) DEF LockHeld, Moves
  <2>5. CASE q \notin LockPcs /\ brPc[t] \notin LockPcs
    BY <1>1, <2>1, <2>5, ZenonT(40) DEF LockHeld, Moves
  <2> QED
    BY <2>2, <2>3, <2>4, <2>5, ZenonT(40)
<1>5. QueuedAsleep'
  <2>1. QueuedAsleep /\ brQueue \in Seq(BrThreads) /\ brQueue' = brQueue
    BY Zenon DEF Moves, BrwIInv, BrTypes
  <2>2. \A u \in BrThreads : brPc'[u] \in AsleepPcs <=> brPc[u] \in AsleepPcs
    BY <1>1, Zenon DEF Moves
  <2>3. \A i \in DOMAIN brQueue : brQueue[i] \in BrThreads
    BY <2>1
  <2> QED
    BY <2>1, <2>2, <2>3, Zenon DEF QueuedAsleep, AsleepPcs
<1> QED
  BY <1>1, <1>2, <1>3, <1>4, <1>5, ZenonT(40)

\* Somebody will wake the blocked threads after the step.
StillWoken(t, q) ==
  \/ q \in WakerPcs
  \/ brPc[t] \notin WakerPcs /\ q \notin BlockedPcs
  \/ \E u \in BrThreads \ {t} : brPc[u] \in WakerPcs
  \/ NoneAt(BlockedPcs) /\ q \notin BlockedPcs

\* Such a step leaves no blocked thread to nobody.
LEMMA MovesRemember ==
  ASSUME FiniteSizes, BrwIInv, NEW t \in BrThreads, NEW q, Moves(t, q), StillWoken(t, q)
  PROVE  Remembered'
<1>1. brPc'[t] = q /\ \A u \in BrThreads \ {t} : brPc'[u] = brPc[u]
  BY MovesKeep, Zenon
<1>2. Remembered
  BY Zenon DEF BrwIInv
<1>3. CASE q \in WakerPcs
  BY <1>1, <1>3, ZenonT(40) DEF Remembered, NoneAt
<1>4. CASE brPc[t] \notin WakerPcs /\ q \notin BlockedPcs
  BY <1>1, <1>2, <1>4, ZenonT(40) DEF Remembered, NoneAt
<1>5. CASE \E u \in BrThreads \ {t} : brPc[u] \in WakerPcs
  BY <1>1, <1>5, ZenonT(40) DEF Remembered, NoneAt
<1>6. CASE NoneAt(BlockedPcs) /\ q \notin BlockedPcs
  BY <1>1, <1>6, ZenonT(40) DEF Remembered, NoneAt
<1> QED
  BY <1>3, <1>4, <1>5, <1>6, ZenonT(40) DEF StillWoken

\* A step that makes nobody a writer.  If it makes t a reader, no writer is
\* there and no thread relies on the lock being free.
PlainMove(t, q) ==
  /\ Moves(t, q)
  /\ brPc[t] \notin WriterPcs /\ q \notin WriterPcs
  /\ brWriter' = brWriter /\ brOwner' = brOwner
  /\ q \in HolderPcs /\ brPc[t] \notin HolderPcs =>
       NoneAt(WriterPcs) /\ brBoosted = BrNone /\ OthersUnaware(t)
  /\ StillWoken(t, q)

\* Such a step keeps the invariant, if t knows what it must.
LEMMA PlainStep ==
  ASSUME FiniteSizes, BrwIInv, NEW t \in BrThreads, NEW q, PlainMove(t, q), Knows(t)'
  PROVE  BrwIInv'
<1>1. Moves(t, q) /\ StillWoken(t, q)
  BY Zenon DEF PlainMove
<1>2. /\ brPc'[t] = q /\ \A u \in BrThreads \ {t} : brPc'[u] = brPc[u]
      /\ brPc' \in [BrThreads -> BrPcs]
      /\ brLock' \in BrThreads \cup {BrNone}
      /\ Counted' /\ LockHeld' /\ QueuedAsleep' /\ Remembered'
  BY <1>1, MovesKeep, MovesRemember, ZenonT(40)
<1>3. /\ BrTypes /\ WriterAlone /\ OwnerWrites /\ BoostedWrites
      /\ \A u \in BrThreads : Knows(u)
  BY Zenon DEF BrwIInv
<1>4. /\ brWriter' = brWriter /\ brOwner' = brOwner /\ brQueue' = brQueue
      /\ brBoosted' = brBoosted /\ brBackOffs' \in 0..MaxBrBackOffs
  BY <1>1, Zenon DEF PlainMove, Moves
<1>5. NoneAt(WriterPcs)' <=> NoneAt(WriterPcs)
  BY <1>2, Zenon DEF NoneAt, PlainMove
<1>6. \/ NoneAt(HolderPcs) => NoneAt(HolderPcs)'
      \/ NoneAt(WriterPcs) /\ brBoosted = BrNone /\ OthersUnaware(t)
  BY <1>2, ZenonT(40) DEF NoneAt, PlainMove
<1>7. BrTypes'
  BY <1>2, <1>3, <1>4, ZenonT(40) DEF BrTypes
<1>8. WriterAlone'
  BY <1>2, <1>3, <1>4, <1>5, <1>6, ZenonT(40) DEF WriterAlone, PlainMove
<1>9. ASSUME NEW u \in BrThreads
      PROVE  Knows(u)'
  <2>1. CASE u # t
    BY <1>2, <1>3, <1>4, <1>5, <1>6, <2>1, ZenonT(40) DEF Knows, OthersUnaware
  <2> QED
    BY <2>1, Zenon
<1>10. OwnerWrites'
  BY <1>2, <1>3, <1>4, ZenonT(40) DEF OwnerWrites, PlainMove, WriterPcs
<1>11. BoostedWrites'
  BY <1>2, <1>3, <1>4, <1>6, ZenonT(40) DEF BoostedWrites, PlainMove, WriterPcs
<1> QED
  BY <1>2, <1>7, <1>8, <1>9, <1>10, <1>11, ZenonT(40) DEF BrwIInv

\* A step that makes t the writer of a lock that nobody has.
WriteMove(t) ==
  /\ Moves(t, "writing")
  /\ \A u \in BrThreads \ {t} : brPc[u] \notin WriterPcs \cup HolderPcs
  /\ brPc[t] \notin WriterPcs
  /\ brWriter' = 1 /\ brOwner' = t /\ brBoosted = BrNone
  /\ OthersUnaware(t)

\* Such a step keeps the invariant.
LEMMA WriteStep ==
  ASSUME FiniteSizes, BrwIInv, NEW t \in BrThreads, WriteMove(t)
  PROVE  BrwIInv'
<1>1. Moves(t, "writing") /\ StillWoken(t, "writing")
  BY Zenon DEF WriteMove, StillWoken, WakerPcs
<1>2. /\ brPc'[t] = "writing" /\ \A u \in BrThreads \ {t} : brPc'[u] = brPc[u]
      /\ brPc' \in [BrThreads -> BrPcs]
      /\ brLock' \in BrThreads \cup {BrNone}
      /\ Counted' /\ LockHeld' /\ QueuedAsleep' /\ Remembered'
  BY <1>1, MovesKeep, MovesRemember, ZenonT(40)
<1>3. /\ BrTypes /\ WriterAlone /\ OwnerWrites /\ BoostedWrites
      /\ \A u \in BrThreads : Knows(u)
  BY Zenon DEF BrwIInv
<1>4. /\ brWriter' = 1 /\ brOwner' = t /\ brQueue' = brQueue
      /\ brBoosted' = BrNone /\ brBackOffs' \in 0..MaxBrBackOffs
  BY <1>1, ZenonT(40) DEF WriteMove, Moves
<1>5. NoneAt(HolderPcs)' /\ ~NoneAt(WriterPcs)'
  BY <1>2, ZenonT(40) DEF NoneAt, WriteMove, HolderPcs, WriterPcs
<1>6. BrTypes'
  BY <1>2, <1>3, <1>4, ZenonT(40) DEF BrTypes
<1>7. WriterAlone'
  <2>1. \A u \in BrThreads : brPc'[u] \in WriterPcs => u = t
    BY <1>2, Zenon DEF WriteMove
  <2> QED
    BY <1>4, <1>5, <2>1, SMTT(30) DEF WriterAlone
<1>8. ASSUME NEW u \in BrThreads
      PROVE  Knows(u)'
  <2>1. CASE u # t
    BY <1>2, <1>4, <2>1, ZenonT(40) DEF Knows, OthersUnaware, WriteMove
  <2>2. CASE u = t
    BY <1>2, <2>2, ZenonT(40) DEF Knows
  <2> QED
    BY <2>1, <2>2, ZenonT(40)
<1>9. OwnerWrites'
  BY <1>2, <1>4, ZenonT(40) DEF OwnerWrites, WriteMove, WriterPcs
<1>10. BoostedWrites'
  BY <1>4, ZenonT(40) DEF BoostedWrites
<1> QED
  BY <1>2, <1>6, <1>7, <1>8, <1>9, <1>10, ZenonT(40) DEF BrwIInv
-----------------------------------------------------------------------------
(* Every step keeps it *)

\* fetch_add of readers and waiters leaves the writer's bit alone.
LEMMA Fetch ==
  ASSUME WriterAlone, NEW r, NEW w, FetchAdd(r, w, 0)
  PROVE  brReaders' = brReaders + r /\ brWaiters' = brWaiters + w /\ brWriter' = brWriter
BY Bit, Zenon DEF FetchAdd, WriterAlone

\* What the invariant says of the counts and of the queue.
LEMMA Known ==
  ASSUME FiniteSizes, BrwIInv
  PROVE  /\ BrTypes /\ Counted /\ CountFacts /\ WriterAlone /\ LockHeld /\ QueuedAsleep
         /\ \A t \in BrThreads : Knows(t)
         /\ OwnerWrites /\ BoostedWrites /\ Remembered
         /\ BrNone \notin BrThreads
         /\ brWaiters = 0 => brQueue = <<>>
         /\ brWriter = 1 <=> ~NoneAt(WriterPcs)
<1>1. /\ BrTypes /\ Counted /\ CountFacts /\ WriterAlone /\ LockHeld /\ QueuedAsleep
      /\ \A t \in BrThreads : Knows(t)
      /\ OwnerWrites /\ BoostedWrites /\ Remembered
      /\ BrNone \notin BrThreads
  BY CountsKnow, BrAssumption, Zenon DEF BrwIInv
<1>2. ASSUME brQueue # <<>>
      PROVE  brWaiters # 0
  <2>1. 1 \in DOMAIN brQueue /\ brQueue[1] \in BrThreads
    BY <1>1, <1>2 DEF BrTypes
  <2>2. brPc[brQueue[1]] \in WaiterPcs
    BY <1>1, <2>1, ZenonT(40) DEF QueuedAsleep, WaiterPcs
  <2> QED
    BY <1>1, <2>1, <2>2, ZenonT(40) DEF CountFacts, NoneAt
<1>3. brWriter = 1 <=> ~NoneAt(WriterPcs)
  BY <1>1 DEF WriterAlone
<1> QED
  BY <1>1, <1>2, <1>3, ZenonT(40)

\* A reader comes.
LEMMA ReadAcquireStep ==
  ASSUME FiniteSizes, BrwIInv, NEW t \in BrThreads, ReadAcquire(t)
  PROVE  BrwIInv' /\ \E q : PlainMove(t, q)
<1>1. /\ brReaders \in Nat /\ brWaiters \in Nat
      /\ brReaders' = brReaders + 1 /\ brWaiters' = brWaiters + 0 /\ brWriter' = brWriter
  BY Known, Fetch, ZenonT(40) DEF ReadAcquire, CountFacts
<1>2. brBackOffs' \in 0..MaxBrBackOffs /\ UNCHANGED <<brOwner, brQueue, brBoosted>>
  BY Known, BrAssumption, Zenon DEF ReadAcquire, BrMove, BrFast, BrQueueSame, BrTypes
<1>3. CASE brWaiters = 0 /\ brWriter = 0
  <2>1. /\ brPc[t] = "idle" /\ brPc' = [brPc EXCEPT ![t] = "reading"]
        /\ brLock' = brLock
    BY <1>3, ZenonT(40) DEF ReadAcquire, BrFast, BrMove
  <2>2. Moves(t, "reading")
    BY <1>1, <1>2, <2>1, SMTT(30) DEF Moves, One, ReaderPcs, WaiterPcs, LockPcs,
       AsleepPcs, BrPcs
  <2>3. StillWoken(t, "reading")
    BY <2>1, <1>3, ZenonT(40) DEF StillWoken, WakerPcs
  <2>4. NoneAt(WriterPcs) /\ brBoosted = BrNone /\ OthersUnaware(t)
    BY <2>1, <1>3, Known, ZenonT(40) DEF WriterAlone, BoostedWrites, CountFacts, NoneAt,
       WaiterPcs,
       OthersUnaware
  <2>5. PlainMove(t, "reading")
    BY <1>1, <1>2, <2>1, <2>2, <2>3, <2>4, ZenonT(40) DEF PlainMove, WriterPcs
  <2>6. Knows(t)'
    BY <2>1, Known, ZenonT(40) DEF Knows, BrTypes
  <2> QED
    BY <2>5, <2>6, PlainStep, ZenonT(40)
<1>4. CASE ~(brWaiters = 0 /\ brWriter = 0)
  <2>1. /\ brPc[t] = "idle" /\ brPc' = [brPc EXCEPT ![t] = "r_spin"]
        /\ brLock' = brLock
    BY <1>4, ZenonT(40) DEF ReadAcquire, BrFast, BrMove
  <2>2. Moves(t, "r_spin")
    BY <1>1, <1>2, <2>1, SMTT(30) DEF Moves, One, ReaderPcs, WaiterPcs, LockPcs,
       AsleepPcs, BrPcs
  <2>3. StillWoken(t, "r_spin")
    BY <2>1, <1>4, ZenonT(40) DEF StillWoken, WakerPcs
  <2>4. PlainMove(t, "r_spin")
    BY <1>1, <1>2, <2>1, <2>2, <2>3, ZenonT(40) DEF PlainMove, WriterPcs, HolderPcs
  <2>5. Knows(t)'
    BY <2>1, Known, ZenonT(40) DEF Knows, BrTypes
  <2> QED
    BY <2>4, <2>5, PlainStep, ZenonT(40)
<1> QED
  BY <1>3, <1>4, <1>1, ZenonT(40)

\* A reader stops spinning.
LEMMA ReadSpinStep ==
  ASSUME FiniteSizes, BrwIInv, NEW t \in BrThreads, ReadSpin(t)
  PROVE  BrwIInv' /\ \E q : PlainMove(t, q)
<1>1. /\ brReaders \in Nat /\ brWaiters \in Nat
      /\ UNCHANGED <<brReaders, brWaiters, brWriter>>
  BY Known, Zenon DEF ReadSpin, brState, CountFacts
<1>2. brBackOffs' \in 0..MaxBrBackOffs /\ UNCHANGED <<brOwner, brQueue, brBoosted>>
  BY Known, BrAssumption, ZenonT(40) DEF ReadSpin, BrMove, BrFast, BrQueueSame,
     brState, BrTypes
<1>3. CASE brWaiters = 0 /\ brWriter = 0 /\ brPc'[t] = "reading"
  <2>1. /\ brPc[t] = "r_spin" /\ brPc' = [brPc EXCEPT ![t] = "reading"]
        /\ brLock' = brLock
    BY <1>3, Known, ZenonT(40) DEF ReadSpin, BrFast, BrMove, BrTypes
  <2>2. Moves(t, "reading")
    BY <1>1, <1>2, <2>1, SMTT(30) DEF Moves, One, ReaderPcs, WaiterPcs, LockPcs,
       AsleepPcs, BrPcs
  <2>3. StillWoken(t, "reading")
    BY <2>1, <1>3, ZenonT(40) DEF StillWoken, WakerPcs
  <2>4. NoneAt(WriterPcs) /\ brBoosted = BrNone /\ OthersUnaware(t)
    BY <2>1, <1>3, Known, ZenonT(40) DEF WriterAlone, BoostedWrites, CountFacts, NoneAt,
       WaiterPcs,
       OthersUnaware
  <2>5. PlainMove(t, "reading")
    BY <1>1, <1>2, <2>1, <2>2, <2>3, <2>4, SMTT(30) DEF PlainMove, WriterPcs
  <2>6. Knows(t)'
    BY <2>1, Known, ZenonT(40) DEF Knows, BrTypes
  <2> QED
    BY <2>5, <2>6, PlainStep, Zenon
<1>4. CASE brPc'[t] = "r_queue"
  <2>1. /\ brPc[t] = "r_spin" /\ brPc' = [brPc EXCEPT ![t] = "r_queue"]
        /\ brLock' = brLock
    BY <1>4, Known, ZenonT(40) DEF ReadSpin, BrFast, BrMove, BrTypes
  <2>2. Moves(t, "r_queue")
    BY <1>1, <1>2, <2>1, SMTT(30) DEF Moves, One, ReaderPcs, WaiterPcs, LockPcs,
       AsleepPcs, BrPcs
  <2>3. StillWoken(t, "r_queue")
    BY <2>1, <1>4, ZenonT(40) DEF StillWoken, WakerPcs
  <2>4. PlainMove(t, "r_queue")
    BY <1>1, <1>2, <2>1, <2>2, <2>3, ZenonT(40) DEF PlainMove, WriterPcs, HolderPcs
  <2>5. Knows(t)'
    BY <2>1, Known, ZenonT(40) DEF Knows, BrTypes
  <2> QED
    BY <2>4, <2>5, PlainStep, ZenonT(40)
<1> QED
  BY <1>3, <1>4, Known, ZenonT(40) DEF ReadSpin, BrMove, BrTypes

\* A reader becomes a waiter.
LEMMA ReadQueueStep ==
  ASSUME FiniteSizes, BrwIInv, NEW t \in BrThreads, ReadQueue(t)
  PROVE  BrwIInv' /\ \E q : PlainMove(t, q)
<1>1. /\ brReaders \in Nat /\ brWaiters \in Nat
      /\ brReaders' = brReaders + -1 /\ brWaiters' = brWaiters + 1 /\ brWriter' = brWriter
  BY Known, Fetch, ZenonT(40) DEF ReadQueue, CountFacts
<1>2. brBackOffs' \in 0..MaxBrBackOffs /\ UNCHANGED <<brOwner, brQueue, brBoosted>>
  BY Known, BrAssumption, ZenonT(40) DEF ReadQueue, BrMove, BrTakeLock, BrQueueSame,
     BrTypes
<1>3. CASE brWriter = 1
  <2>1. /\ brPc[t] = "r_queue" /\ brPc' = [brPc EXCEPT ![t] = "r_block"]
        /\ brLock = BrNone /\ brLock' = t
    BY <1>3, ZenonT(40) DEF ReadQueue, BrMove, BrTakeLock
  <2>2. Moves(t, "r_block")
    BY <1>1, <1>2, <2>1, SMTT(30) DEF Moves, One, ReaderPcs, WaiterPcs, LockPcs,
       AsleepPcs, BrPcs
  <2>3. StillWoken(t, "r_block")
    BY <2>1, <1>3, Known, ZenonT(40) DEF StillWoken, WakerPcs, NoneAt, WriterPcs,
       WriterAlone
  <2>4. PlainMove(t, "r_block")
    BY <1>1, <1>2, <2>1, <2>2, <2>3, ZenonT(40) DEF PlainMove, WriterPcs, HolderPcs
  <2>5. Knows(t)'
    BY <2>1, Known, ZenonT(40) DEF Knows, BrTypes
  <2> QED
    BY <2>4, <2>5, PlainStep, ZenonT(40)
<1>4. CASE brWriter # 1 /\ brWaiters = 0
  <2>1. /\ brPc[t] = "r_queue" /\ brPc' = [brPc EXCEPT ![t] = "r_take"]
        /\ brLock = BrNone /\ brLock' = t
    BY <1>4, ZenonT(40) DEF ReadQueue, BrMove, BrTakeLock
  <2>2. Moves(t, "r_take")
    BY <1>1, <1>2, <2>1, SMTT(30) DEF Moves, One, ReaderPcs, WaiterPcs, LockPcs,
       AsleepPcs, BrPcs
  <2>3. StillWoken(t, "r_take")
    BY <2>1, <1>4, ZenonT(40) DEF StillWoken, WakerPcs
  <2>4. PlainMove(t, "r_take")
    BY <1>1, <1>2, <2>1, <2>2, <2>3, ZenonT(40) DEF PlainMove, WriterPcs, HolderPcs
  <2>5. Knows(t)'
    BY <1>2, <2>1, <1>4, Known, ZenonT(40)
    DEF Knows, BrTypes, CountFacts, NoneAt, WriterAlone,
       BoostedWrites, ReaderPcs, WaiterPcs, WriterPcs, HolderPcs
  <2> QED
    BY <2>4, <2>5, PlainStep, Zenon
<1>5. CASE brWriter # 1 /\ brWaiters # 0 /\ brReaders = 1
  <2>1. /\ brPc[t] = "r_queue" /\ brPc' = [brPc EXCEPT ![t] = "r_wake"]
        /\ brLock = BrNone /\ brLock' = t
    BY <1>5, ZenonT(40) DEF ReadQueue, BrMove, BrTakeLock
  <2>2. Moves(t, "r_wake")
    BY <1>1, <1>2, <2>1, SMTT(30) DEF Moves, One, ReaderPcs, WaiterPcs, LockPcs,
       AsleepPcs, BrPcs
  <2>3. StillWoken(t, "r_wake")
    BY <2>1, <1>5, ZenonT(40) DEF StillWoken, WakerPcs
  <2>4. PlainMove(t, "r_wake")
    BY <1>1, <1>2, <2>1, <2>2, <2>3, ZenonT(40) DEF PlainMove, WriterPcs, HolderPcs
  <2>5. Knows(t)'
    BY <1>2, <2>1, <1>5, Known, SMTT(30) DEF Knows, BrTypes, CountFacts, NoneAt,
       WriterAlone,
       BoostedWrites, ReaderPcs, WaiterPcs, WriterPcs, HolderPcs
  <2> QED
    BY <2>4, <2>5, PlainStep, ZenonT(40)
<1>6. CASE brWriter # 1 /\ brWaiters # 0 /\ brReaders # 1
  <2>1. /\ brPc[t] = "r_queue" /\ brPc' = [brPc EXCEPT ![t] = "r_block"]
        /\ brLock = BrNone /\ brLock' = t
    BY <1>6, ZenonT(40) DEF ReadQueue, BrMove, BrTakeLock
  <2>2. Moves(t, "r_block")
    BY <1>1, <1>2, <2>1 DEF Moves, One, ReaderPcs, WaiterPcs, LockPcs, AsleepPcs, BrPcs
  <2>3. StillWoken(t, "r_block")
    BY <2>1, <1>6, Known, ZenonT(40) DEF StillWoken, WakerPcs, CountFacts, ReaderPcs
  <2>4. PlainMove(t, "r_block")
    BY <1>1, <1>2, <2>1, <2>2, <2>3, Zenon DEF PlainMove, WriterPcs, HolderPcs
  <2>5. Knows(t)'
    BY <2>1, Known, Zenon DEF Knows, BrTypes
  <2> QED
    BY <2>4, <2>5, PlainStep, Zenon
<1> QED
  BY <1>3, <1>4, <1>5, <1>6, <1>1, ZenonT(40)

\* The waiter is a reader again.
LEMMA ReadTakeStep ==
  ASSUME FiniteSizes, BrwIInv, NEW t \in BrThreads, ReadTake(t)
  PROVE  BrwIInv' /\ \E q : PlainMove(t, q)
<1>1. /\ brReaders \in Nat /\ brWaiters \in Nat
      /\ brReaders' = brReaders + 1 /\ brWaiters' = brWaiters + -1 /\ brWriter' = brWriter
  BY Known, Fetch, ZenonT(40) DEF ReadTake, CountFacts
<1>2. brBackOffs' \in 0..MaxBrBackOffs /\ UNCHANGED <<brOwner, brQueue, brBoosted>>
  BY Known, BrAssumption, ZenonT(40) DEF ReadTake, BrMove, BrDropLock, BrQueueSame,
     BrTypes
<1>3. /\ brPc[t] = "r_take" /\ brPc' = [brPc EXCEPT ![t] = "reading"]
      /\ brLock' = BrNone
  BY ZenonT(40) DEF ReadTake, BrDropLock, BrMove
<1>4. Moves(t, "reading")
  BY <1>1, <1>2, <1>3, SMTT(30) DEF Moves, One, ReaderPcs, WaiterPcs, LockPcs,
     AsleepPcs, BrPcs
<1>5. StillWoken(t, "reading")
  BY <1>3, Zenon DEF StillWoken, WakerPcs
<1>6. NoneAt(WriterPcs) /\ brBoosted = BrNone /\ OthersUnaware(t)
  BY <1>3, Known, ZenonT(40) DEF Knows, LockHeld, LockPcs, OthersUnaware
<1>7. PlainMove(t, "reading")
  BY <1>1, <1>2, <1>3, <1>4, <1>5, <1>6, ZenonT(40) DEF PlainMove, WriterPcs
<1>8. Knows(t)'
  BY <1>3, Known, ZenonT(40) DEF Knows, BrTypes
<1> QED
  BY <1>7, <1>8, PlainStep, Zenon

\* A reader does not get the locks to block.
LEMMA ReadBackOffStep ==
  ASSUME FiniteSizes, BrwIInv, NEW t \in BrThreads, ReadBackOff(t)
  PROVE  BrwIInv' /\ \E q : PlainMove(t, q)
<1>1. /\ brReaders \in Nat /\ brWaiters \in Nat
      /\ UNCHANGED <<brReaders, brWaiters, brWriter>>
  BY Known, ZenonT(40) DEF ReadBackOff, brState, CountFacts
<1>2. brBackOffs' \in 0..MaxBrBackOffs /\ UNCHANGED <<brOwner, brQueue, brBoosted>>
  BY Known, BrAssumption, SMTT(30) DEF ReadBackOff, BrMove, BrBackOff, BrDropLock,
     brState, BrTypes
<1>3. /\ brPc[t] = "r_block" /\ brPc' = [brPc EXCEPT ![t] = "r_restore"]
      /\ brLock' = BrNone
  BY Zenon DEF ReadBackOff, BrBackOff, BrDropLock, BrMove
<1>4. Moves(t, "r_restore")
  BY <1>1, <1>2, <1>3, SMTT(30) DEF Moves, One, ReaderPcs, WaiterPcs, LockPcs,
     AsleepPcs, BrPcs
<1>5. StillWoken(t, "r_restore")
  BY <1>3, ZenonT(40) DEF StillWoken, WakerPcs
<1>6. PlainMove(t, "r_restore")
  BY <1>1, <1>2, <1>3, <1>4, <1>5, ZenonT(40) DEF PlainMove, WriterPcs, HolderPcs
<1>7. Knows(t)'
  BY <1>3, Known, ZenonT(40) DEF Knows, BrTypes
<1> QED
  BY <1>6, <1>7, PlainStep, ZenonT(40)

\* It counts itself a reader again.
LEMMA ReadRestoreStep ==
  ASSUME FiniteSizes, BrwIInv, NEW t \in BrThreads, ReadRestore(t)
  PROVE  BrwIInv' /\ \E q : PlainMove(t, q)
<1>1. /\ brReaders \in Nat /\ brWaiters \in Nat
      /\ brReaders' = brReaders + 1 /\ brWaiters' = brWaiters + -1 /\ brWriter' = brWriter
  BY Known, Fetch, ZenonT(40) DEF ReadRestore, CountFacts
<1>2. brBackOffs' \in 0..MaxBrBackOffs /\ UNCHANGED <<brOwner, brQueue, brBoosted>>
  BY Known, BrAssumption, ZenonT(40) DEF ReadRestore, BrMove, BrFast, BrQueueSame, BrTypes
<1>3. /\ brPc[t] = "r_restore" /\ brPc' = [brPc EXCEPT ![t] = "r_queue"]
      /\ brLock' = brLock
  BY ZenonT(40) DEF ReadRestore, BrFast, BrMove
<1>4. Moves(t, "r_queue")
  BY <1>1, <1>2, <1>3, SMTT(30) DEF Moves, One, ReaderPcs, WaiterPcs, LockPcs,
     AsleepPcs, BrPcs
<1>5. StillWoken(t, "r_queue")
  BY <1>3, ZenonT(40) DEF StillWoken, WakerPcs
<1>6. PlainMove(t, "r_queue")
  BY <1>1, <1>2, <1>3, <1>4, <1>5, ZenonT(40) DEF PlainMove, WriterPcs, HolderPcs
<1>7. Knows(t)'
  BY <1>3, Known, ZenonT(40) DEF Knows, BrTypes
<1> QED
  BY <1>6, <1>7, PlainStep, Zenon

\* A reader that woke a writer starts again.
LEMMA ReadWokeStep ==
  ASSUME FiniteSizes, BrwIInv, NEW t \in BrThreads, ReadWoke(t)
  PROVE  BrwIInv' /\ \E q : PlainMove(t, q)
<1>1. /\ brReaders \in Nat /\ brWaiters \in Nat
      /\ brReaders' = brReaders + 1 /\ brWaiters' = brWaiters + -1 /\ brWriter' = brWriter
  BY Known, Fetch, ZenonT(40) DEF ReadWoke, CountFacts
<1>2. brBackOffs' \in 0..MaxBrBackOffs /\ UNCHANGED <<brOwner, brQueue, brBoosted>>
  BY Known, BrAssumption, ZenonT(40) DEF ReadWoke, BrMove, BrDropLock, BrQueueSame,
     BrTypes
<1>3. /\ brPc[t] = "r_woke" /\ brPc' = [brPc EXCEPT ![t] = "r_queue"]
      /\ brLock' = BrNone
  BY ZenonT(40) DEF ReadWoke, BrDropLock, BrMove
<1>4. Moves(t, "r_queue")
  BY <1>1, <1>2, <1>3, SMTT(30) DEF Moves, One, ReaderPcs, WaiterPcs, LockPcs,
     AsleepPcs, BrPcs
<1>5. StillWoken(t, "r_queue")
  BY <1>3, Zenon DEF StillWoken, WakerPcs
<1>6. PlainMove(t, "r_queue")
  BY <1>1, <1>2, <1>3, <1>4, <1>5, ZenonT(40) DEF PlainMove, WriterPcs, HolderPcs
<1>7. Knows(t)'
  BY <1>3, Known, ZenonT(40) DEF Knows, BrTypes
<1> QED
  BY <1>6, <1>7, PlainStep, Zenon

\* A reader finds nobody to wake, or does not get the locks.
LEMMA ReadWakeFailsStep ==
  ASSUME FiniteSizes, BrwIInv, NEW t \in BrThreads, ReadWakeFails(t)
  PROVE  BrwIInv' /\ \E q : PlainMove(t, q)
<1>1. /\ brReaders \in Nat /\ brWaiters \in Nat
      /\ brReaders' = brReaders + 1 /\ brWaiters' = brWaiters + -1 /\ brWriter' = brWriter
  BY Known, Fetch, ZenonT(40) DEF ReadWakeFails, CountFacts
<1>2. brBackOffs' \in 0..MaxBrBackOffs /\ UNCHANGED <<brOwner, brQueue, brBoosted>>
  BY Known, BrAssumption, SMTT(30) DEF ReadWakeFails, BrMove, BrBackOff, BrDropLock,
     BrQueueSame,
     BrTypes
<1>3. /\ brPc[t] = "r_wake" /\ brPc' = [brPc EXCEPT ![t] = "r_queue"]
      /\ brLock' = BrNone
  BY Known, ZenonT(40) DEF ReadWakeFails, BrBackOff, BrDropLock, BrMove, BrTypes
<1>4. Moves(t, "r_queue")
  BY <1>1, <1>2, <1>3, SMTT(30) DEF Moves, One, ReaderPcs, WaiterPcs, LockPcs,
     AsleepPcs, BrPcs
<1>5. StillWoken(t, "r_queue")
  BY <1>3, ZenonT(40) DEF StillWoken, WakerPcs
<1>6. PlainMove(t, "r_queue")
  BY <1>1, <1>2, <1>3, <1>4, <1>5, ZenonT(40) DEF PlainMove, WriterPcs, HolderPcs
<1>7. Knows(t)'
  BY <1>3, Known, ZenonT(40) DEF Knows, BrTypes
<1> QED
  BY <1>6, <1>7, PlainStep, Zenon

\* A reader leaves.
LEMMA ReadReleaseStep ==
  ASSUME FiniteSizes, BrwIInv, NEW t \in BrThreads, ReadRelease(t)
  PROVE  BrwIInv' /\ \E q : PlainMove(t, q)
<1>1. /\ brReaders \in Nat /\ brWaiters \in Nat
      /\ brReaders' = brReaders + -1 /\ brWaiters' = brWaiters + 0 /\ brWriter' = brWriter
  BY Known, Fetch, ZenonT(40) DEF ReadRelease, CountFacts
<1>2. brBackOffs' \in 0..MaxBrBackOffs /\ UNCHANGED <<brOwner, brQueue, brBoosted>>
  BY Known, BrAssumption, ZenonT(40) DEF ReadRelease, BrMove, BrFast, BrQueueSame, BrTypes
<1>3. CASE brReaders = 1 /\ brWaiters # 0
  <2>1. /\ brPc[t] = "reading" /\ brPc' = [brPc EXCEPT ![t] = "wakeup"]
        /\ brLock' = brLock
    BY <1>3, ZenonT(40) DEF ReadRelease, BrFast, BrMove
  <2>2. Moves(t, "wakeup")
    BY <1>1, <1>2, <2>1, SMTT(30) DEF Moves, One, ReaderPcs, WaiterPcs, LockPcs,
       AsleepPcs, BrPcs
  <2>3. StillWoken(t, "wakeup")
    BY <2>1, <1>3, ZenonT(40) DEF StillWoken, WakerPcs
  <2>4. PlainMove(t, "wakeup")
    BY <1>1, <1>2, <2>1, <2>2, <2>3, ZenonT(40) DEF PlainMove, WriterPcs, HolderPcs
  <2>5. Knows(t)'
    BY <2>1, Known, ZenonT(40) DEF Knows, BrTypes
  <2> QED
    BY <2>4, <2>5, PlainStep, ZenonT(40)
<1>4. CASE brWaiters = 0
  <2>1. /\ brPc[t] = "reading" /\ brPc' = [brPc EXCEPT ![t] = "idle"]
        /\ brLock' = brLock
    BY <1>4, ZenonT(40) DEF ReadRelease, BrFast, BrMove
  <2>2. Moves(t, "idle")
    BY <1>1, <1>2, <2>1, SMTT(30) DEF Moves, One, ReaderPcs, WaiterPcs, LockPcs,
       AsleepPcs, BrPcs
  <2>3. StillWoken(t, "idle")
    BY <2>1, <1>4, Known, ZenonT(40) DEF StillWoken, BlockedPcs, WaiterPcs, NoneAt,
       CountFacts
  <2>4. PlainMove(t, "idle")
    BY <1>1, <1>2, <2>1, <2>2, <2>3, ZenonT(40) DEF PlainMove, WriterPcs, HolderPcs
  <2>5. Knows(t)'
    BY <2>1, Known, ZenonT(40) DEF Knows, BrTypes
  <2> QED
    BY <2>4, <2>5, PlainStep, ZenonT(40)
<1>5. CASE brReaders # 1 /\ brWaiters # 0
  <2>1. /\ brPc[t] = "reading" /\ brPc' = [brPc EXCEPT ![t] = "idle"]
        /\ brLock' = brLock
    BY <1>5, ZenonT(40) DEF ReadRelease, BrFast, BrMove
  <2>2. Moves(t, "idle")
    BY <1>1, <1>2, <2>1 DEF Moves, One, ReaderPcs, WaiterPcs, LockPcs, AsleepPcs, BrPcs
  <2>3. StillWoken(t, "idle")
    BY <2>1, <1>5, Known, ZenonT(40) DEF StillWoken, WakerPcs, CountFacts, ReaderPcs
  <2>4. PlainMove(t, "idle")
    BY <1>1, <1>2, <2>1, <2>2, <2>3, Zenon DEF PlainMove, WriterPcs, HolderPcs
  <2>5. Knows(t)'
    BY <2>1, Known, Zenon DEF Knows, BrTypes
  <2> QED
    BY <2>4, <2>5, PlainStep, Zenon
<1> QED
  BY <1>3, <1>4, <1>5, <1>1, ZenonT(40)

\* A writer does not get the lock at once.
LEMMA WriteMissStep ==
  ASSUME FiniteSizes, BrwIInv, NEW t \in BrThreads, WriteMiss(t)
  PROVE  BrwIInv' /\ \E q : PlainMove(t, q)
<1>1. /\ brReaders \in Nat /\ brWaiters \in Nat
      /\ UNCHANGED <<brReaders, brWaiters, brWriter>>
  BY Known, Zenon DEF WriteMiss, brState, CountFacts
<1>2. brBackOffs' \in 0..MaxBrBackOffs /\ UNCHANGED <<brOwner, brQueue, brBoosted>>
  BY Known, BrAssumption, ZenonT(40) DEF WriteMiss, BrMove, BrFast, BrQueueSame, brState,
     BrTypes
<1>3. CASE brPc[t] = "idle"
  <2>1. /\ brPc[t] = "idle" /\ brPc' = [brPc EXCEPT ![t] = "w_spin"]
        /\ brLock' = brLock
    BY <1>3, Known, ZenonT(40) DEF WriteMiss, BrFast, BrMove, BrTypes
  <2>2. Moves(t, "w_spin")
    BY <1>1, <1>2, <2>1 DEF Moves, One, ReaderPcs, WaiterPcs, LockPcs, AsleepPcs, BrPcs
  <2>3. StillWoken(t, "w_spin")
    BY <2>1, <1>3, ZenonT(40) DEF StillWoken, WakerPcs, BlockedPcs
  <2>4. PlainMove(t, "w_spin")
    BY <1>1, <1>2, <2>1, <2>2, <2>3, ZenonT(40) DEF PlainMove, WriterPcs, HolderPcs
  <2>5. Knows(t)'
    BY <2>1, Known, ZenonT(40) DEF Knows, BrTypes
  <2> QED
    BY <2>4, <2>5, PlainStep, ZenonT(40)
<1>4. CASE brPc[t] = "w_spin"
  <2>1. /\ brPc[t] = "w_spin" /\ brPc' = [brPc EXCEPT ![t] = "w_queue"]
        /\ brLock' = brLock
    BY <1>4, Known, ZenonT(40) DEF WriteMiss, BrFast, BrMove, BrTypes
  <2>2. Moves(t, "w_queue")
    BY <1>1, <1>2, <2>1, SMTT(30) DEF Moves, One, ReaderPcs, WaiterPcs, LockPcs,
       AsleepPcs, BrPcs
  <2>3. StillWoken(t, "w_queue")
    BY <2>1, <1>4, ZenonT(40) DEF StillWoken, WakerPcs, BlockedPcs
  <2>4. PlainMove(t, "w_queue")
    BY <1>1, <1>2, <2>1, <2>2, <2>3, ZenonT(40) DEF PlainMove, WriterPcs, HolderPcs
  <2>5. Knows(t)'
    BY <2>1, Known, ZenonT(40) DEF Knows, BrTypes
  <2> QED
    BY <2>4, <2>5, PlainStep, ZenonT(40)
<1>5. CASE brPc[t] = "reading"
  <2>1. /\ brPc[t] = "reading" /\ brPc' = [brPc EXCEPT ![t] = "u_queue"]
        /\ brLock' = brLock
    BY <1>5, Known, ZenonT(40) DEF WriteMiss, BrFast, BrMove, BrTypes
  <2>2. Moves(t, "u_queue")
    BY <1>1, <1>2, <2>1, SMTT(30) DEF Moves, One, ReaderPcs, WaiterPcs, LockPcs,
       AsleepPcs, BrPcs
  <2>3. StillWoken(t, "u_queue")
    BY <2>1, <1>5, ZenonT(40) DEF StillWoken, WakerPcs
  <2>4. PlainMove(t, "u_queue")
    BY <1>1, <1>2, <2>1, <2>2, <2>3, ZenonT(40) DEF PlainMove, WriterPcs, HolderPcs
  <2>5. Knows(t)'
    BY <2>1, Known, ZenonT(40) DEF Knows, BrTypes
  <2> QED
    BY <2>4, <2>5, PlainStep, ZenonT(40)
<1> QED
  BY <1>3, <1>4, <1>5, ZenonT(40) DEF WriteMiss, BrMove

\* A writer becomes a waiter.
LEMMA WriteQueueStep ==
  ASSUME FiniteSizes, BrwIInv, NEW t \in BrThreads, WriteQueue(t)
  PROVE  BrwIInv' /\ \E q : PlainMove(t, q)
<1>1. /\ brReaders \in Nat /\ brWaiters \in Nat
      /\ brReaders' = brReaders + 0 /\ brWaiters' = brWaiters + 1 /\ brWriter' = brWriter
  BY Known, Fetch, ZenonT(40) DEF WriteQueue, CountFacts
<1>2. brBackOffs' \in 0..MaxBrBackOffs /\ UNCHANGED <<brOwner, brQueue, brBoosted>>
  BY Known, BrAssumption, ZenonT(40) DEF WriteQueue, BrMove, BrTakeLock, BrQueueSame,
     BrTypes
<1>3. CASE brWriter = 1
  <2>1. /\ brPc[t] = "w_queue" /\ brPc' = [brPc EXCEPT ![t] = "w_block"]
        /\ brLock = BrNone /\ brLock' = t
    BY <1>3, ZenonT(40) DEF WriteQueue, BrMove, BrTakeLock
  <2>2. Moves(t, "w_block")
    BY <1>1, <1>2, <2>1, SMTT(30) DEF Moves, One, ReaderPcs, WaiterPcs, LockPcs,
       AsleepPcs, BrPcs
  <2>3. StillWoken(t, "w_block")
    BY <2>1, <1>3, Known, ZenonT(40) DEF StillWoken, WakerPcs, NoneAt, WriterPcs,
       WriterAlone
  <2>4. PlainMove(t, "w_block")
    BY <1>1, <1>2, <2>1, <2>2, <2>3, ZenonT(40) DEF PlainMove, WriterPcs, HolderPcs
  <2>5. Knows(t)'
    BY <2>1, Known, ZenonT(40) DEF Knows, BrTypes
  <2> QED
    BY <2>4, <2>5, PlainStep, ZenonT(40)
<1>4. CASE brWriter # 1 /\ brReaders > 0
  <2>1. /\ brPc[t] = "w_queue" /\ brPc' = [brPc EXCEPT ![t] = "w_block"]
        /\ brLock = BrNone /\ brLock' = t
    BY <1>4, ZenonT(40) DEF WriteQueue, BrMove, BrTakeLock
  <2>2. Moves(t, "w_block")
    BY <1>1, <1>2, <2>1 DEF Moves, One, ReaderPcs, WaiterPcs, LockPcs, AsleepPcs, BrPcs
  <2>3. StillWoken(t, "w_block")
    BY <2>1, <1>4, Known, SMTT(30) DEF StillWoken, WakerPcs, NoneAt, CountFacts, ReaderPcs
  <2>4. PlainMove(t, "w_block")
    BY <1>1, <1>2, <2>1, <2>2, <2>3, Zenon DEF PlainMove, WriterPcs, HolderPcs
  <2>5. Knows(t)'
    BY <2>1, Known, Zenon DEF Knows, BrTypes
  <2> QED
    BY <2>4, <2>5, PlainStep, Zenon
<1>5. CASE brWriter # 1 /\ ~(brReaders > 0) /\ brWaiters = 0
  <2>1. /\ brPc[t] = "w_queue" /\ brPc' = [brPc EXCEPT ![t] = "w_take"]
        /\ brLock = BrNone /\ brLock' = t
    BY <1>5, ZenonT(40) DEF WriteQueue, BrMove, BrTakeLock
  <2>2. Moves(t, "w_take")
    BY <1>1, <1>2, <2>1, SMTT(30) DEF Moves, One, ReaderPcs, WaiterPcs, LockPcs,
       AsleepPcs, BrPcs
  <2>3. StillWoken(t, "w_take")
    BY <2>1, <1>5, ZenonT(40) DEF StillWoken, WakerPcs, BlockedPcs
  <2>4. PlainMove(t, "w_take")
    BY <1>1, <1>2, <2>1, <2>2, <2>3, ZenonT(40) DEF PlainMove, WriterPcs, HolderPcs
  <2>5. Knows(t)'
    BY <1>2, <2>1, <1>5, Known, SMTT(30) DEF Knows, BrTypes, CountFacts, NoneAt,
       WriterAlone,
       BoostedWrites, ReaderPcs, WaiterPcs, WriterPcs, HolderPcs
  <2> QED
    BY <2>4, <2>5, PlainStep, ZenonT(40)
<1>6. CASE brWriter # 1 /\ ~(brReaders > 0) /\ brWaiters # 0
  <2>1. /\ brPc[t] = "w_queue" /\ brPc' = [brPc EXCEPT ![t] = "w_wake"]
        /\ brLock = BrNone /\ brLock' = t
    BY <1>6, ZenonT(40) DEF WriteQueue, BrMove, BrTakeLock
  <2>2. Moves(t, "w_wake")
    BY <1>1, <1>2, <2>1, SMTT(30) DEF Moves, One, ReaderPcs, WaiterPcs, LockPcs,
       AsleepPcs, BrPcs
  <2>3. StillWoken(t, "w_wake")
    BY <2>1, <1>6, ZenonT(40) DEF StillWoken, WakerPcs, BlockedPcs
  <2>4. PlainMove(t, "w_wake")
    BY <1>1, <1>2, <2>1, <2>2, <2>3, ZenonT(40) DEF PlainMove, WriterPcs, HolderPcs
  <2>5. Knows(t)'
    BY <1>2, <2>1, <1>6, Known, SMTT(30) DEF Knows, BrTypes, CountFacts, NoneAt,
       WriterAlone,
       BoostedWrites, ReaderPcs, WaiterPcs, WriterPcs, HolderPcs
  <2> QED
    BY <2>4, <2>5, PlainStep, ZenonT(40)
<1> QED
  BY <1>3, <1>4, <1>5, <1>6, <1>1, ZenonT(40)

\* A writer does not get the locks to block.
LEMMA WriteBackOffStep ==
  ASSUME FiniteSizes, BrwIInv, NEW t \in BrThreads, WriteBackOff(t)
  PROVE  BrwIInv' /\ \E q : PlainMove(t, q)
<1>1. /\ brReaders \in Nat /\ brWaiters \in Nat
      /\ brReaders' = brReaders + 0 /\ brWaiters' = brWaiters + -1 /\ brWriter' = brWriter
  BY Known, Fetch, ZenonT(40) DEF WriteBackOff, CountFacts
<1>2. brBackOffs' \in 0..MaxBrBackOffs /\ UNCHANGED <<brOwner, brQueue, brBoosted>>
  BY Known, BrAssumption, SMTT(30) DEF WriteBackOff, BrMove, BrBackOff, BrDropLock,
     BrTypes
<1>3. /\ brPc[t] = "w_block" /\ brPc' = [brPc EXCEPT ![t] = "w_queue"]
      /\ brLock' = BrNone
  BY Zenon DEF WriteBackOff, BrBackOff, BrDropLock, BrMove
<1>4. Moves(t, "w_queue")
  BY <1>1, <1>2, <1>3 DEF Moves, One, ReaderPcs, WaiterPcs, LockPcs, AsleepPcs, BrPcs
<1>5. StillWoken(t, "w_queue")
  BY <1>3, Zenon DEF StillWoken, WakerPcs, BlockedPcs
<1>6. PlainMove(t, "w_queue")
  BY <1>1, <1>2, <1>3, <1>4, <1>5, ZenonT(40) DEF PlainMove, WriterPcs, HolderPcs
<1>7. Knows(t)'
  BY <1>3, Known, ZenonT(40) DEF Knows, BrTypes
<1> QED
  BY <1>6, <1>7, PlainStep, Zenon

\* A writer finds nobody to wake, or does not get the locks.
LEMMA WriteWakeFailsStep ==
  ASSUME FiniteSizes, BrwIInv, NEW t \in BrThreads, WriteWakeFails(t)
  PROVE  BrwIInv' /\ \E q : PlainMove(t, q)
<1>1. /\ brReaders \in Nat /\ brWaiters \in Nat
      /\ brReaders' = brReaders + 0 /\ brWaiters' = brWaiters + -1 /\ brWriter' = brWriter
  BY Known, Fetch, ZenonT(40) DEF WriteWakeFails, CountFacts
<1>2. brBackOffs' \in 0..MaxBrBackOffs /\ UNCHANGED <<brOwner, brQueue, brBoosted>>
  BY Known, BrAssumption, SMTT(30) DEF WriteWakeFails, BrMove, BrBackOff, BrDropLock,
     BrQueueSame,
     BrTypes
<1>3. /\ brPc[t] = "w_wake" /\ brPc' = [brPc EXCEPT ![t] = "w_queue"]
      /\ brLock' = BrNone
  BY ZenonT(40) DEF WriteWakeFails, BrBackOff, BrDropLock, BrMove
<1>4. Moves(t, "w_queue")
  BY <1>1, <1>2, <1>3, SMTT(30) DEF Moves, One, ReaderPcs, WaiterPcs, LockPcs,
     AsleepPcs, BrPcs
<1>5. StillWoken(t, "w_queue")
  BY <1>3, ZenonT(40) DEF StillWoken, WakerPcs, BlockedPcs
<1>6. PlainMove(t, "w_queue")
  BY <1>1, <1>2, <1>3, <1>4, <1>5, ZenonT(40) DEF PlainMove, WriterPcs, HolderPcs
<1>7. Knows(t)'
  BY <1>3, Known, ZenonT(40) DEF Knows, BrTypes
<1> QED
  BY <1>6, <1>7, PlainStep, Zenon

\* A thread that left looks whether to wake the others.
LEMMA ReleaseWakeupStep ==
  ASSUME FiniteSizes, BrwIInv, NEW t \in BrThreads, ReleaseWakeup(t)
  PROVE  BrwIInv' /\ \E q : PlainMove(t, q)
<1>1. /\ brReaders \in Nat /\ brWaiters \in Nat
      /\ UNCHANGED <<brReaders, brWaiters, brWriter>>
  BY Known, Zenon DEF ReleaseWakeup, brState, CountFacts
<1>2. brBackOffs' \in 0..MaxBrBackOffs /\ UNCHANGED <<brOwner, brQueue, brBoosted>>
  BY Known, BrAssumption, ZenonT(40) DEF ReleaseWakeup, BrMove, BrQueueSame, brState,
     BrTypes
<1>3. CASE brWaiters > 0 /\ brWriter = 0 /\ brReaders = 0
  <2>1. /\ brPc[t] = "wakeup" /\ brPc' = [brPc EXCEPT ![t] = "wakeup_try"]
        /\ brLock = BrNone /\ brLock' = t
    BY <1>3, Known, ZenonT(40) DEF ReleaseWakeup, BrMove, BrTypes
  <2>2. Moves(t, "wakeup_try")
    BY <1>1, <1>2, <2>1, SMTT(30) DEF Moves, One, ReaderPcs, WaiterPcs, LockPcs,
       AsleepPcs, BrPcs
  <2>3. StillWoken(t, "wakeup_try")
    BY <2>1, <1>3, ZenonT(40) DEF StillWoken, WakerPcs
  <2>4. PlainMove(t, "wakeup_try")
    BY <1>1, <1>2, <2>1, <2>2, <2>3, ZenonT(40) DEF PlainMove, WriterPcs, HolderPcs
  <2>5. Knows(t)'
    BY <1>2, <2>1, <1>3, Known, ZenonT(40)
    DEF Knows, BrTypes, CountFacts, NoneAt, WriterAlone,
       BoostedWrites, ReaderPcs, WaiterPcs, WriterPcs, HolderPcs
  <2> QED
    BY <2>4, <2>5, PlainStep, ZenonT(40)
<1>4. CASE brWaiters = 0
  <2>1. /\ brPc[t] = "wakeup" /\ brPc' = [brPc EXCEPT ![t] = "idle"]
        /\ brLock' = brLock
    BY <1>4, Known, SMTT(30) DEF ReleaseWakeup, BrMove, BrTypes
  <2>2. Moves(t, "idle")
    BY <1>1, <1>2, <2>1, SMTT(30) DEF Moves, One, ReaderPcs, WaiterPcs, LockPcs,
       AsleepPcs, BrPcs
  <2>3. StillWoken(t, "idle")
    BY <2>1, <1>4, Known, ZenonT(40) DEF StillWoken, BlockedPcs, WaiterPcs, NoneAt,
       CountFacts
  <2>4. PlainMove(t, "idle")
    BY <1>1, <1>2, <2>1, <2>2, <2>3, ZenonT(40) DEF PlainMove, WriterPcs, HolderPcs
  <2>5. Knows(t)'
    BY <2>1, Known, ZenonT(40) DEF Knows, BrTypes
  <2> QED
    BY <2>4, <2>5, PlainStep, Zenon
<1>5. CASE brWaiters > 0 /\ brWriter # 0
  <2>1. /\ brPc[t] = "wakeup" /\ brPc' = [brPc EXCEPT ![t] = "idle"]
        /\ brLock' = brLock
    BY <1>5, Known, ZenonT(40) DEF ReleaseWakeup, BrMove, BrTypes
  <2>2. Moves(t, "idle")
    BY <1>1, <1>2, <2>1 DEF Moves, One, ReaderPcs, WaiterPcs, LockPcs, AsleepPcs, BrPcs
  <2>3. StillWoken(t, "idle")
    BY <2>1, <1>5, Known, ZenonT(40) DEF StillWoken, WakerPcs, NoneAt, WriterPcs,
       WriterAlone
  <2>4. PlainMove(t, "idle")
    BY <1>1, <1>2, <2>1, <2>2, <2>3, Zenon DEF PlainMove, WriterPcs, HolderPcs
  <2>5. Knows(t)'
    BY <2>1, Known, Zenon DEF Knows, BrTypes
  <2> QED
    BY <2>4, <2>5, PlainStep, Zenon
<1>6. CASE brWaiters > 0 /\ brWriter = 0 /\ brReaders # 0
  <2>1. /\ brPc[t] = "wakeup" /\ brPc' = [brPc EXCEPT ![t] = "idle"]
        /\ brLock' = brLock
    BY <1>6, Known, ZenonT(40) DEF ReleaseWakeup, BrMove, BrTypes
  <2>2. Moves(t, "idle")
    BY <1>1, <1>2, <2>1 DEF Moves, One, ReaderPcs, WaiterPcs, LockPcs, AsleepPcs, BrPcs
  <2>3. StillWoken(t, "idle")
    BY <2>1, <1>6, Known, ZenonT(40) DEF StillWoken, WakerPcs, NoneAt, CountFacts,
       ReaderPcs
  <2>4. PlainMove(t, "idle")
    BY <1>1, <1>2, <2>1, <2>2, <2>3, Zenon DEF PlainMove, WriterPcs, HolderPcs
  <2>5. Knows(t)'
    BY <2>1, Known, Zenon DEF Knows, BrTypes
  <2> QED
    BY <2>4, <2>5, PlainStep, Zenon
<1> QED
  BY <1>3, <1>4, <1>5, <1>6, <1>1, SMTT(30)

\* It finds nobody, or does not get the locks.
LEMMA ReleaseWakeFailsStep ==
  ASSUME FiniteSizes, BrwIInv, NEW t \in BrThreads, ReleaseWakeFails(t)
  PROVE  BrwIInv' /\ \E q : PlainMove(t, q)
<1>1. /\ brReaders \in Nat /\ brWaiters \in Nat
      /\ UNCHANGED <<brReaders, brWaiters, brWriter>>
  BY Known, ZenonT(40) DEF ReleaseWakeFails, brState, CountFacts
<1>2. brBackOffs' \in 0..MaxBrBackOffs /\ UNCHANGED <<brOwner, brQueue, brBoosted>>
  BY Known, BrAssumption, SMTT(30) DEF ReleaseWakeFails, BrMove, BrBackOff, BrDropLock,
     BrQueueSame,
     brState, BrTypes
<1>3. /\ brPc[t] = "wakeup_try" /\ brPc' = [brPc EXCEPT ![t] = "wakeup"]
      /\ brLock' = BrNone
  BY ZenonT(40) DEF ReleaseWakeFails, BrBackOff, BrDropLock, BrMove
<1>4. Moves(t, "wakeup")
  BY <1>1, <1>2, <1>3, SMTT(30) DEF Moves, One, ReaderPcs, WaiterPcs, LockPcs,
     AsleepPcs, BrPcs
<1>5. StillWoken(t, "wakeup")
  BY <1>3, ZenonT(40) DEF StillWoken, WakerPcs
<1>6. PlainMove(t, "wakeup")
  BY <1>1, <1>2, <1>3, <1>4, <1>5, ZenonT(40) DEF PlainMove, WriterPcs, HolderPcs
<1>7. Knows(t)'
  BY <1>3, Known, ZenonT(40) DEF Knows, BrTypes
<1> QED
  BY <1>6, <1>7, PlainStep, Zenon

\* A reader that wants to write becomes a waiter.
LEMMA UpgradeQueueStep ==
  ASSUME FiniteSizes, BrwIInv, NEW t \in BrThreads, UpgradeQueue(t)
  PROVE  BrwIInv' /\ \E q : PlainMove(t, q)
<1>1. /\ brReaders \in Nat /\ brWaiters \in Nat
      /\ brReaders' = brReaders + -1 /\ brWaiters' = brWaiters + 1 /\ brWriter' = brWriter
  BY Known, Fetch, ZenonT(40) DEF UpgradeQueue, CountFacts
<1>2. brBackOffs' \in 0..MaxBrBackOffs /\ UNCHANGED <<brOwner, brQueue, brBoosted>>
  BY Known, BrAssumption, ZenonT(40) DEF UpgradeQueue, BrMove, BrTakeLock, BrQueueSame,
     BrTypes
<1>3. CASE brReaders = 1 /\ brWriter = 0
  <2>1. /\ brPc[t] = "u_queue" /\ brPc' = [brPc EXCEPT ![t] = "u_take"]
        /\ brLock = BrNone /\ brLock' = t
    BY <1>3, ZenonT(40) DEF UpgradeQueue, BrMove, BrTakeLock
  <2>2. Moves(t, "u_take")
    BY <1>1, <1>2, <2>1, SMTT(30) DEF Moves, One, ReaderPcs, WaiterPcs, LockPcs,
       AsleepPcs, BrPcs
  <2>3. StillWoken(t, "u_take")
    BY <2>1, <1>3, ZenonT(40) DEF StillWoken, WakerPcs
  <2>4. PlainMove(t, "u_take")
    BY <1>1, <1>2, <2>1, <2>2, <2>3, ZenonT(40) DEF PlainMove, WriterPcs, HolderPcs
  <2>5. Knows(t)'
    BY <1>2, <2>1, <1>3, Known, ZenonT(40)
    DEF Knows, BrTypes, CountFacts, NoneAt, WriterAlone,
       BoostedWrites, ReaderPcs, WaiterPcs, WriterPcs, HolderPcs
  <2> QED
    BY <2>4, <2>5, PlainStep, ZenonT(40)
<1>4. CASE brReaders # 1
  <2>1. /\ brPc[t] = "u_queue" /\ brPc' = [brPc EXCEPT ![t] = "u_block"]
        /\ brLock = BrNone /\ brLock' = t
    BY <1>4, ZenonT(40) DEF UpgradeQueue, BrMove, BrTakeLock
  <2>2. Moves(t, "u_block")
    BY <1>1, <1>2, <2>1, SMTT(30) DEF Moves, One, ReaderPcs, WaiterPcs, LockPcs,
       AsleepPcs, BrPcs
  <2>3. StillWoken(t, "u_block")
    BY <2>1, <1>4, Known, ZenonT(40) DEF StillWoken, WakerPcs, CountFacts, ReaderPcs
  <2>4. PlainMove(t, "u_block")
    BY <1>1, <1>2, <2>1, <2>2, <2>3, ZenonT(40) DEF PlainMove, WriterPcs, HolderPcs
  <2>5. Knows(t)'
    BY <1>2, <2>1, <1>4, Known, ZenonT(40)
    DEF Knows, BrTypes, CountFacts, NoneAt, WriterAlone,
       BoostedWrites, ReaderPcs, WaiterPcs, WriterPcs, HolderPcs
  <2> QED
    BY <2>4, <2>5, PlainStep, ZenonT(40)
<1>5. CASE brReaders = 1 /\ brWriter # 0
  <2>1. /\ brPc[t] = "u_queue" /\ brPc' = [brPc EXCEPT ![t] = "u_block"]
        /\ brLock = BrNone /\ brLock' = t
    BY <1>5, ZenonT(40) DEF UpgradeQueue, BrMove, BrTakeLock
  <2>2. Moves(t, "u_block")
    BY <1>1, <1>2, <2>1 DEF Moves, One, ReaderPcs, WaiterPcs, LockPcs, AsleepPcs, BrPcs
  <2>3. StillWoken(t, "u_block")
    BY <2>1, <1>5, Known, ZenonT(40) DEF StillWoken, WakerPcs, NoneAt, WriterPcs,
       WriterAlone
  <2>4. PlainMove(t, "u_block")
    BY <1>1, <1>2, <2>1, <2>2, <2>3, Zenon DEF PlainMove, WriterPcs, HolderPcs
  <2>5. Knows(t)'
    BY <1>2, <2>1, <1>5, Known, ZenonT(40)
    DEF Knows, BrTypes, CountFacts, NoneAt, WriterAlone,
       BoostedWrites, ReaderPcs, WaiterPcs, WriterPcs, HolderPcs
  <2> QED
    BY <2>4, <2>5, PlainStep, Zenon
<1> QED
  BY <1>3, <1>4, <1>5, <1>1, ZenonT(40)

\* It does not get the locks to block.
LEMMA UpgradeBackOffStep ==
  ASSUME FiniteSizes, BrwIInv, NEW t \in BrThreads, UpgradeBackOff(t)
  PROVE  BrwIInv' /\ \E q : PlainMove(t, q)
<1>1. /\ brReaders \in Nat /\ brWaiters \in Nat
      /\ brReaders' = brReaders + 1 /\ brWaiters' = brWaiters + -1 /\ brWriter' = brWriter
  BY Known, Fetch, ZenonT(40) DEF UpgradeBackOff, CountFacts
<1>2. brBackOffs' \in 0..MaxBrBackOffs /\ UNCHANGED <<brOwner, brQueue, brBoosted>>
  BY Known, BrAssumption, SMTT(30) DEF UpgradeBackOff, BrMove, BrBackOff, BrDropLock,
     BrTypes
<1>3. /\ brPc[t] = "u_block" /\ brPc' = [brPc EXCEPT ![t] = "u_queue"]
      /\ brLock' = BrNone
  BY Zenon DEF UpgradeBackOff, BrBackOff, BrDropLock, BrMove
<1>4. Moves(t, "u_queue")
  BY <1>1, <1>2, <1>3 DEF Moves, One, ReaderPcs, WaiterPcs, LockPcs, AsleepPcs, BrPcs
<1>5. StillWoken(t, "u_queue")
  BY <1>3, ZenonT(40) DEF StillWoken, WakerPcs
<1>6. NoneAt(WriterPcs) /\ brBoosted = BrNone /\ OthersUnaware(t)
  BY <1>3, Known, SMTT(30) DEF Knows, LockHeld, LockPcs, OthersUnaware
<1>7. PlainMove(t, "u_queue")
  BY <1>1, <1>2, <1>3, <1>4, <1>5, <1>6, ZenonT(40) DEF PlainMove, WriterPcs
<1>8. Knows(t)'
  BY <1>3, Known, ZenonT(40) DEF Knows, BrTypes
<1> QED
  BY <1>7, <1>8, PlainStep, Zenon

\* A writer takes the lock that nobody waits for.
LEMMA WriteTakeStep ==
  ASSUME FiniteSizes, BrwIInv, NEW t \in BrThreads, WriteTake(t) \/ UpgradeTake(t)
  PROVE  BrwIInv' /\ WriteMove(t)
<1>1. /\ brPc[t] \in {"w_take", "u_take"}
      /\ brPc' = [brPc EXCEPT ![t] = "writing"]
      /\ brLock' = BrNone /\ brOwner' = t
      /\ FetchAdd(0, -1, 1)
      /\ UNCHANGED <<brQueue, brBoosted, brBackOffs>>
  BY Zenon DEF WriteTake, UpgradeTake, BrMove, BrDropLock
<1>2. /\ NoneAt(WriterPcs) /\ NoneAt(HolderPcs) /\ brWriter = 0
      /\ brBoosted = BrNone
      /\ brReaders \in Nat /\ brWaiters \in Nat /\ brBackOffs \in 0..MaxBrBackOffs
  BY <1>1, Known, ZenonT(40) DEF Knows, WriterAlone, BoostedWrites, CountFacts, BrTypes
<1>3. brReaders' = brReaders + 0 /\ brWaiters' = brWaiters - 1 /\ brWriter' = 1
  BY <1>1, <1>2, Bit, SMTT(30) DEF FetchAdd
<1>4. Moves(t, "writing")
  BY <1>1, <1>2, <1>3, SMTT(30) DEF Moves, One, ReaderPcs, WaiterPcs, LockPcs,
     AsleepPcs, BrPcs
<1>5. OthersUnaware(t)
  BY <1>1, Known, ZenonT(40) DEF LockHeld, LockPcs, OthersUnaware
<1>6. WriteMove(t)
  BY <1>1, <1>2, <1>3, <1>4, <1>5, ZenonT(40) DEF WriteMove, NoneAt, WriterPcs
<1> QED
  BY <1>6, WriteStep, ZenonT(40)

\* A writer takes the lock in one exchange.
LEMMA AtomicWriteAcquireStep ==
  ASSUME FiniteSizes, BrwIInv, NEW t \in BrThreads, AtomicWriteAcquire(t)
  PROVE  BrwIInv' /\ WriteMove(t)
<1>1. /\ brPc' = [brPc EXCEPT ![t] = "writing"]
      /\ \/ brPc[t] \in {"idle", "w_spin"} /\ brReaders = 0
         \/ brPc[t] = "reading" /\ brReaders = 1
      /\ brWaiters = 0 /\ brWriter = 0
      /\ brReaders' = 0 /\ brWriter' = 1 /\ brWaiters' = brWaiters
      /\ brOwner' = t
      /\ UNCHANGED <<brQueue, brBoosted, brLock, brBackOffs>>
  BY Zenon DEF AtomicWriteAcquire, BrMove
<1>2. /\ NoneAt(WriterPcs) /\ NoneAt(WaiterPcs) /\ brQueue = <<>> /\ brBoosted = BrNone
      /\ brBackOffs \in 0..MaxBrBackOffs
  BY <1>1, Known, ZenonT(40) DEF WriterAlone, BoostedWrites, CountFacts, BrTypes
<1>3. \A u \in BrThreads \ {t} : brPc[u] \notin HolderPcs
  BY <1>1, Known, ZenonT(40) DEF CountFacts, NoneAt, ReaderPcs, HolderPcs
<1>4. Moves(t, "writing")
  BY <1>1, <1>2, SMTT(30) DEF Moves, One, ReaderPcs, WaiterPcs, LockPcs, AsleepPcs, BrPcs
<1>5. OthersUnaware(t)
  BY <1>2, ZenonT(40) DEF NoneAt, WaiterPcs, OthersUnaware
<1>6. WriteMove(t)
  BY <1>1, <1>2, <1>3, <1>4, <1>5, ZenonT(40) DEF WriteMove, NoneAt, WriterPcs
<1> QED
  BY <1>6, WriteStep, ZenonT(40)

\* The writer leaves: writer_ first.
LEMMA WriteReleaseStep ==
  ASSUME FiniteSizes, BrwIInv, NEW t \in BrThreads, WriteRelease(t)
  PROVE  BrwIInv'
<1>1. /\ brPc[t] = "writing" /\ brPc' = [brPc EXCEPT ![t] = "w_release"]
      /\ brOwner' = BrNone
      /\ UNCHANGED <<brReaders, brWaiters, brWriter, brQueue, brBoosted, brLock, brBackOffs>>
  BY Zenon DEF WriteRelease, BrMove, brState
<1>2. Moves(t, "w_release") /\ StillWoken(t, "w_release")
  <2>1. brReaders \in Nat /\ brWaiters \in Nat /\ brBackOffs \in 0..MaxBrBackOffs
    BY Known, ZenonT(40) DEF CountFacts, BrTypes
  <2>2. Moves(t, "w_release")
    BY <1>1, <2>1, SMTT(30) DEF Moves, One, ReaderPcs, WaiterPcs, LockPcs, AsleepPcs,
       BrPcs
  <2> QED
    BY <2>2, ZenonT(40) DEF StillWoken, WakerPcs
<1>3. /\ brPc'[t] = "w_release" /\ \A u \in BrThreads \ {t} : brPc'[u] = brPc[u]
      /\ brPc' \in [BrThreads -> BrPcs]
      /\ Counted' /\ LockHeld' /\ QueuedAsleep' /\ Remembered'
  BY <1>2, MovesKeep, MovesRemember, ZenonT(40)
<1>4. BrTypes'
  BY <1>1, <1>3, Known, ZenonT(40) DEF BrTypes
<1>5. /\ ~NoneAt(WriterPcs) /\ ~NoneAt(WriterPcs)'
      /\ \A u \in BrThreads \ {t} : brPc[u] \notin WriterPcs
      /\ NoneAt(HolderPcs) /\ NoneAt(HolderPcs)'
  BY <1>1, <1>3, Known, ZenonT(40) DEF WriterAlone, NoneAt, WriterPcs, HolderPcs
<1>6. WriterAlone'
  BY <1>1, <1>3, <1>5, Known, ZenonT(40) DEF WriterAlone
<1>7. ASSUME NEW u \in BrThreads PROVE Knows(u)'
  BY <1>1, <1>3, <1>5, Known, ZenonT(40) DEF Knows
<1>8. OwnerWrites' /\ BoostedWrites'
  BY <1>1, <1>3, <1>5, Known, ZenonT(40) DEF OwnerWrites, BoostedWrites, WriterPcs
<1> QED
  BY <1>3, <1>4, <1>6, <1>7, <1>8, ZenonT(40) DEF BrwIInv

\* Then the bit.
LEMMA WriteReleasedStep ==
  ASSUME FiniteSizes, BrwIInv, NEW t \in BrThreads, WriteReleased(t)
  PROVE  BrwIInv'
<1> DEFINE q == IF brWaiters # 0 THEN "wakeup" ELSE "idle"
<1>1. /\ brPc[t] = "w_release" /\ brPc' = [brPc EXCEPT ![t] = q]
      /\ FetchAdd(0, 0, 1)
      /\ UNCHANGED <<brOwner, brQueue, brBoosted, brLock, brBackOffs>>
  BY ZenonT(40) DEF WriteReleased, BrMove, BrFast, BrQueueSame
<1>0. q \in {"wakeup", "idle"} /\ (q = "idle" => brWaiters = 0)
  OBVIOUS
<1> HIDE DEF q
<1>2. brWriter = 1 /\ brReaders \in Nat /\ brWaiters \in Nat /\ brBackOffs \in 0..MaxBrBackOffs
  BY <1>1, Known, ZenonT(40) DEF CountFacts, BrTypes, WriterAlone, NoneAt, WriterPcs
<1>3. brReaders' = brReaders /\ brWaiters' = brWaiters /\ brWriter' = 0
  BY <1>1, <1>2, Bit, SMTT(30) DEF FetchAdd
<1>4. Moves(t, q)
  BY <1>0, <1>1, <1>2, <1>3, SMTT(30) DEF Moves, One, ReaderPcs, WaiterPcs, LockPcs,
     AsleepPcs,
     BrPcs
<1>5. StillWoken(t, q)
  BY <1>0, Known, ZenonT(40) DEF StillWoken, WakerPcs, BlockedPcs, WaiterPcs, NoneAt,
     CountFacts
<1>6. /\ brPc'[t] = q /\ \A u \in BrThreads \ {t} : brPc'[u] = brPc[u]
      /\ brPc' \in [BrThreads -> BrPcs]
      /\ Counted' /\ LockHeld' /\ QueuedAsleep' /\ Remembered'
  BY <1>4, <1>5, MovesKeep, MovesRemember, ZenonT(40)
<1>7. BrTypes'
  BY <1>1, <1>6, Known, ZenonT(40) DEF BrTypes
<1>8. /\ ~NoneAt(WriterPcs) /\ NoneAt(WriterPcs)'
      /\ NoneAt(HolderPcs) /\ NoneAt(HolderPcs)'
  BY <1>0, <1>1, <1>6, Known, ZenonT(40) DEF WriterAlone, NoneAt, WriterPcs, HolderPcs
<1>9. WriterAlone'
  BY <1>3, <1>8, SMTT(30) DEF WriterAlone, NoneAt
<1>10. ASSUME NEW u \in BrThreads PROVE Knows(u)'
  BY <1>0, <1>1, <1>6, <1>8, Known, ZenonT(40) DEF Knows
<1>11. OwnerWrites' /\ BoostedWrites'
  BY <1>0, <1>1, <1>6, <1>8, Known, ZenonT(40) DEF OwnerWrites, BoostedWrites
<1> QED
  BY <1>6, <1>7, <1>9, <1>10, <1>11, ZenonT(40) DEF BrwIInv

\* Sequences one after the other.
LEMMA Joined ==
  ASSUME NEW S, NEW a \in Seq(S), NEW b \in Seq(S)
  PROVE  /\ a \o b \in Seq(S)
         /\ Len(a \o b) = Len(a) + Len(b)
         /\ \A i \in 1..Len(a) : (a \o b)[i] = a[i]
         /\ \A i \in (Len(a) + 1)..(Len(a) + Len(b)) : (a \o b)[i] = b[i - Len(a)]
OBVIOUS

\* t is in the queue r behind the first n of s.
InsertedAt(S, s, t, n, r) ==
  /\ r \in Seq(S) /\ Len(r) = Len(s) + 1
  /\ \A i \in 1..n : r[i] = s[i]
  /\ r[n + 1] = t
  /\ \A i \in (n + 2)..(Len(s) + 1) : r[i] = s[i - 1]

\* So it is when a thread blocks.
LEMMA Inserted ==
  ASSUME NEW S, NEW s \in Seq(S), NEW t \in S, NEW n \in 0..Len(s)
  PROVE  InsertedAt(S, s, t, n, Append(SubSeq(s, 1, n), t) \o SubSeq(s, n + 1, Len(s)))
<1> DEFINE c == SubSeq(s, 1, n)
           a == Append(c, t)
           b == SubSeq(s, n + 1, Len(s))
           r == a \o b
<1>1. c \in Seq(S) /\ Len(c) = n /\ \A i \in 1..n : c[i] = s[i]
  BY SMTT(30)
<1>2. /\ b \in Seq(S) /\ Len(b) = Len(s) - n
      /\ \A i \in 1..(Len(s) - n) : b[i] = s[i + n]
  BY SMTT(30)
<1> HIDE DEF c, b
<1>3. /\ a \in Seq(S) /\ Len(a) = n + 1 /\ a[n + 1] = t
      /\ \A i \in 1..n : a[i] = s[i]
  BY <1>1
<1> HIDE DEF a
<1>4. /\ r \in Seq(S) /\ Len(r) = Len(a) + Len(b)
      /\ \A i \in 1..Len(a) : r[i] = a[i]
      /\ \A i \in (Len(a) + 1)..(Len(a) + Len(b)) : r[i] = b[i - Len(a)]
  BY <1>2, <1>3, Joined, ZenonT(120)
<1> HIDE DEF r
<1>5. Len(s) \in Nat /\ Len(a) + Len(b) = Len(s) + 1
  BY <1>2, <1>3
<1>6. ASSUME NEW i \in (n + 2)..(Len(s) + 1) PROVE r[i] = s[i - 1]
  <2>1. i - (n + 1) \in 1..(Len(s) - n) /\ (i - (n + 1)) + n = i - 1
    BY <1>5
  <2>2. r[i] = b[i - (n + 1)]
    BY <1>3, <1>4, <1>5
  <2> QED
    BY <1>2, <2>1, <2>2, Zenon
<1>7. (\A i \in 1..n : r[i] = s[i]) /\ r[n + 1] = t
  BY <1>3, <1>4, <1>5, SMTT(30)
<1>8. InsertedAt(S, s, t, n, r)
  BY <1>4, <1>5, <1>6, <1>7, ZenonT(40) DEF InsertedAt
<1> QED
  BY <1>8, ZenonT(40) DEF r, a, b, c

\* A thread blocks.
LEMMA BlockStep ==
  ASSUME FiniteSizes, BrwIInv, NEW t \in BrThreads,
         NEW p \in {"r_block", "w_block", "u_block"}, NEW q \in AsleepPcs, BrBlock(t,
         p, q)
  PROVE  BrwIInv'
<1>1. /\ brPc[t] = p /\ brPc' = [brPc EXCEPT ![t] = q]
      /\ brBoosted' = brOwner /\ brLock' = BrNone
      /\ UNCHANGED <<brReaders, brWaiters, brWriter, brOwner, brBackOffs>>
  BY Zenon DEF BrBlock, BrMove, BrDropLock, brState
<1>2. PICK n \in 0..Len(brQueue) :
        brQueue' = Append(SubSeq(brQueue, 1, n), t) \o SubSeq(brQueue, n + 1,
        Len(brQueue))
  BY ZenonT(40) DEF BrBlock
<1>3. brQueue \in Seq(BrThreads) /\ Len(brQueue) \in Nat
  BY Known, SMTT(30) DEF BrTypes
<1>4. /\ brQueue' \in Seq(BrThreads) /\ Len(brQueue') = Len(brQueue) + 1
      /\ \A i \in 1..n : brQueue'[i] = brQueue[i]
      /\ brQueue'[n + 1] = t
      /\ \A i \in (n + 2)..(Len(brQueue) + 1) : brQueue'[i] = brQueue[i - 1]
  <2>1. InsertedAt(BrThreads, brQueue, t, n, brQueue')
    BY <1>2, <1>3, Inserted, ZenonT(40)
  <2> QED
    BY <2>1, ZenonT(40) DEF InsertedAt
<1>5. brPc'[t] = q /\ \A u \in BrThreads \ {t} : brPc'[u] = brPc[u]
  BY <1>1, Known, ZenonT(40) DEF BrTypes
<1>6. BrTypes'
  <2>1. brPc' \in [BrThreads -> BrPcs]
    BY <1>1, Known, ZenonT(40) DEF BrTypes, BrPcs, AsleepPcs
  <2> QED
    BY <1>1, <1>4, <2>1, Known, ZenonT(40) DEF BrTypes
<1>7. Counted'
  <2>1. brReaders \in Nat /\ brWaiters \in Nat
    BY Known, ZenonT(40) DEF CountFacts
  <2>2. /\ q \notin ReaderPcs /\ brPc[t] \notin ReaderPcs
        /\ q \in WaiterPcs /\ brPc[t] \in WaiterPcs
    BY <1>1, ZenonT(40) DEF ReaderPcs, WaiterPcs, AsleepPcs
  <2>3. /\ brReaders' = brReaders + One(q \in ReaderPcs) - One(brPc[t] \in ReaderPcs)
        /\ brWaiters' = brWaiters + One(q \in WaiterPcs) - One(brPc[t] \in WaiterPcs)
    BY <1>1, <2>1, <2>2, SMTT(30) DEF One
  <2> QED
    BY <1>1, <2>3, Known, MoveCounted, ZenonT(40)
<1>8. \A u \in BrThreads \ {t} : brPc[u] \notin LockPcs
  BY <1>1, Known, ZenonT(40) DEF LockHeld, LockPcs
<1>9. LockHeld'
  BY <1>1, <1>5, <1>8, Known, ZenonT(40) DEF LockHeld, LockPcs, AsleepPcs
<1>10. /\ q \notin WriterPcs \cup HolderPcs \cup LockPcs
       /\ brPc[t] \notin WriterPcs \cup HolderPcs \cup WakerPcs \cup AsleepPcs
       /\ brPc[t] \in BlockedPcs
  BY <1>1, ZenonT(40) DEF WriterPcs, HolderPcs, WakerPcs, LockPcs, AsleepPcs, BlockedPcs
<1>11. /\ NoneAt(WriterPcs)' <=> NoneAt(WriterPcs)
       /\ NoneAt(HolderPcs)' <=> NoneAt(HolderPcs)
  BY <1>5, <1>10, ZenonT(40) DEF NoneAt
<1>12. WriterAlone'
  BY <1>1, <1>5, <1>10, <1>11, Known, SMTT(30) DEF WriterAlone
<1>13. ASSUME NEW u \in BrThreads PROVE Knows(u)'
  <2>1. brPc'[u] \notin LockPcs
    BY <1>5, <1>8, <1>10, ZenonT(40)
  <2> QED
    BY <2>1, ZenonT(40) DEF Knows, LockPcs
<1>14. OwnerWrites' /\ BoostedWrites'
  <2>1. OwnerWrites'
    BY <1>1, <1>5, <1>10, Known, ZenonT(40) DEF OwnerWrites, WriterPcs
  <2>2. brQueue' # <<>>
    BY <1>3, <1>4, SMTT(30)
  <2>3. ASSUME ~NoneAt(HolderPcs) PROVE brOwner = BrNone
    BY <2>3, Known, ZenonT(40) DEF OwnerWrites, WriterAlone, NoneAt, WriterPcs, BrTypes
  <2> QED
    BY <1>1, <1>11, <2>1, <2>2, <2>3, ZenonT(40) DEF OwnerWrites, BoostedWrites
<1>15. Remembered'
  BY <1>5, <1>10, Known, ZenonT(40) DEF Remembered, NoneAt
<1>16. QueuedAsleep'
  <2>1. /\ DOMAIN brQueue = 1..Len(brQueue) /\ DOMAIN brQueue' = 1..(Len(brQueue) + 1)
        /\ \A i \in 1..Len(brQueue) : brQueue[i] \in BrThreads /\ brQueue[i] # t
    BY <1>3, <1>4, <1>10, Known, SMTT(30) DEF QueuedAsleep, AsleepPcs
  <2>0. ASSUME NEW i \in DOMAIN brQueue'
        PROVE  \/ i = n + 1 /\ brQueue'[i] = t
               \/ i < n + 1 /\ i \in DOMAIN brQueue /\ brQueue'[i] = brQueue[i]
               \/ i > n + 1 /\ i - 1 \in DOMAIN brQueue /\ brQueue'[i] = brQueue[i - 1]
    BY <1>3, <1>4, <2>1, SMTT(30)
  <2>2. ASSUME NEW i \in DOMAIN brQueue', NEW k \in DOMAIN brQueue',
               brQueue'[i] = brQueue'[k]
        PROVE  i = k
    <3>1. i \in Int /\ k \in Int
      BY <2>1
    <3>2. \A x, y \in DOMAIN brQueue : brQueue[x] = brQueue[y] => x = y
      BY Known, ZenonT(40) DEF QueuedAsleep
    <3> QED
      BY <2>0, <2>1, <2>2, <3>1, <3>2, SMTT(30)
  <2>3. ASSUME NEW i \in DOMAIN brQueue'
        PROVE  brPc'[brQueue'[i]] \in AsleepPcs
    <3>1. CASE i = n + 1
      BY <3>1, <1>4, <1>5, ZenonT(40)
    <3>2. CASE i \in 1..n
      BY <3>2, <1>3, <1>4, <1>5, <2>1, Known, SMTT(30) DEF QueuedAsleep, AsleepPcs
    <3>3. CASE i \in (n + 2)..(Len(brQueue) + 1)
      <4>1. i - 1 \in 1..Len(brQueue) /\ brQueue'[i] = brQueue[i - 1]
        BY <3>3, <1>3, <1>4, SMTT(30)
      <4> QED
        BY <4>1, <1>5, <2>1, Known, SMTT(30) DEF QueuedAsleep, AsleepPcs
    <3> QED
      BY <1>3, <2>1, <3>1, <3>2, <3>3, SMTT(30)
  <2>4. ASSUME NEW u \in BrThreads, brPc'[u] \in AsleepPcs
        PROVE  \E i \in DOMAIN brQueue' : brQueue'[i] = u
    <3>1. CASE u = t
      BY <3>1, <1>3, <1>4, <2>1, SMTT(30)
    <3>2. CASE u # t
      <4>1. PICK i \in 1..Len(brQueue) : brQueue[i] = u
        BY <1>5, <2>1, <2>4, <3>2, Known, ZenonT(40) DEF QueuedAsleep, AsleepPcs
      <4>2. CASE i <= n
        BY <1>3, <1>4, <2>1, <4>1, <4>2, SMTT(30)
      <4>3. CASE i > n
        <5>1. i + 1 \in (n + 2)..(Len(brQueue) + 1) /\ (i + 1) - 1 = i
          BY <1>3, <4>3, SMTT(30)
        <5>2. brQueue'[i + 1] = u
          BY <1>4, <4>1, <5>1, ZenonT(40)
        <5>3. i + 1 \in DOMAIN brQueue'
          BY <1>3, <2>1
        <5> QED
          BY <5>2, <5>3, Zenon
      <4> QED
        BY <4>2, <4>3
    <3> QED
      BY <3>1, <3>2, ZenonT(40)
  <2> QED
    BY <2>2, <2>3, <2>4, ZenonT(40) DEF QueuedAsleep, AsleepPcs
<1> QED
  BY <1>6, <1>7, <1>9, <1>12, <1>13, <1>14, <1>15, <1>16, ZenonT(40) DEF BrwIInv

-----------------------------------------------------------------------------
(* Waking *)

Reading == BrAt({"reading", "u_queue"})
Writing == BrAt({"writing"})

\* Threads may read that could not, when nobody writes.
LEMMA ReadersGranted ==
  ASSUME NEW S, S \subseteq BrThreads, S # {}, S \cap Reading = {}, Writing = {},
         Reading' = Reading \cup S, Writing' = Writing
  PROVE  BrwPromise!RwNext
<1>1. S \in SUBSET BrThreads /\ Reading' # Reading
  BY Zenon
<1>2. BrwPromise!GrantReaders(S)
  BY ZenonT(40) DEF BrwPromise!GrantReaders, Reading, Writing
<1> QED
  BY <1>1, <1>2, ZenonT(40) DEF BrwPromise!RwNext, Reading, Writing

\* A thread may write that could not, when nobody holds the lock.
LEMMA WriterGranted ==
  ASSUME NEW t \in BrThreads, Reading = {}, Writing = {}, Reading' = {}, Writing' = {t}
  PROVE  BrwPromise!RwNext
<1>1. Writing' # Writing
  BY ZenonT(40)
<1>2. BrwPromise!GrantWriter(t)
  BY Zenon DEF BrwPromise!GrantWriter, Reading, Writing
<1> QED
  BY <1>1, <1>2, ZenonT(40) DEF BrwPromise!RwNext, Reading, Writing

\* The threads in S, which slept, are given the lock and go to p; t, which
\* woke them, goes to q.
Wakes(t, q, S, p) ==
  /\ S \subseteq BrThreads /\ S # {} /\ \A u \in S : brPc[u] \in AsleepPcs
  /\ brPc' \in [BrThreads -> BrPcs] /\ brPc'[t] = q
  /\ \A u \in S : brPc'[u] = p
  /\ \A u \in BrThreads \ (S \cup {t}) : brPc'[u] = brPc[u]
  /\ UNCHANGED brBackOffs

\* The readers before the first writer.
WakesReaders(t, q) ==
  \E n \in 1..Len(brQueue) :
    /\ Wakes(t, q, {brQueue[i] : i \in 1..n}, "reading")
    /\ brReaders' = brReaders + n /\ brWaiters' = brWaiters - n /\ brWriter' = brWriter
    /\ brOwner' = brOwner /\ brBoosted' = BrNone
    /\ brQueue' = SubSeq(brQueue, n + 1, Len(brQueue))

\* Or the writer.
WakesWriter(t, q) ==
  /\ brQueue # <<>> /\ Wakes(t, q, {brQueue[1]}, "writing")
  /\ brReaders' = brReaders /\ brWaiters' = brWaiters - 1 /\ brWriter' = (brWriter + 1) % 2
  /\ brOwner' = brQueue[1]
  /\ brBoosted' = IF Len(brQueue) > 1 THEN brQueue[1] ELSE BrNone
  /\ brQueue' = SubSeq(brQueue, 2, Len(brQueue))

\* The thread that wakes others: where it was and where it goes.
WakerMoves(p, q) ==
  \/ p = "r_wake" /\ q \in {"r_woke", "r_take"}
  \/ p = "w_wake" /\ q = "w_block"
  \/ p = "wakeup_try" /\ q = "idle"

\* TryWake does the one or the other.
LEMMA TryWakeWakes ==
  ASSUME FiniteSizes, BrwIInv, NEW t \in BrThreads, NEW q,
         WakerMoves(brPc[t], q), TryWake(t, q)
  PROVE  \/ WakesWriter(t, q) /\ brPc[brQueue[1]] = "w_asleep"
         \/ WakesReaders(t, q) /\ brPc[brQueue[1]] # "w_asleep"
<1> DEFINE writer == brPc[brQueue[1]] = "w_asleep"
           woken(n) == {brQueue[i] : i \in 1..n}
<1>1. PICK n \in 1..Len(brQueue) :
        /\ BrFirst(n)
        /\ IF writer THEN FetchAdd(0, -1, 1) /\ brOwner' = brQueue[1]
                     ELSE FetchAdd(n, -n, 0) /\ UNCHANGED brOwner
        /\ brBoosted' = IF writer /\ Len(brQueue) > 1 THEN brQueue[1] ELSE BrNone
        /\ brPc' = [u \in BrThreads |->
             IF u = t THEN q
             ELSE IF u \in woken(n) THEN IF writer THEN "writing" ELSE "reading"
             ELSE brPc[u]]
        /\ brQueue' = SubSeq(brQueue, n + 1, Len(brQueue))
        /\ UNCHANGED brBackOffs
  BY ZenonT(40) DEF TryWake
<1>2. /\ brQueue \in Seq(BrThreads) /\ Len(brQueue) \in Nat
      /\ DOMAIN brQueue = 1..Len(brQueue) /\ 1 \in DOMAIN brQueue
      /\ brReaders \in Nat /\ brWaiters \in Nat
  BY <1>1, Known, SMTT(30) DEF BrTypes, CountFacts
<1>3. /\ woken(n) \subseteq BrThreads /\ brQueue[1] \in woken(n)
      /\ \A u \in woken(n) : brPc[u] \in AsleepPcs
  <2>1. \A i \in 1..n : i \in DOMAIN brQueue
    BY <1>2, SMTT(30)
  <2>2. \A i \in DOMAIN brQueue : brQueue[i] \in BrThreads /\ brPc[brQueue[i]] \in AsleepPcs
    BY <1>2, Known, SMTT(30) DEF QueuedAsleep, AsleepPcs
  <2>3. 1 \in 1..n
    BY <1>2, SMTT(30)
  <2> QED
    BY <2>1, <2>2, <2>3, ZenonT(40)
<1>4. t \notin woken(n) /\ q \in BrPcs
  BY <1>3, ZenonT(40) DEF WakerMoves, AsleepPcs, BrPcs
<1>5. brPc \in [BrThreads -> BrPcs]
  BY Known, ZenonT(40) DEF BrTypes
<1>6. ASSUME NEW p \in {"writing", "reading"},
             brPc' = [u \in BrThreads |->
               IF u = t THEN q ELSE IF u \in woken(n) THEN p ELSE brPc[u]]
      PROVE  Wakes(t, q, woken(n), p)
  <2>1. p \in BrPcs
    BY ZenonT(40) DEF BrPcs
  <2>2. brPc' \in [BrThreads -> BrPcs]
    BY <1>4, <1>5, <1>6, <2>1, ZenonT(40)
  <2>3. /\ brPc'[t] = q
        /\ \A u \in woken(n) : brPc'[u] = p
        /\ \A u \in BrThreads \ (woken(n) \cup {t}) : brPc'[u] = brPc[u]
    BY <1>3, <1>4, <1>6, ZenonT(40)
  <2> QED
    BY <1>1, <1>3, <2>2, <2>3, ZenonT(40) DEF Wakes
<1>7. CASE writer
  <2>1. n = 1
    <3>1. ASSUME \A i \in 1..n : brPc[brQueue[i]] = "r_asleep" PROVE FALSE
      BY <1>2, <1>7, <3>1, SMTT(30)
    <3> QED
      BY <1>1, <3>1, ZenonT(40) DEF BrFirst
  <2>2. woken(n) = {brQueue[1]}
    <3>1. 1..n = {1}
      BY <2>1, SMTT(30)
    <3> QED
      BY <3>1, ZenonT(40)
  <2>3. brPc' = [u \in BrThreads |->
               IF u = t THEN q ELSE IF u \in woken(n) THEN "writing" ELSE brPc[u]]
    BY <1>1, <1>7, ZenonT(40)
  <2>4. Wakes(t, q, {brQueue[1]}, "writing")
    BY <1>6, <2>2, <2>3, ZenonT(40)
  <2>5. /\ brReaders' = brReaders /\ brWaiters' = brWaiters - 1
        /\ brWriter' = (brWriter + 1) % 2 /\ brOwner' = brQueue[1]
    BY <1>1, <1>2, <1>7, SMTT(30) DEF FetchAdd
  <2>6. brBoosted' = IF Len(brQueue) > 1 THEN brQueue[1] ELSE BrNone
    BY <1>1, <1>7, ZenonT(40)
  <2>7. brQueue' = SubSeq(brQueue, 2, Len(brQueue)) /\ brQueue # <<>>
    BY <1>1, <1>2, <2>1, SMTT(30)
  <2> QED
    BY <1>7, <2>4, <2>5, <2>6, <2>7, ZenonT(40) DEF WakesWriter
<1>8. CASE ~writer
  <2>1. brPc' = [u \in BrThreads |->
               IF u = t THEN q ELSE IF u \in woken(n) THEN "reading" ELSE brPc[u]]
    BY <1>1, <1>8, ZenonT(40)
  <2>2. Wakes(t, q, woken(n), "reading")
    BY <1>6, <2>1, ZenonT(40)
  <2>3. /\ brReaders' = brReaders + n /\ brWaiters' = brWaiters - n
        /\ brWriter' = brWriter /\ brOwner' = brOwner
    <3>1. FetchAdd(n, -n, 0) /\ brOwner' = brOwner
      BY <1>1, <1>8, ZenonT(40)
    <3>2. brReaders' = brReaders + n /\ brWaiters' = brWaiters + (-n) /\ brWriter' = brWriter
      BY <3>1, Known, Fetch, ZenonT(40)
    <3> QED
      BY <1>2, <3>1, <3>2, ZenonT(40)
  <2>4. brBoosted' = BrNone
    BY <1>1, <1>8, ZenonT(40)
  <2> QED
    BY <1>1, <1>8, <2>2, <2>3, <2>4, ZenonT(40) DEF WakesReaders
<1> QED
  BY <1>7, <1>8, ZenonT(40)

\* r is the queue s without its first n.
RestOf(S, s, n, r) ==
  /\ r \in Seq(S) /\ Len(r) = Len(s) - n
  /\ DOMAIN r = 1..(Len(s) - n)
  /\ \A i \in 1..(Len(s) - n) : r[i] = s[i + n]

\* So it is when they were taken from it.
LEMMA Rest ==
  ASSUME NEW S, NEW s \in Seq(S), NEW n \in 1..Len(s)
  PROVE  RestOf(S, s, n, SubSeq(s, n + 1, Len(s)))
BY DEF RestOf

\* S, the first n of the queue, are woken.
WakesFirst(t, q, n, S, p) ==
  /\ S = {brQueue[i] : i \in 1..n} /\ Wakes(t, q, S, p)
  /\ brReaders' = brReaders + (IF p = "reading" THEN n ELSE 0)
  /\ brWaiters' = brWaiters - n
  /\ brQueue' = SubSeq(brQueue, n + 1, Len(brQueue))
  /\ brLock' = IF q = "idle" THEN BrNone ELSE brLock

\* The first n threads of a queue are n threads.
LEMMA FirstCounted ==
  ASSUME FiniteSizes, NEW s \in Seq(BrThreads), NEW n \in 1..Len(s),
         \A i, k \in DOMAIN s : s[i] = s[k] => i = k
  PROVE  LET S == {s[i] : i \in 1..n} IN IsFiniteSet(S) /\ Cardinality(S) = n
<1>1. IsFiniteSet(FirstOf(s, n)) /\ Cardinality(FirstOf(s, n)) = n
  BY ZenonT(40) DEF FiniteSizes, SizeFirst
<1> QED
  BY <1>1, ZenonT(40) DEF FirstOf

\* What waking does to each thread and to the queue, whoever is woken.
LEMMA WakesKeep ==
  ASSUME FiniteSizes, BrwIInv, NEW t \in BrThreads, NEW q, WakerMoves(brPc[t], q),
         NEW n \in 1..Len(brQueue), NEW S,
         NEW p \in {"reading", "writing"}, WakesFirst(t, q, n, S, p)
  PROVE  /\ Counted' /\ LockHeld' /\ QueuedAsleep' /\ Remembered'
         /\ brQueue' \in Seq(BrThreads)
         /\ t \notin S /\ S \subseteq BrThreads
         /\ q \notin WriterPcs \cup HolderPcs
         /\ NoneAt(WriterPcs) /\ NoneAt(HolderPcs)
         /\ \A u \in BrThreads \ {t} : brPc'[u] \notin LockPcs
<1>1. /\ brQueue \in Seq(BrThreads) /\ Len(brQueue) \in Nat
      /\ DOMAIN brQueue = 1..Len(brQueue) /\ 1 \in 1..n
      /\ \A i, k \in DOMAIN brQueue : brQueue[i] = brQueue[k] => i = k
      /\ brReaders \in Nat /\ brWaiters \in Nat
  BY Known DEF BrTypes, QueuedAsleep, CountFacts
<1>0. S = {brQueue[i] : i \in 1..n} /\ Wakes(t, q, S, p)
  BY ZenonT(40) DEF WakesFirst
<1>2. t \notin S
  BY <1>0, ZenonT(40) DEF WakerMoves, Wakes, AsleepPcs
<1>3. /\ S \subseteq BrThreads /\ S # {} /\ \A u \in S : brPc[u] \in AsleepPcs
      /\ brPc'[t] = q
      /\ \A u \in S : brPc'[u] = p
      /\ \A u \in BrThreads \ (S \cup {t}) : brPc'[u] = brPc[u]
  BY <1>0, ZenonT(40) DEF Wakes
<1>4. /\ q \notin ReaderPcs \cup WriterPcs \cup HolderPcs \cup AsleepPcs
      /\ brPc[t] \notin ReaderPcs \cup WriterPcs \cup HolderPcs \cup AsleepPcs
      /\ brPc[t] \in LockPcs /\ (q \in LockPcs <=> q # "idle")
      /\ q \in WaiterPcs <=> brPc[t] \in WaiterPcs
  BY Zenon DEF WakerMoves, ReaderPcs, WriterPcs, HolderPcs, AsleepPcs, LockPcs, WaiterPcs
<1>5. \A x \in AsleepPcs : x \in WaiterPcs /\ x \notin ReaderPcs /\ x \notin LockPcs
  BY ZenonT(40) DEF AsleepPcs, WaiterPcs, ReaderPcs, LockPcs
<1>6. /\ p \notin WaiterPcs /\ p \notin LockPcs /\ p \notin AsleepPcs /\ p \in WakerPcs
      /\ p \in ReaderPcs <=> p = "reading"
  BY ZenonT(40) DEF AsleepPcs, WaiterPcs, ReaderPcs, LockPcs, WakerPcs
<1>7. IsFiniteSet(S) /\ Cardinality(S) = n
  BY <1>0, <1>1, FirstCounted, ZenonT(40)
<1>8. Cardinality(BrAt(WaiterPcs)') = brWaiters'
  <2>1. BrAt(WaiterPcs)' = BrAt(WaiterPcs) \ S /\ BrAt(WaiterPcs) \cap S = S
    <3>1. ASSUME NEW u \in BrThreads
          PROVE  brPc'[u] \in WaiterPcs <=> brPc[u] \in WaiterPcs /\ u \notin S
      BY <1>2, <1>3, <1>4, <1>5, <1>6, ZenonT(40)
    <3>2. \A u \in S : u \in BrThreads /\ brPc[u] \in WaiterPcs
      BY <1>3, <1>5, ZenonT(40)
    <3>3. BrAt(WaiterPcs)' = {u \in BrThreads : brPc'[u] \in WaiterPcs}
      BY ZenonT(40) DEF BrAt, WaiterPcs
    <3> QED
      BY <3>1, <3>2, <3>3, ZenonT(40) DEF BrAt
  <2>2. Cardinality(BrAt(WaiterPcs) \ S) =
          Cardinality(BrAt(WaiterPcs)) - Cardinality(BrAt(WaiterPcs) \cap S)
    BY BrAtFinite, ZenonT(40) DEF FiniteSizes, SizeWithout
  <2>3. brWaiters = Cardinality(BrAt(WaiterPcs))
    BY Known, ZenonT(40) DEF Counted
  <2> QED
    BY <1>7, <2>1, <2>2, <2>3, ZenonT(40) DEF WakesFirst
<1>9. Cardinality(BrAt(ReaderPcs)') = brReaders'
  <2>1. BrAt(ReaderPcs)' = {u \in BrThreads : brPc'[u] \in ReaderPcs}
    BY ZenonT(40) DEF BrAt, ReaderPcs
  <2>2. brReaders = Cardinality(BrAt(ReaderPcs))
    BY Known, ZenonT(40) DEF Counted
  <2>3. CASE p = "reading"
    <3>1. ASSUME NEW u \in BrThreads
          PROVE  brPc'[u] \in ReaderPcs <=> brPc[u] \in ReaderPcs \/ u \in S
      BY <1>2, <1>3, <1>4, <1>5, <1>6, <2>3, ZenonT(40)
    <3>2. BrAt(ReaderPcs)' = BrAt(ReaderPcs) \cup S
      BY <1>3, <2>1, <3>1, ZenonT(40) DEF BrAt
    <3>3. BrAt(ReaderPcs) \cap S = {}
      BY <1>3, <1>5, ZenonT(40) DEF BrAt
    <3>4. Cardinality(BrAt(ReaderPcs) \cup S) =
            Cardinality(BrAt(ReaderPcs)) + Cardinality(S) - Cardinality(BrAt(ReaderPcs) \cap S)
      BY <1>7, BrAtFinite, ZenonT(40) DEF FiniteSizes, SizeBoth
    <3>5. Cardinality({}) = 0
      BY ZenonT(40) DEF FiniteSizes, SizeNone
    <3>6. brReaders' = brReaders + n
      BY <2>3, ZenonT(40) DEF WakesFirst
    <3>7. Cardinality(BrAt(ReaderPcs)') = brReaders + n - 0
      BY <1>7, <2>2, <3>2, <3>3, <3>4, <3>5, ZenonT(40)
    <3> QED
      BY <1>1, <3>6, <3>7, SMTT(30)
  <2>4. CASE p = "writing"
    <3>1. ASSUME NEW u \in BrThreads
          PROVE  brPc'[u] \in ReaderPcs <=> brPc[u] \in ReaderPcs
      <4>1. p \notin ReaderPcs
        BY <1>6, <2>4, ZenonT(40)
      <4> QED
        BY <1>2, <1>3, <1>4, <1>5, <4>1, ZenonT(40)
    <3>2. BrAt(ReaderPcs)' = BrAt(ReaderPcs)
      BY <2>1, <3>1, ZenonT(40) DEF BrAt
    <3>3. brReaders' = brReaders + 0
      BY <2>4, ZenonT(40) DEF WakesFirst
    <3> QED
      BY <1>1, <2>2, <3>2, <3>3, SMTT(30)
  <2> QED
    BY <2>3, <2>4, ZenonT(40)
<1>10. Counted'
  BY <1>8, <1>9, ZenonT(40) DEF Counted, ReaderPcs, WaiterPcs
<1>11. \A u \in BrThreads \ {t} : brPc[u] \notin LockPcs /\ brPc'[u] \notin LockPcs
  BY <1>3, <1>4, <1>6, Known, ZenonT(40) DEF LockHeld
<1>12. LockHeld'
  BY <1>3, <1>4, <1>11, Known, ZenonT(40) DEF LockHeld, WakesFirst
<1>13. Remembered'
  <2>1. \E u \in BrThreads : brPc'[u] \in WakerPcs
    BY <1>3, <1>6, ZenonT(40)
  <2> QED
    BY <2>1, ZenonT(40) DEF Remembered, NoneAt
<1>14. NoneAt(WriterPcs) /\ NoneAt(HolderPcs)
  <2>1. brQueue # <<>>
    BY <1>1, SMTT(30)
  <2> QED
    BY <2>1, Known, ZenonT(40) DEF WakerMoves, Knows
<1>15. /\ brQueue' \in Seq(BrThreads) /\ Len(brQueue') = Len(brQueue) - n
       /\ DOMAIN brQueue' = 1..(Len(brQueue) - n)
       /\ \A i \in 1..(Len(brQueue) - n) : brQueue'[i] = brQueue[i + n]
  <2>1. RestOf(BrThreads, brQueue, n, brQueue')
    BY <1>1, Rest, ZenonT(40) DEF WakesFirst
  <2> QED
    BY <2>1, ZenonT(40) DEF RestOf
<1>16. ASSUME NEW i \in DOMAIN brQueue'
       PROVE  /\ i + n \in DOMAIN brQueue /\ i + n \notin 1..n /\ i \in Int
              /\ brQueue'[i] = brQueue[i + n]
  <2>1. i \in 1..(Len(brQueue) - n)
    BY <1>15, ZenonT(40)
  <2>2. brQueue'[i] = brQueue[i + n]
    BY <1>15, <2>1, ZenonT(40)
  <2>3. i + n \in 1..Len(brQueue) /\ i + n \notin 1..n /\ i \in Int
    BY <1>1, <2>1, SMTT(30)
  <2> QED
    BY <1>1, <2>2, <2>3, ZenonT(40)
<1>17. QueuedAsleep'
  <2>1. ASSUME NEW i \in DOMAIN brQueue', NEW k \in DOMAIN brQueue',
               brQueue'[i] = brQueue'[k]
        PROVE  i = k
    <3>1. i + n = k + n
      BY <1>1, <1>16, <2>1, ZenonT(40)
    <3> QED
      BY <1>16, <3>1, SMTT(30)
  <2>2. ASSUME NEW i \in DOMAIN brQueue' PROVE brPc'[brQueue'[i]] \in AsleepPcs
    <3>1. i + n \in DOMAIN brQueue /\ i + n \notin 1..n /\ brQueue'[i] = brQueue[i + n]
      BY <1>16, ZenonT(40)
    <3>2. brQueue[i + n] \in BrThreads /\ brPc[brQueue[i + n]] \in AsleepPcs
      BY <1>1, <3>1, Known, SMTT(30) DEF QueuedAsleep, AsleepPcs
    <3>3. brQueue[i + n] \notin S
      <4>1. \A k \in 1..n : k \in DOMAIN brQueue
        BY <1>1
      <4> QED
        BY <1>0, <1>1, <3>1, <4>1, ZenonT(120)
    <3>4. brQueue[i + n] # t
      BY <1>4, <3>2, Zenon
    <3> QED
      BY <1>3, <3>1, <3>2, <3>3, <3>4, ZenonT(40)
  <2>3. ASSUME NEW u \in BrThreads, brPc'[u] \in AsleepPcs
        PROVE  \E i \in DOMAIN brQueue' : brQueue'[i] = u
    <3>1. u # t /\ u \notin S /\ brPc[u] \in AsleepPcs
      BY <1>3, <1>4, <1>6, <2>3, ZenonT(40)
    <3>2. PICK k \in DOMAIN brQueue : brQueue[k] = u
      BY <3>1, Known, ZenonT(40) DEF QueuedAsleep, AsleepPcs
    <3>3. k \notin 1..n
      BY <1>0, <3>1, <3>2, ZenonT(40)
    <3>4. k - n \in DOMAIN brQueue' /\ (k - n) + n = k
      <4>1. k \in 1..Len(brQueue)
        BY <1>1, ZenonT(40)
      <4>2. k - n \in 1..(Len(brQueue) - n) /\ (k - n) + n = k
        BY <1>1, <3>3, <4>1, SMTT(30)
      <4> QED
        BY <1>15, <4>2, ZenonT(40)
    <3>5. brQueue'[k - n] = brQueue[(k - n) + n]
      BY <1>16, <3>4, ZenonT(40)
    <3> QED
      BY <3>2, <3>4, <3>5, Zenon
  <2> QED
    BY <2>1, <2>2, <2>3, ZenonT(40) DEF QueuedAsleep, AsleepPcs
<1>18. q \notin WriterPcs \cup HolderPcs
  BY <1>4, ZenonT(40)
<1> QED
  BY <1>2, <1>3, <1>10, <1>11, <1>12, <1>13, <1>14, <1>15, <1>17, <1>18, ZenonT(40)

\* Waking readers keeps the invariant.
LEMMA WakesReadersStep ==
  ASSUME FiniteSizes, BrwIInv, NEW t \in BrThreads, NEW q,
         WakerMoves(brPc[t], q), WakesReaders(t, q),
         brLock' = IF q = "idle" THEN BrNone ELSE brLock
  PROVE  BrwIInv' /\ BrwPromise!RwNext
<1>1. PICK n \in 1..Len(brQueue) :
        /\ Wakes(t, q, {brQueue[i] : i \in 1..n}, "reading")
        /\ brReaders' = brReaders + n /\ brWaiters' = brWaiters - n /\ brWriter' = brWriter
        /\ brOwner' = brOwner /\ brBoosted' = BrNone
        /\ brQueue' = SubSeq(brQueue, n + 1, Len(brQueue))
  BY ZenonT(40) DEF WakesReaders
<1> DEFINE S == {brQueue[i] : i \in 1..n}
<1>2. WakesFirst(t, q, n, S, "reading")
  BY <1>1, ZenonT(40) DEF WakesFirst
<1>3. /\ S \subseteq BrThreads /\ S # {} /\ \A u \in S : brPc[u] \in AsleepPcs
      /\ brPc' \in [BrThreads -> BrPcs] /\ brPc'[t] = q
      /\ \A u \in S : brPc'[u] = "reading"
      /\ \A u \in BrThreads \ (S \cup {t}) : brPc'[u] = brPc[u]
      /\ brBackOffs' = brBackOffs
  BY <1>1, ZenonT(40) DEF Wakes
<1> HIDE DEF S
<1>4. /\ Counted' /\ LockHeld' /\ QueuedAsleep' /\ Remembered'
      /\ brQueue' \in Seq(BrThreads)
      /\ q \notin WriterPcs \cup HolderPcs
      /\ NoneAt(WriterPcs) /\ NoneAt(HolderPcs)
      /\ \A u \in BrThreads \ {t} : brPc'[u] \notin LockPcs
  <2>1. "reading" \in {"reading", "writing"}
    OBVIOUS
  <2> QED
    BY <1>2, <2>1, WakesKeep, ZenonT(40)
<1>5. brWriter' = brWriter /\ brOwner' = brOwner /\ brBoosted' = BrNone
  BY <1>1, ZenonT(40)
<1>6. \A u \in BrThreads : brPc'[u] \notin WriterPcs
  <2>1. "reading" \notin WriterPcs
    BY Zenon DEF WriterPcs
  <2> QED
    BY <1>3, <1>4, <2>1, ZenonT(40) DEF NoneAt
<1>7. BrTypes'
  BY <1>3, <1>4, <1>5, Known, ZenonT(40) DEF BrTypes
<1>8. WriterAlone'
  BY <1>4, <1>5, <1>6, Known, ZenonT(40) DEF WriterAlone, NoneAt
<1>9. ASSUME NEW u \in BrThreads PROVE Knows(u)'
  <2>1. CASE u = t
    BY <1>3, <1>5, <1>6, <2>1, ZenonT(40) DEF Knows, NoneAt, WakerMoves
  <2>2. CASE u # t
    BY <1>4, <2>2, ZenonT(40) DEF Knows, LockPcs
  <2> QED
    BY <2>1, <2>2, ZenonT(40)
<1>10. OwnerWrites' /\ BoostedWrites'
  BY <1>4, <1>5, <1>6, Known, ZenonT(40) DEF OwnerWrites, BoostedWrites, NoneAt, WriterPcs
<1>11. BrwPromise!RwNext
  <2>1. "reading" \in HolderPcs /\ AsleepPcs \cap HolderPcs = {}
    BY ZenonT(40) DEF HolderPcs, AsleepPcs
  <2>2. Writing = {} /\ Writing' = {}
    BY <1>4, <1>6, ZenonT(40) DEF Writing, BrAt, NoneAt, WriterPcs
  <2>3. /\ Reading = {u \in BrThreads : brPc[u] \in HolderPcs}
        /\ Reading' = {u \in BrThreads : brPc'[u] \in HolderPcs}
    BY ZenonT(40) DEF Reading, BrAt, HolderPcs
  <2>4. Reading = {} /\ Reading' = S
    BY <1>3, <1>4, <2>1, <2>3, ZenonT(40) DEF NoneAt
  <2>5. S \cap Reading = {} /\ Reading' = Reading \cup S /\ Writing' = Writing
    BY <2>2, <2>4, ZenonT(40)
  <2> QED
    BY <1>3, <2>2, <2>5, ReadersGranted, ZenonT(40)
<1> QED
  BY <1>4, <1>7, <1>8, <1>9, <1>10, <1>11, ZenonT(40) DEF BrwIInv

\* Waking a writer keeps the invariant.
LEMMA WakesWriterStep ==
  ASSUME FiniteSizes, BrwIInv, NEW t \in BrThreads, NEW q,
         WakerMoves(brPc[t], q), q # "r_take", WakesWriter(t, q),
         brLock' = IF q = "idle" THEN BrNone ELSE brLock
  PROVE  BrwIInv' /\ BrwPromise!RwNext
<1> DEFINE x == brQueue[1]
<1>1. 1 \in 1..Len(brQueue) /\ {brQueue[i] : i \in 1..1} = {x} /\ x \in BrThreads
  <2>1. brQueue \in Seq(BrThreads) /\ brQueue # <<>>
    BY Known, ZenonT(40) DEF BrTypes, WakesWriter
  <2>2. 1..1 = {1} /\ 1 \in 1..Len(brQueue) /\ brQueue[1] \in BrThreads
    BY <2>1, SMTT(30)
  <2> QED
    BY <2>2, ZenonT(40)
<1>2. WakesFirst(t, q, 1, {x}, "writing")
  <2>1. brReaders \in Nat
    BY Known, ZenonT(40) DEF CountFacts
  <2> QED
    BY <1>1, <2>1, SMTT(30) DEF WakesFirst, WakesWriter
<1>3. /\ brPc' \in [BrThreads -> BrPcs] /\ brPc'[t] = q /\ brPc'[x] = "writing"
      /\ (\A u \in BrThreads \ {x, t} : brPc'[u] = brPc[u])
      /\ brBackOffs' = brBackOffs
  BY ZenonT(40) DEF Wakes, WakesWriter
<1>4. /\ Counted' /\ LockHeld' /\ QueuedAsleep' /\ Remembered'
      /\ brQueue' \in Seq(BrThreads) /\ t # x
      /\ q \notin WriterPcs \cup HolderPcs
      /\ NoneAt(WriterPcs) /\ NoneAt(HolderPcs)
      /\ \A u \in BrThreads \ {t} : brPc'[u] \notin LockPcs
  <2>1. "writing" \in {"reading", "writing"}
    OBVIOUS
  <2>2. /\ Counted' /\ LockHeld' /\ QueuedAsleep' /\ Remembered'
        /\ brQueue' \in Seq(BrThreads) /\ t \notin {x}
        /\ q \notin WriterPcs \cup HolderPcs
        /\ NoneAt(WriterPcs) /\ NoneAt(HolderPcs)
        /\ \A u \in BrThreads \ {t} : brPc'[u] \notin LockPcs
    BY <1>1, <1>2, <2>1, WakesKeep, ZenonT(40)
  <2> QED
    BY <2>2, ZenonT(40)
<1>5. /\ brWriter' = 1 /\ brOwner' = x /\ brBoosted' \in {x, BrNone}
      /\ brQueue' = <<>> => brBoosted' = BrNone
  <2>1. brWriter = 0
    BY <1>4, Known, ZenonT(40) DEF WriterAlone
  <2>2. brWriter' = 1 /\ brOwner' = x /\ brBoosted' \in {x, BrNone}
    BY <2>1, Bit, SMTT(30) DEF WakesWriter
  <2>3. ASSUME brBoosted' # BrNone PROVE brQueue' # <<>>
    <3>1. Len(brQueue) > 1
      BY <2>3, ZenonT(40) DEF WakesWriter
    <3>2. brQueue \in Seq(BrThreads) /\ Len(brQueue) \in Nat
      BY Known DEF BrTypes
    <3>3. RestOf(BrThreads, brQueue, 1, brQueue')
      BY <1>1, <1>2, <3>2, Rest, ZenonT(40) DEF WakesFirst
    <3>4. Len(brQueue') = Len(brQueue) - 1
      BY <3>3, ZenonT(40) DEF RestOf
    <3> QED
      BY <3>1, <3>2, <3>4, SMTT(30)
  <2> QED
    BY <2>2, <2>3, ZenonT(40)
<1> HIDE DEF x
<1>6. /\ \A u \in BrThreads : brPc'[u] \in WriterPcs <=> u = x
      /\ \A u \in BrThreads : brPc'[u] \notin HolderPcs
  <2>1. "writing" \in WriterPcs /\ "writing" \notin HolderPcs
    BY ZenonT(40) DEF WriterPcs, HolderPcs
  <2> QED
    BY <1>1, <1>3, <1>4, <2>1, ZenonT(40) DEF NoneAt
<1>7. BrTypes'
  BY <1>1, <1>3, <1>4, <1>5, Known, ZenonT(40) DEF BrTypes, LockHeld
<1>8. WriterAlone'
  BY <1>1, <1>5, <1>6, SMTT(30) DEF WriterAlone, NoneAt
<1>9. ASSUME NEW u \in BrThreads PROVE Knows(u)'
  <2>1. CASE u = t
    BY <1>3, <2>1, ZenonT(40) DEF Knows, WakerMoves
  <2>2. CASE u # t
    BY <1>4, <2>2, ZenonT(40) DEF Knows, LockPcs
  <2> QED
    BY <2>1, <2>2, ZenonT(40)
<1>10. OwnerWrites' /\ BoostedWrites'
  <2>1. \A u \in BrThreads : brPc'[u] = "writing" <=> u = x
    BY <1>3, <1>6, SMTT(30) DEF WriterPcs
  <2> QED
    BY <1>5, <1>6, <2>1, ZenonT(40) DEF OwnerWrites, BoostedWrites, NoneAt
<1>11. BrwPromise!RwNext
  <2>1. Reading = {} /\ Reading' = {} /\ Writing = {}
    BY <1>4, <1>6, ZenonT(40) DEF Reading, Writing, BrAt, NoneAt, WriterPcs, HolderPcs
  <2>2. \A u \in BrThreads : brPc'[u] = "writing" <=> u = x
    BY <1>3, <1>6, ZenonT(40) DEF WriterPcs
  <2>3. Writing' = {x}
    BY <1>1, <2>2, ZenonT(40) DEF Writing, BrAt
  <2> QED
    BY <1>1, <2>1, <2>3, WriterGranted, ZenonT(40)
<1> QED
  BY <1>4, <1>7, <1>8, <1>9, <1>10, <1>11, ZenonT(40) DEF BrwIInv

\* How the three callers of TryWake call it.
WakeCall(t, q) ==
  /\ TryWake(t, q) /\ WakerMoves(brPc[t], q)
  /\ q = "r_take" <=> brPc[t] = "r_wake" /\ brPc[brQueue[1]] # "w_asleep"
  /\ brLock' = IF q = "idle" THEN BrNone ELSE brLock

\* They do.
LEMMA WakeCalls ==
  ASSUME FiniteSizes, BrwIInv, NEW t \in BrThreads,
         ReadWake(t) \/ WriteWake(t) \/ ReleaseTryWake(t)
  PROVE  \E q \in BrPcs : WakeCall(t, q)
<1>1. CASE ReadWake(t) /\ brPc[brQueue[1]] = "w_asleep"
  <2>1. brPc[t] = "r_wake" /\ TryWake(t, "r_woke") /\ brLock' = brLock
    BY <1>1, ZenonT(40) DEF ReadWake
  <2>2. WakeCall(t, "r_woke") /\ "r_woke" \in BrPcs
    BY <1>1, <2>1, ZenonT(40) DEF WakeCall, WakerMoves, BrPcs
  <2> QED
    BY <2>2, ZenonT(40)
<1>2. CASE ReadWake(t) /\ brPc[brQueue[1]] # "w_asleep"
  <2>1. brPc[t] = "r_wake" /\ TryWake(t, "r_take") /\ brLock' = brLock
    BY <1>2, ZenonT(40) DEF ReadWake
  <2>2. WakeCall(t, "r_take") /\ "r_take" \in BrPcs
    BY <1>2, <2>1, ZenonT(40) DEF WakeCall, WakerMoves, BrPcs
  <2> QED
    BY <2>2, ZenonT(40)
<1>3. CASE WriteWake(t)
  <2>1. WakeCall(t, "w_block") /\ "w_block" \in BrPcs
    BY <1>3, ZenonT(40) DEF WriteWake, WakeCall, WakerMoves, BrPcs
  <2> QED
    BY <2>1, ZenonT(40)
<1>4. CASE ReleaseTryWake(t)
  <2>1. WakeCall(t, "idle") /\ "idle" \in BrPcs
    BY <1>4, ZenonT(40) DEF ReleaseTryWake, BrDropLock, WakeCall, WakerMoves, BrPcs
  <2> QED
    BY <2>1, ZenonT(40)
<1> QED
  BY <1>1, <1>2, <1>3, <1>4, ZenonT(40)

\* Threads are woken.
LEMMA WakeStep ==
  ASSUME FiniteSizes, BrwIInv, NEW t \in BrThreads, NEW q, WakeCall(t, q)
  PROVE  BrwIInv' /\ BrwPromise!RwNext
<1>1. \/ WakesWriter(t, q) /\ q # "r_take"
      \/ WakesReaders(t, q)
  BY TryWakeWakes, ZenonT(40) DEF WakeCall
<1>2. WakerMoves(brPc[t], q) /\ brLock' = IF q = "idle" THEN BrNone ELSE brLock
  BY ZenonT(40) DEF WakeCall
<1> QED
  BY <1>1, <1>2, WakesWriterStep, WakesReadersStep, ZenonT(40)
-----------------------------------------------------------------------------
(* Theorems *)

\* Every step of the lock, by any thread, keeps the inductive invariant.
LEMMA BrwNextIInv == FiniteSizes /\ BrwIInv /\ [BrwNext]_brVars => BrwIInv'
<1> SUFFICES ASSUME FiniteSizes, BrwIInv, [BrwNext]_brVars PROVE BrwIInv'
  OBVIOUS
<1>1. ASSUME NEW t \in BrThreads, ReadBlock(t) \/ WriteBlock(t) \/ UpgradeBlock(t)
      PROVE  BrwIInv'
  <2>1. \E p \in {"r_block", "w_block", "u_block"}, q \in AsleepPcs : BrBlock(t, p, q)
    BY <1>1, ZenonT(40) DEF ReadBlock, WriteBlock, UpgradeBlock, AsleepPcs
  <2> QED
    BY <2>1, BlockStep, ZenonT(40)
<1>2. ASSUME NEW t \in BrThreads, ReadWake(t) \/ WriteWake(t) \/ ReleaseTryWake(t)
      PROVE  BrwIInv'
  BY <1>2, WakeCalls, WakeStep, ZenonT(40)
<1>3. ASSUME NEW t \in BrThreads, BrwStep(t)
      PROVE  BrwIInv'
  BY <1>1, <1>2, <1>3, ReadSpinStep, ReadQueueStep, ReadTakeStep, ReadRestoreStep,
     ReadWokeStep, ReadReleaseStep, WriteQueueStep, WriteTakeStep, WriteReleaseStep,
     WriteReleasedStep, ReleaseWakeupStep, UpgradeQueueStep, AtomicWriteAcquireStep,
     WriteMissStep, ReadWakeFailsStep, WriteWakeFailsStep, ReleaseWakeFailsStep,
     ZenonT(40)
     DEF BrwStep
<1>4. ASSUME NEW t \in BrThreads,
             \/ ReadAcquire(t) \/ AtomicWriteAcquire(t) \/ WriteMiss(t)
             \/ ReadBackOff(t) \/ WriteBackOff(t) \/ UpgradeBackOff(t)
             \/ ReadWakeFails(t) \/ WriteWakeFails(t) \/ ReleaseWakeFails(t)
      PROVE  BrwIInv'
  BY <1>4, ReadAcquireStep, AtomicWriteAcquireStep, WriteMissStep, ReadBackOffStep,
     WriteBackOffStep, UpgradeBackOffStep, ReadWakeFailsStep, WriteWakeFailsStep,
     ReleaseWakeFailsStep, ZenonT(120)
<1>5. CASE UNCHANGED brVars
  <2>1. UNCHANGED <<brReaders, brWaiters, brWriter, brOwner, brQueue, brBoosted, brLock,
                    brPc, brBackOffs>>
    BY <1>5, ZenonT(40) DEF brVars, brState
  <2> QED
    BY <2>1, SMTT(30) DEF BrwIInv, BrTypes, Counted, WriterAlone, LockHeld,
       QueuedAsleep, Knows,
       OwnerWrites, BoostedWrites, Remembered, NoneAt, BrAt, ReaderPcs, WaiterPcs,
       WriterPcs, HolderPcs, LockPcs, BlockedPcs, WakerPcs
<1> QED
  BY <1>3, <1>4, <1>5, ZenonT(40) DEF BrwNext

\* The inductive invariant holds.
THEOREM BrwInvariant == FiniteSizes => (BrwSpec => []BrwIInv)
<1> SUFFICES ASSUME FiniteSizes PROVE BrwSpec => []BrwIInv
  OBVIOUS
<1>1. BrwInit => BrwIInv
  BY BrwInitIInv, ZenonT(40)
<1>2. BrwIInv /\ [BrwNext]_brVars => BrwIInv'
  BY BrwNextIInv, ZenonT(40)
<1> QED
  BY <1>1, <1>2, PTL DEF BrwSpec

\* The words of the lock count the threads they should, writer_ names the
\* thread that writes, and no blocked thread is forgotten.
THEOREM BrwConsistentBySizes == FiniteSizes => (BrwSpec => []BrwConsistent)
<1> SUFFICES ASSUME FiniteSizes PROVE BrwSpec => []BrwConsistent
  OBVIOUS
<1>1. BrwIInv => BrwConsistent
  <2> SUFFICES ASSUME BrwIInv PROVE BrwConsistent
    OBVIOUS
  <2>1. BrwCounts
    <3>1. brWriter = Cardinality(BrAt(WriterPcs))
      <4>1. CASE brWriter = 0
        <5>1. BrAt(WriterPcs) = {}
          BY <4>1, Known, ZenonT(40) DEF WriterAlone, NoneAt, BrAt
        <5> QED
          BY <4>1, <5>1, ZenonT(40) DEF FiniteSizes, SizeNone
      <4>2. CASE brWriter = 1
        <5>1. PICK x \in BrThreads : brPc[x] \in WriterPcs
          BY <4>2, Known, ZenonT(40) DEF NoneAt
        <5>2. BrAt(WriterPcs) = {x}
          BY <5>1, Known, ZenonT(40) DEF WriterAlone, BrAt
        <5> QED
          BY <4>2, <5>2, ZenonT(40) DEF FiniteSizes, SizeOne
      <4> QED
        BY <4>1, <4>2, Known, ZenonT(40) DEF WriterAlone
    <3> QED
      BY <3>1, Known, ZenonT(40) DEF Counted, BrwCounts, ReaderPcs, WaiterPcs, WriterPcs
  <2>2. BrwTypeOK
    <3>1. ASSUME NEW A PROVE Cardinality(BrAt(A)) \in 0..Cardinality(BrThreads)
      <4>1. BrAt(A) \in SUBSET BrThreads
        BY ZenonT(40) DEF BrAt
      <4>2. /\ Cardinality(BrAt(A)) \in Nat /\ Cardinality(BrThreads) \in Nat
            /\ Cardinality(BrAt(A)) <= Cardinality(BrThreads)
        BY <4>1, BrAssumption, ZenonT(40) DEF FiniteSizes, SizePart, SizeType
      <4> QED
        BY <4>2
    <3>2. /\ brReaders \in 0..Cardinality(BrThreads)
          /\ brWaiters \in 0..Cardinality(BrThreads)
      BY <3>1, Known, ZenonT(40) DEF Counted
    <3> QED
      BY <3>2, Known, ZenonT(40) DEF BrTypes, WriterAlone, BrwTypeOK
  <2>3. BrwOwnerWrites
    BY Known, ZenonT(40) DEF OwnerWrites, BoostedWrites, BrTypes, BrwOwnerWrites, BrAt
  <2>4. BrwNoneForgotten
    <3>1. ASSUME brQueue # <<>> PROVE ~NoneAt(WakerPcs)
      <4>1. 1 \in DOMAIN brQueue /\ brQueue[1] \in BrThreads
        BY <3>1, Known, SMTT(30) DEF BrTypes
      <4>2. brPc[brQueue[1]] \in BlockedPcs
        BY <4>1, Known, ZenonT(40) DEF QueuedAsleep, BlockedPcs
      <4> QED
        BY <4>1, <4>2, Known, ZenonT(40) DEF Remembered, NoneAt
    <3> QED
      BY <3>1, ZenonT(40) DEF BrwNoneForgotten, NoneAt, WakerPcs, BrAt
  <2> QED
    BY <2>1, <2>2, <2>3, <2>4, ZenonT(40) DEF BrwConsistent
<1> QED
  BY <1>1, BrwInvariant, PTL

\* A step of one thread that makes nobody a writer changes who holds the lock
\* as a lock allows.
LEMMA PlainImplements ==
  ASSUME FiniteSizes, BrwIInv, NEW t \in BrThreads, NEW q, PlainMove(t, q)
  PROVE  BrwPromise!RwNext \/ (Reading' = Reading /\ Writing' = Writing)
<1>1. Moves(t, q)
  BY ZenonT(40) DEF PlainMove
<1>2. brPc'[t] = q /\ \A u \in BrThreads \ {t} : brPc'[u] = brPc[u]
  BY <1>1, MovesKeep, ZenonT(40)
<1>3. /\ Reading = {u \in BrThreads : brPc[u] \in HolderPcs}
      /\ Reading' = {u \in BrThreads : brPc'[u] \in HolderPcs}
  BY ZenonT(40) DEF Reading, BrAt, HolderPcs
<1>4. Writing' = Writing /\ brPc[t] # "writing"
  BY <1>2, ZenonT(40) DEF Writing, BrAt, PlainMove, WriterPcs
<1>5. CASE q \in HolderPcs /\ brPc[t] \notin HolderPcs
  <2>1. Writing = {}
    BY <1>5, ZenonT(40) DEF PlainMove, NoneAt, Writing, BrAt, WriterPcs
  <2>2. \A u \in BrThreads : brPc'[u] \in HolderPcs <=> brPc[u] \in HolderPcs \/ u = t
    BY <1>2, <1>5, ZenonT(40)
  <2>3. {t} \cap Reading = {} /\ Reading' = Reading \cup {t}
    BY <1>3, <1>5, <2>2, ZenonT(40)
  <2>4. {t} # {} /\ {t} \subseteq BrThreads
    BY ZenonT(40)
  <2> QED
    BY <1>4, <2>1, <2>3, <2>4, ReadersGranted, ZenonT(40)
<1>6. CASE q \notin HolderPcs /\ brPc[t] \in HolderPcs
  <2>0. \A u \in BrThreads : brPc'[u] \in HolderPcs <=> brPc[u] \in HolderPcs /\ u # t
    BY <1>2, <1>6, ZenonT(40)
  <2>1. t \in Reading /\ Reading' = Reading \ {t} /\ Reading' # Reading
    BY <1>3, <1>6, <2>0, ZenonT(40)
  <2>2. Writing' = Writing \ {t}
    BY <1>4, ZenonT(40) DEF Writing, BrAt
  <2>3. BrwPromise!LetGo(t)
    BY <2>1, <2>2, ZenonT(40) DEF BrwPromise!LetGo, Reading, Writing
  <2> QED
    BY <2>1, <2>3, ZenonT(40) DEF BrwPromise!RwNext, Reading, Writing
<1>7. CASE q \in HolderPcs <=> brPc[t] \in HolderPcs
  BY <1>2, <1>3, <1>4, <1>7, ZenonT(40)
<1> QED
  BY <1>5, <1>6, <1>7, ZenonT(40)

\* So does one that makes a thread the writer: it was the only reader, or
\* nobody held the lock.
LEMMA WriteImplements ==
  ASSUME FiniteSizes, BrwIInv, NEW t \in BrThreads, WriteMove(t)
  PROVE  BrwPromise!RwNext
<1>1. /\ brPc'[t] = "writing" /\ \A u \in BrThreads \ {t} : brPc'[u] = brPc[u]
      /\ \A u \in BrThreads \ {t} : brPc[u] \notin WriterPcs \cup HolderPcs
      /\ brPc[t] \notin WriterPcs
  BY MovesKeep, ZenonT(40) DEF WriteMove
<1>2. Writing = {} /\ Writing' = {t} /\ Reading' = {}
  BY <1>1, ZenonT(40) DEF Reading, Writing, BrAt, WriterPcs, HolderPcs
<1>3. CASE brPc[t] \in HolderPcs
  <2>1. Reading = {t}
    BY <1>1, <1>3, ZenonT(40) DEF Reading, BrAt, HolderPcs
  <2>2. BrwPromise!Upgrade(t)
    BY <1>2, <2>1, ZenonT(40) DEF BrwPromise!Upgrade, Reading, Writing
  <2>3. Reading' # Reading
    BY <1>2, <2>1, ZenonT(40)
  <2> QED
    BY <2>2, <2>3, ZenonT(40) DEF BrwPromise!RwNext, Reading, Writing
<1>4. CASE brPc[t] \notin HolderPcs
  <2>1. Reading = {}
    BY <1>1, <1>4, ZenonT(40) DEF Reading, BrAt, HolderPcs
  <2> QED
    BY <1>2, <2>1, WriterGranted, ZenonT(40)
<1> QED
  BY <1>3, <1>4, ZenonT(40)

\* The writer lets go when it clears writer_; the steps after that, and
\* blocking, change nothing.
LEMMA OthersImplement ==
  ASSUME FiniteSizes, BrwIInv, NEW t \in BrThreads,
         \/ WriteRelease(t) \/ WriteReleased(t)
         \/ ReadBlock(t) \/ WriteBlock(t) \/ UpgradeBlock(t)
  PROVE  BrwPromise!RwNext \/ (Reading' = Reading /\ Writing' = Writing)
<1>0. brPc \in [BrThreads -> BrPcs]
  BY Known, ZenonT(40) DEF BrTypes
<1>1. CASE WriteRelease(t)
  <2>1. brPc[t] = "writing" /\ brPc' = [brPc EXCEPT ![t] = "w_release"]
    BY <1>1, ZenonT(40) DEF WriteRelease, BrMove
  <2>2. t \in Writing /\ Writing' = Writing \ {t} /\ Reading' = Reading \ {t}
    BY <1>0, <2>1, ZenonT(40) DEF Writing, Reading, BrAt
  <2>3. BrwPromise!LetGo(t) /\ Writing' # Writing
    BY <2>2, ZenonT(40) DEF BrwPromise!LetGo, Reading, Writing
  <2> QED
    BY <2>3, ZenonT(40) DEF BrwPromise!RwNext, Reading, Writing
<1>2. CASE WriteReleased(t)
  <2>1. brPc[t] = "w_release" /\ \E q \in {"wakeup", "idle"} : brPc' = [brPc EXCEPT ![t] = q]
    BY <1>2, ZenonT(40) DEF WriteReleased, BrMove
  <2> QED
    BY <1>0, <2>1, ZenonT(40) DEF Writing, Reading, BrAt
<1>3. CASE ReadBlock(t) \/ WriteBlock(t) \/ UpgradeBlock(t)
  <2>1. /\ brPc[t] \in {"r_block", "w_block", "u_block"}
        /\ \E q \in AsleepPcs : brPc' = [brPc EXCEPT ![t] = q]
    BY <1>3, ZenonT(40) DEF ReadBlock, WriteBlock, UpgradeBlock, BrBlock, BrMove,
       AsleepPcs
  <2> QED
    BY <1>0, <2>1, ZenonT(40) DEF Writing, Reading, BrAt, AsleepPcs
<1> QED
  BY <1>1, <1>2, <1>3, ZenonT(40)

\* Who holds the lock changes only as a reader-writer lock allows.
LEMMA BrwNextImplements ==
  FiniteSizes /\ BrwIInv /\ [BrwNext]_brVars => [BrwPromise!RwNext]_<<Reading, Writing>>
<1> SUFFICES ASSUME FiniteSizes, BrwIInv, [BrwNext]_brVars
             PROVE  BrwPromise!RwNext \/ (Reading' = Reading /\ Writing' = Writing)
  BY ZenonT(40)
<1>1. ASSUME NEW t \in BrThreads,
             \/ ReadSpin(t) \/ ReadQueue(t) \/ ReadTake(t) \/ ReadRestore(t) \/ ReadWoke(t)
             \/ ReadRelease(t) \/ WriteQueue(t) \/ ReleaseWakeup(t) \/ UpgradeQueue(t)
             \/ WriteMiss(t) \/ ReadWakeFails(t) \/ WriteWakeFails(t) \/ ReleaseWakeFails(t)
             \/ ReadAcquire(t) \/ ReadBackOff(t) \/ WriteBackOff(t) \/ UpgradeBackOff(t)
      PROVE  BrwPromise!RwNext \/ (Reading' = Reading /\ Writing' = Writing)
  <2>1. \E q : PlainMove(t, q)
    BY <1>1, ReadSpinStep, ReadQueueStep, ReadTakeStep, ReadRestoreStep, ReadWokeStep,
       ReadReleaseStep, WriteQueueStep, ReleaseWakeupStep, UpgradeQueueStep,
       WriteMissStep,
       ReadWakeFailsStep, WriteWakeFailsStep, ReleaseWakeFailsStep, ReadAcquireStep,
       ReadBackOffStep, WriteBackOffStep, UpgradeBackOffStep, ZenonT(40)
  <2> QED
    BY <2>1, PlainImplements, ZenonT(40)
<1>2. ASSUME NEW t \in BrThreads,
             WriteTake(t) \/ UpgradeTake(t) \/ AtomicWriteAcquire(t)
      PROVE  BrwPromise!RwNext
  BY <1>2, WriteTakeStep, AtomicWriteAcquireStep, WriteImplements, ZenonT(40)
<1>3. ASSUME NEW t \in BrThreads, ReadWake(t) \/ WriteWake(t) \/ ReleaseTryWake(t)
      PROVE  BrwPromise!RwNext
  BY <1>3, WakeCalls, WakeStep, ZenonT(40)
<1>4. ASSUME NEW t \in BrThreads, BrwStep(t)
      PROVE  BrwPromise!RwNext \/ (Reading' = Reading /\ Writing' = Writing)
  BY <1>1, <1>2, <1>3, <1>4, OthersImplement, ZenonT(40) DEF BrwStep
<1>5. CASE UNCHANGED brVars
  <2>1. brPc' = brPc
    BY <1>5, ZenonT(40) DEF brVars
  <2> QED
    BY <2>1, ZenonT(40) DEF Reading, Writing, BrAt
<1> QED
  BY <1>1, <1>2, <1>4, <1>5, ZenonT(40) DEF BrwNext

\* The lock is a reader-writer lock: optimistic readers, speculative waiters,
\* upgrades and hand-overs never let a writer in beside anybody.
THEOREM BrwIsRwLockBySizes == FiniteSizes => (BrwSpec => BrwImplements)
<1> SUFFICES ASSUME FiniteSizes PROVE BrwSpec => BrwImplements
  OBVIOUS
<1>1. BrwInit => BrwPromise!RwInit
  BY ZenonT(40) DEF BrwInit, BrwPromise!RwInit, BrAt
<1>2. BrwIInv /\ [BrwNext]_brVars =>
        [BrwPromise!RwNext]_<<BrAt({"reading", "u_queue"}), BrAt({"writing"})>>
  BY BrwNextImplements, ZenonT(40) DEF Reading, Writing
<1> QED
  BY <1>1, <1>2, BrwInvariant, PTL DEF BrwSpec, BrwImplements, BrwPromise!RwSpec
=============================================================================
