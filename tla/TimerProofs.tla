---------------------------- MODULE TimerProofs ----------------------------
(***************************************************************************)
(* Proofs about TimerDispatcher, for every set of CPUs and callers.  One   *)
(* reference follows the Timer from Set's AddRef through its queue, its    *)
(* callback and the DPC; TmWhere says where the Timer is, as a function of *)
(* deadline_, cancel_pending_ and the place of the thread that holds the   *)
(* lock.  Every step keeps it and accounts for the references it takes and *)
(* drops; the last part adds them up.                                     *)
(***************************************************************************)
EXTENDS TimerDispatcher, Sizes, TLAPS

TmHolding == {"wait", "canceled", "missed", "rewait", "arm"}

\* The expiry has happened and OnTimerFired has not: the callback is about to
\* queue the DPC, or the DPC is queued, or its worker waits for the lock.
TmExpired ==
  \/ TmFiring
  \/ tmDpc # "none"
  \/ \E c \in TmCpus : tmPc[c] = "lock"

TmPlaces ==
  /\ \A c \in TmCpus : tmPc[c] \notin {"wait", "canceled", "missed"}
  /\ \A p \in TmCallers : /\ tmPc[p] = "arm" => tmCall[p][1] = "set"
                          /\ tmPc[p] = "rewait" => tmCall[p][1] # "cancel"
  /\ tmDeadline = 0 => tmSlack = 0

TmHolder == \A p \in TmThreads : tmLock = p <=> tmPc[p] \in TmHolding

\* The expiry is in one place at a time.
TmOneExpiry ==
  /\ TmFiring => tmDpc = "none"
  /\ TmFiring \/ tmDpc # "none" => \A c \in TmCpus : tmPc[c] # "lock"
  /\ \A c, d \in TmCpus : tmPc[c] = "lock" /\ tmPc[d] = "lock" => c = d
  /\ \A c \in TmCpus : tmActive = <<c, "done">> => tmDpc = c

\* The deadline is the one that was set last, with its slack.
TmWanted == tmWant = tmDeadline /\ tmMay = Earliest(tmDeadline, tmSlack)

\* With the lock free, a Timer that is wanted or not yet waited for is on a
\* queue or expired, and one that is on a queue has not been canceled.
TmFree ==
  tmLock = "none" =>
    /\ tmDeadline # 0 \/ cancelPending <=> TmExpired \/ tmQueue # "none"
    /\ tmQueue # "none" => ~TmExpired /\ ~cancelPending /\ tmMay <= tmScheduled
    /\ TmExpired /\ ~cancelPending => tmMay <= tmNow
    /\ tmDeadline # 0 => TmWanted

\* The thread that arms the Timer: a worker whose timer was set again, or Set.
TmArms(p) == tmPc[p] \in {"rewait", "arm"} /\ (p \in TmCallers => tmCall[p][1] = "set")

\* With the lock held the Timer is on no queue, and the holder's place says
\* who has the reference.
TmHeldBy(p) ==
  /\ tmQueue = "none"
  /\ tmPc[p] = "wait" => tmDeadline = 0 /\ ~cancelPending /\ (TmExpired <=> ~tmHit)
  /\ tmPc[p] \in {"missed", "canceled"} \/ (tmPc[p] = "rewait" /\ ~TmArms(p))
       => tmDeadline = 0 /\ (TmExpired <=> cancelPending)
  /\ tmPc[p] \in {"wait", "missed", "canceled"} => ~tmSignaled
  /\ TmArms(p) => /\ ~TmExpired /\ ~cancelPending
                  /\ tmDeadline # 0 /\ TmWanted

TmHeld == \A p \in TmThreads : tmLock = p => TmHeldBy(p)

\* Where the Timer is, and what the signal says.
TmWhere ==
  /\ TimerTypeOK /\ TmPlaces /\ TmHolder /\ TmOneExpiry /\ TmFree /\ TmHeld
  /\ TimerSignalIsLatest
-----------------------------------------------------------------------------
(* What a step does to the references *)

\* The references a thread has: one in a call or in the DPC, and one more
\* when it has the Timer's.
TmHas(p) ==
  IF tmPc[p] = "idle" THEN 0
  ELSE IF /\ p \in TmCallers
          /\ \/ tmPc[p] = "wait" /\ tmHit
             \/ tmPc[p] \in {"rewait", "arm"} /\ tmCall[p][1] = "set"
       THEN 2 ELSE 1

\* The references no thread has: the handle's, and the Timer's elsewhere.
TmElse ==
  TmOne(tmHandle) + TmOne(tmQueue # "none") + TmOne(tmDpc # "none") + TmOne(TmFiring)

\* At most p has moved, and a Cancel's result is not changed under anybody else.
TmOnly(p) ==
  /\ \A r \in TmThreads : r # p => tmPc'[r] = tmPc[r]
  /\ \A r \in TmCallers : r # p => tmCall'[r] = tmCall[r]
  /\ tmHit' = tmHit \/ \A r \in TmCallers : r # p => tmPc[r] # "wait"

\* A step of p accounts for what it and the rest gain or lose.
TmAccounts(p) ==
  /\ TmOnly(p)
  /\ tmRefs' = tmRefs + TmHas(p)' - TmHas(p) + TmElse' - TmElse

\* The object is deleted with its last reference, by a thread that has one;
\* nothing else but a call made with the handle changes their number.
TmDrops(p) ==
  /\ tmDeleted' => tmDeleted \/ tmRefs' = 0
  /\ tmHandle \/ tmPc[p] # "idle" \/ UNCHANGED <<tmRefs, tmDeleted>>

\* The two sets of threads have nothing in common.
LEMMA TmThreadsAre ==
  /\ \A p \in TmThreads : p # "none" /\ (p \in TmCallers <=> p \notin TmCpus)
  /\ TmCpus \subseteq TmThreads /\ TmCallers \subseteq TmThreads
  /\ MaxTmOps \in Nat /\ MaxTmTime \in Nat /\ MaxTmTime # 0 /\ MaxTmSlack \in Nat
  BY TmAssumption, ZenonT(40) DEF TmThreads

\* A Timer that is on no queue is due at no time: 0 stands for it.
LEMMA ZeroIsInt == 0 \in Int
  OBVIOUS

\* These are numbers.
LEMMA RefsAreInt ==
  ASSUME NEW p
  PROVE  /\ TmHas(p) \in Int /\ TmElse \in Int
         /\ TmHas(p)' \in Int /\ TmElse' \in Int
  BY DEF TmHas, TmElse, TmOne

\* When the callback is not about to queue the DPC, and the DPC is on no list,
\* the callback is over.
LEMMA CallbackOver ==
  ASSUME TimerTypeOK, TmOneExpiry, ~TmFiring, tmDpc = "none"
  PROVE  tmActive = NotActive
<1> SUFFICES ASSUME tmActive # NotActive
             PROVE  FALSE
  OBVIOUS
<1>1. PICK c \in TmCpus, x \in {"fire", "done"} : tmActive = <<c, x>>
  <2>1. tmActive \in TmCpus \X {"fire", "done"}
    BY ZenonT(40) DEF TimerTypeOK
  <2> QED
    BY <2>1
<1>2. x = "done"
  BY <1>1, ZenonT(40) DEF TmFiring
<1>3. tmDpc = c
  BY <1>1, <1>2, Zenon DEF TmOneExpiry
<1> QED
  BY <1>3, TmThreadsAre, ZenonT(40)

-----------------------------------------------------------------------------
(* What a move of one thread leaves alone *)

TmMoves(p, q) == q \in TmPcs /\ tmPc' = [tmPc EXCEPT ![p] = q]

\* One thread is elsewhere and the others are where they were.
LEMMA Moved ==
  ASSUME TimerTypeOK, NEW p \in TmThreads, NEW q, TmMoves(p, q)
  PROVE  /\ tmPc' \in [TmThreads -> TmPcs] /\ tmPc'[p] = q
         /\ \A r \in TmThreads : r # p => tmPc'[r] = tmPc[r]
  BY Zenon DEF TimerTypeOK, TmMoves

\* The expiry is where it was when no worker comes to wait for the lock, or
\* leaves it, and the callback and the DPC are where they were.
LEMMA SameExpiry ==
  ASSUME TmOneExpiry, tmActive' = tmActive, tmDpc' = tmDpc,
         \A c \in TmCpus : tmPc'[c] = "lock" <=> tmPc[c] = "lock"
  PROVE  (TmExpired' <=> TmExpired) /\ TmOneExpiry' /\ (TmFiring' <=> TmFiring)
<1>1. TmFiring' <=> TmFiring
  BY ZenonT(40) DEF TmFiring
<1>2. TmExpired' <=> TmExpired
  BY <1>1, Zenon DEF TmExpired
<1>3. TmOneExpiry'
  BY <1>1, ZenonT(40) DEF TmOneExpiry
<1> QED
  BY <1>1, <1>2, <1>3, ZenonT(40)

\* A thread takes the lock when it is free, keeps it, drops it, or does not
\* have it.
LEMMA HolderMove ==
  ASSUME TimerTypeOK, TmHolder, NEW p \in TmThreads, NEW q, TmMoves(p, q),
         tmLock' = IF q \in TmHolding THEN p
                   ELSE IF tmPc[p] \in TmHolding THEN "none" ELSE tmLock,
         q \in TmHolding => tmLock \in {p, "none"}
  PROVE  TmHolder'
<1> SUFFICES ASSUME NEW r \in TmThreads
             PROVE  tmLock' = r <=> tmPc'[r] \in TmHolding
  BY ZenonT(40) DEF TmHolder
<1>1. tmLock = r <=> tmPc[r] \in TmHolding
  BY Zenon DEF TmHolder
<1>2. tmLock = p <=> tmPc[p] \in TmHolding
  BY Zenon DEF TmHolder
<1>3. r # "none"
  BY TmThreadsAre, Zenon
<1>4. tmPc'[p] = q /\ (r # p => tmPc'[r] = tmPc[r])
  BY Moved, Zenon
<1> QED
  BY <1>1, <1>2, <1>3, <1>4, Zenon

\* When the lock is free after a step, only what the free lock promises is to
\* be shown, and when p has it, only what its place promises.
LEMMA HeldByOne ==
  /\ tmLock' = "none" => TmHeld'
  /\ \A p \in TmThreads : tmLock' = p => TmFree' /\ (TmHeldBy(p)' => TmHeld')
  BY TmThreadsAre, Zenon DEF TmHeld, TmFree, TmWanted

\* A move that leaves the Timer, its callback, its DPC, the handle and what
\* the other threads asked for alone.
TmPlain(p, q) ==
  /\ TmMoves(p, q)
  /\ UNCHANGED <<tmQueue, tmActive, tmDpc, tmHandle>>
  /\ \A r \in TmCallers : r # p => tmCall'[r] = tmCall[r]
  /\ tmHit' = tmHit \/ \A r \in TmCallers : r # p => tmPc[r] # "wait"

\* A caller that moves, or a worker that neither comes to wait for the lock
\* nor leaves it.
LEMMA TmPlainMove ==
  ASSUME TmWhere, NEW p \in TmThreads, NEW q, TmPlain(p, q),
         p \in TmCallers \/ (q # "lock" /\ tmPc[p] # "lock")
  PROVE  /\ tmPc' \in [TmThreads -> TmPcs] /\ tmPc'[p] = q
         /\ \A r \in TmThreads : r # p => tmPc'[r] = tmPc[r]
         /\ (TmExpired' <=> TmExpired) /\ TmOneExpiry'
         /\ TmOnly(p) /\ TmElse' = TmElse
<1>1. TimerTypeOK /\ TmOneExpiry /\ TmMoves(p, q)
  BY Zenon DEF TmWhere, TmPlain
<1>2. /\ tmPc' \in [TmThreads -> TmPcs] /\ tmPc'[p] = q
      /\ \A r \in TmThreads : r # p => tmPc'[r] = tmPc[r]
  BY <1>1, Moved, Zenon
<1>3. \A r \in TmCpus : tmPc'[r] = "lock" <=> tmPc[r] = "lock"
  BY <1>2, TmThreadsAre, Zenon
<1>4. (TmExpired' <=> TmExpired) /\ TmOneExpiry'
  BY <1>1, <1>3, SameExpiry, Zenon DEF TmPlain
<1>5. TmOnly(p)
  BY <1>2, TmThreadsAre, Zenon DEF TmOnly, TmPlain
<1>6. TmElse' = TmElse
  BY Zenon DEF TmElse, TmFiring, TmPlain
<1> QED
  BY <1>2, <1>4, <1>5, <1>6, ZenonT(40)
-----------------------------------------------------------------------------
(* Calls, Cancel, and the last handle *)

\* The last handle is closed, and its reference is on_zero_handles's.
LEMMA CallClose ==
  ASSUME TmWhere, NEW p \in TmCallers, NEW call \in TmCalls, TimerCall(p, call),
         call[1] = "close"
  PROVE  TmWhere' /\ TmAccounts(p) /\ TmDrops(p)
<1>0. /\ TimerTypeOK /\ TmPlaces /\ TmHolder /\ TmOneExpiry /\ TmFree /\ TmHeld
      /\ TimerSignalIsLatest
  BY Zenon DEF TmWhere
<1>1. p \in TmThreads /\ p \in TmCallers /\ p \notin TmCpus /\ p # "none"
  BY TmThreadsAre, Zenon
<1>2. /\ tmPc[p] = "idle" /\ tmHandle
      /\ tmOps < MaxTmOps
      /\ tmHandle' = FALSE
      /\ tmOps' = tmOps + 1
      /\ tmCall' = [tmCall EXCEPT ![p] = call]
      /\ TmMoves(p, "lock")
      /\ UNCHANGED <<tmSignaled, tmDeadline, tmSlack, cancelPending, tmLock, tmQueue,
                     tmScheduled, tmActive, tmDpc, tmRefs, tmDeleted, tmHit, tmNow,
                     tmWant, tmMay>>
  BY <1>1, Zenon DEF TimerCall, TmMoves, TmPcs, TmGo, tmHw, tmObj, tmRest
<1>3. /\ tmPc' \in [TmThreads -> TmPcs] /\ tmPc'[p] = "lock"
      /\ \A r \in TmThreads : r # p => tmPc'[r] = tmPc[r]
  BY <1>0, <1>1, <1>2, Moved, ZenonT(40)
<1>4. (TmExpired' <=> TmExpired) /\ TmOneExpiry'
  <2>1. \A r \in TmCpus : tmPc'[r] = "lock" <=> tmPc[r] = "lock"
    BY <1>1, <1>2, <1>3, TmThreadsAre, ZenonT(40)
  <2> QED
    BY <1>0, <1>2, <2>1, SameExpiry, Zenon
<1>5. TmAccounts(p)
  <2>1. TmOnly(p)
    BY <1>0, <1>1, <1>2, <1>3, TmThreadsAre, ZenonT(40)
    DEF TmOnly, TimerTypeOK, TmHolder, TmHolding
  <2>2. TmHas(p) = 0 /\ TmHas(p)' = 1
    BY <1>0, <1>1, <1>2, <1>3, ZenonT(40) DEF TmHas, TimerTypeOK, TmPlaces
  <2>3. TmElse' = TmElse - 1
    BY <1>1, <1>2, SMTT(30) DEF TmElse, TmOne, TmFiring
  <2> QED
    BY <1>0, <1>2, <2>1, <2>2, <2>3, RefsAreInt, SMTT(30) DEF TmAccounts, TimerTypeOK
<1>6. TimerTypeOK'
  <2>1. tmOps' \in 0..MaxTmOps /\ tmCall' \in [TmCallers -> TmCalls]
    BY <1>0, <1>1, <1>2, TmThreadsAre DEF TimerTypeOK
  <2> QED
    BY <1>0, <1>1, <1>2, <1>3, <2>1, ZenonT(40) DEF TimerTypeOK
<1>7. TmPlaces'
  BY <1>0, <1>1, <1>2, <1>3, TmThreadsAre, ZenonT(40) DEF TmPlaces, TimerTypeOK
<1>8. TmHolder'
  BY <1>0, <1>1, <1>2, HolderMove, ZenonT(40) DEF TmHolding
<1>9. TmFree' /\ TmHeld'
  <2>1. TmFree'
    BY <1>0, <1>2, <1>4, ZenonT(40) DEF TmFree, TmWanted
  <2>2. ASSUME NEW h \in TmThreads, tmLock' = h PROVE TmHeldBy(h)'
    <3>1. h # p /\ tmPc'[h] = tmPc[h] /\ TmHeldBy(h)
      BY <1>0, <1>1, <1>2, <1>3, <2>2, ZenonT(40) DEF TmHolder, TmHolding, TmHeld
    <3>2. TmArms(h)' <=> TmArms(h)
      BY <1>0, <1>2, <3>1, ZenonT(40) DEF TmArms, TimerTypeOK
    <3> QED
      BY <1>2, <1>4, <3>1, <3>2, ZenonT(40) DEF TmHeldBy, TmWanted
  <2> QED
    BY <2>1, <2>2, Zenon DEF TmHeld
<1>10. TimerSignalIsLatest'
  BY <1>0, <1>2, ZenonT(40) DEF TimerSignalIsLatest, TimerTypeOK
<1>11. TmDrops(p)
  BY <1>0, <1>2, Zenon DEF TmDrops, TimerTypeOK
<1> QED
  BY <1>4, <1>5, <1>6, <1>7, <1>8, <1>9, <1>10, <1>11, ZenonT(40) DEF TmWhere

\* Set or Cancel is called, with a reference of its own.
LEMMA CallOther ==
  ASSUME TmWhere, NEW p \in TmCallers, NEW call \in TmCalls, TimerCall(p, call),
         call[1] # "close"
  PROVE  TmWhere' /\ TmAccounts(p) /\ TmDrops(p)
<1>0. /\ TimerTypeOK /\ TmPlaces /\ TmHolder /\ TmOneExpiry /\ TmFree /\ TmHeld
      /\ TimerSignalIsLatest
  BY Zenon DEF TmWhere
<1>1. p \in TmThreads /\ p \in TmCallers /\ p \notin TmCpus /\ p # "none"
  BY TmThreadsAre, Zenon
<1>2. /\ tmPc[p] = "idle" /\ tmHandle
      /\ tmOps < MaxTmOps
      /\ tmRefs' = tmRefs + 1
      /\ tmOps' = tmOps + 1
      /\ tmCall' = [tmCall EXCEPT ![p] = call]
      /\ TmMoves(p, "lock")
      /\ UNCHANGED <<tmSignaled, tmDeadline, tmSlack, cancelPending, tmLock, tmQueue,
                     tmScheduled, tmActive, tmDpc, tmHandle, tmDeleted, tmHit, tmNow,
                     tmWant, tmMay>>
  BY <1>1, ZenonT(40) DEF TimerCall, TmMoves, TmPcs, TmGo, tmHw, tmObj, tmRest
<1>3. /\ tmPc' \in [TmThreads -> TmPcs] /\ tmPc'[p] = "lock"
      /\ \A r \in TmThreads : r # p => tmPc'[r] = tmPc[r]
  BY <1>0, <1>1, <1>2, Moved, ZenonT(40)
<1>4. (TmExpired' <=> TmExpired) /\ TmOneExpiry'
  <2>1. \A r \in TmCpus : tmPc'[r] = "lock" <=> tmPc[r] = "lock"
    BY <1>1, <1>2, <1>3, TmThreadsAre, ZenonT(40)
  <2> QED
    BY <1>0, <1>2, <2>1, SameExpiry, ZenonT(40)
<1>5. TmAccounts(p)
  <2>1. TmOnly(p)
    BY <1>0, <1>1, <1>2, <1>3, TmThreadsAre, ZenonT(40)
    DEF TmOnly, TimerTypeOK, TmHolder, TmHolding
  <2>2. TmHas(p) = 0 /\ TmHas(p)' = 1
    BY <1>0, <1>1, <1>2, <1>3, ZenonT(40) DEF TmHas, TimerTypeOK, TmPlaces
  <2>3. TmElse' = TmElse
    BY <1>1, <1>2, Zenon DEF TmElse, TmFiring
  <2> QED
    BY <1>0, <1>2, <2>1, <2>2, <2>3, RefsAreInt, SMTT(30) DEF TmAccounts, TimerTypeOK
<1>6. TimerTypeOK'
  <2>1. tmOps' \in 0..MaxTmOps /\ tmCall' \in [TmCallers -> TmCalls] /\ tmRefs' \in Int
    BY <1>0, <1>1, <1>2, TmThreadsAre DEF TimerTypeOK
  <2> QED
    BY <1>0, <1>1, <1>2, <1>3, <2>1, ZenonT(40) DEF TimerTypeOK
<1>7. TmPlaces'
  BY <1>0, <1>1, <1>2, <1>3, TmThreadsAre, ZenonT(40) DEF TmPlaces, TimerTypeOK
<1>8. TmHolder'
  BY <1>0, <1>1, <1>2, HolderMove, ZenonT(40) DEF TmHolding
<1>9. TmFree' /\ TmHeld'
  <2>1. TmFree'
    BY <1>0, <1>2, <1>4, ZenonT(40) DEF TmFree, TmWanted
  <2>2. ASSUME NEW h \in TmThreads, tmLock' = h PROVE TmHeldBy(h)'
    <3>1. h # p /\ tmPc'[h] = tmPc[h] /\ TmHeldBy(h)
      BY <1>0, <1>1, <1>2, <1>3, <2>2, ZenonT(40) DEF TmHolder, TmHolding, TmHeld
    <3>2. TmArms(h)' <=> TmArms(h)
      BY <1>0, <1>2, <3>1, ZenonT(40) DEF TmArms, TimerTypeOK
    <3> QED
      BY <1>2, <1>4, <3>1, <3>2, Zenon DEF TmHeldBy, TmWanted
  <2> QED
    BY <2>1, <2>2, ZenonT(40) DEF TmHeld
<1>10. TimerSignalIsLatest'
  BY <1>0, <1>2, Zenon DEF TimerSignalIsLatest, TimerTypeOK
<1>11. TmDrops(p)
  BY <1>0, <1>2, Zenon DEF TmDrops, TimerTypeOK
<1> QED
  BY <1>4, <1>5, <1>6, <1>7, <1>8, <1>9, <1>10, <1>11, ZenonT(40) DEF TmWhere

\* CancelTimerLocked finds no deadline, or one that only the DPC was to arm.
LEMMA CancelMissed ==
  ASSUME TmWhere, NEW p \in TmCallers, CancelTimerLocked(p),
         tmDeadline = 0 \/ cancelPending
  PROVE  TmWhere' /\ TmAccounts(p) /\ TmDrops(p)
<1>0. /\ TimerTypeOK /\ TmPlaces /\ TmHolder /\ TmOneExpiry /\ TmFree /\ TmHeld
      /\ TimerSignalIsLatest
  BY Zenon DEF TmWhere
<1>1. p \in TmThreads /\ p \in TmCallers /\ p \notin TmCpus /\ p # "none"
  BY TmThreadsAre, Zenon
<1>2. /\ tmPc[p] = "lock" /\ tmLock = "none"
      /\ tmLock' = p
      /\ tmSignaled' = FALSE
      /\ tmDeadline' = 0 /\ tmSlack' = 0
      /\ tmWant' = -1 /\ tmMay' = 0
      /\ TmMoves(p, "missed")
      /\ UNCHANGED <<cancelPending, tmQueue, tmScheduled, tmActive, tmDpc, tmHandle,
                     tmRefs, tmDeleted, tmCall, tmHit, tmNow, tmOps>>
  BY <1>1, Zenon DEF CancelTimerLocked, TmMoves, TmPcs, TmGo, tmHw, tmObj, tmRest
<1>3. /\ tmDeadline # 0 \/ cancelPending <=> TmExpired \/ tmQueue # "none"
      /\ tmQueue # "none" => ~TmExpired /\ ~cancelPending
      /\ TmExpired /\ ~cancelPending => tmMay <= tmNow
      /\ tmDeadline # 0 => TmWanted
  BY <1>0, <1>1, <1>2, Zenon DEF TmFree, TmWanted, TimerTypeOK
<1>4. /\ tmPc' \in [TmThreads -> TmPcs] /\ tmPc'[p] = "missed"
      /\ \A r \in TmThreads : r # p => tmPc'[r] = tmPc[r]
      /\ (TmExpired' <=> TmExpired) /\ TmOneExpiry'
      /\ TmOnly(p) /\ TmElse' = TmElse
  BY <1>1, <1>2, TmPlainMove, ZenonT(40) DEF TmPlain
<1>5. TmAccounts(p)
  <2>1. TmHas(p) = 1 /\ TmHas(p)' = 1
    BY <1>0, <1>1, <1>2, <1>4, ZenonT(40) DEF TmHas, TimerTypeOK, TmPlaces
  <2> QED
    BY <1>0, <1>2, <1>4, <2>1, RefsAreInt, SMTT(30) DEF TmAccounts, TimerTypeOK
<1>6. TimerTypeOK'
  <2>1. 0 \in 0..MaxTmTime /\ -1 \in -1..MaxTmTime /\ 0 \in 0..MaxTmSlack /\ 0 \in Int
    BY <1>0, <1>1, <1>2, TmThreadsAre, SMTT(30) DEF TimerTypeOK
  <2> QED
    BY <1>0, <1>1, <1>2, <1>4, <2>1, ZenonT(40) DEF TimerTypeOK
<1>7. TmPlaces'
  BY <1>0, <1>1, <1>2, <1>4, TmThreadsAre, ZenonT(40) DEF TmPlaces, TimerTypeOK
<1>8. TmHolder'
  BY <1>0, <1>1, <1>2, <1>3, HolderMove, Zenon DEF TmHolding
<1>9. TmFree' /\ TmHeld'
  <2>1. TmHeldBy(p)'
    BY <1>1, <1>2, <1>3, <1>4, TmThreadsAre, ZenonT(40) DEF TmHeldBy, TmArms, TmWanted
  <2> QED
    BY <1>1, <1>2, <1>3, <2>1, HeldByOne, ZenonT(40)
<1>10. TimerSignalIsLatest'
  BY <1>0, <1>2, <1>3, ZenonT(40) DEF TimerSignalIsLatest, TimerTypeOK
<1>11. TmDrops(p)
  BY <1>0, <1>2, Zenon DEF TmDrops, TimerTypeOK
<1> QED
  BY <1>4, <1>5, <1>6, <1>7, <1>8, <1>9, <1>10, <1>11, ZenonT(40) DEF TmWhere

\* CancelTimerLocked takes the Timer off its queue, or is too late.
LEMMA CancelWaits ==
  ASSUME TmWhere, NEW p \in TmCallers, CancelTimerLocked(p),
         ~(tmDeadline = 0 \/ cancelPending)
  PROVE  TmWhere' /\ TmAccounts(p) /\ TmDrops(p)
<1>0. /\ TimerTypeOK /\ TmPlaces /\ TmHolder /\ TmOneExpiry /\ TmFree /\ TmHeld
      /\ TimerSignalIsLatest
  BY Zenon DEF TmWhere
<1>1. p \in TmThreads /\ p \in TmCallers /\ p \notin TmCpus /\ p # "none"
  BY TmThreadsAre, Zenon
<1>2. /\ tmPc[p] = "lock" /\ tmLock = "none"
      /\ tmDeadline # 0
      /\ ~cancelPending
      /\ tmLock' = p
      /\ tmSignaled' = FALSE
      /\ tmDeadline' = 0 /\ tmSlack' = 0
      /\ tmWant' = -1 /\ tmMay' = 0
      /\ tmQueue' = "none" /\ tmScheduled' = 0
      /\ tmHit' = (tmQueue # "none")
      /\ TmMoves(p, "wait")
      /\ UNCHANGED <<cancelPending, tmActive, tmDpc, tmHandle, tmRefs,
                     tmDeleted, tmCall, tmNow, tmOps>>
  BY <1>1, Zenon DEF TmDequeue, CancelTimerLocked, TmMoves, TmPcs, TmGo, tmHw, tmObj,
     tmRest
<1>3. /\ tmDeadline # 0 \/ cancelPending <=> TmExpired \/ tmQueue # "none"
      /\ tmQueue # "none" => ~TmExpired /\ ~cancelPending
      /\ TmExpired /\ ~cancelPending => tmMay <= tmNow
      /\ tmDeadline # 0 => TmWanted
  BY <1>0, <1>1, <1>2, ZenonT(40) DEF TmFree, TmWanted, TimerTypeOK
<1>4. /\ tmPc' \in [TmThreads -> TmPcs] /\ tmPc'[p] = "wait"
      /\ \A r \in TmThreads : r # p => tmPc'[r] = tmPc[r]
  BY <1>0, <1>1, <1>2, Moved, ZenonT(40)
<1>5. (TmExpired' <=> TmExpired) /\ TmOneExpiry'
  <2>1. \A r \in TmCpus : tmPc'[r] = "lock" <=> tmPc[r] = "lock"
    BY <1>1, <1>2, <1>4, TmThreadsAre, ZenonT(40)
  <2> QED
    BY <1>0, <1>2, <2>1, SameExpiry, ZenonT(40)
<1>6. TmAccounts(p)
  <2>1. TmOnly(p)
    BY <1>0, <1>1, <1>2, <1>4, TmThreadsAre, ZenonT(40)
    DEF TmOnly, TimerTypeOK, TmHolder, TmHolding
  <2>2. TmHas(p) = 1 /\ TmHas(p)' = (IF tmQueue # "none" THEN 2 ELSE 1)
    BY <1>0, <1>1, <1>2, <1>4, ZenonT(40) DEF TmHas, TimerTypeOK, TmPlaces, TmOne
  <2>3. TmElse' = TmElse - TmOne(tmQueue # "none")
    BY <1>1, <1>2, <1>3, SMTT(30) DEF TmElse, TmOne, TmFiring
  <2> QED
    BY <1>0, <1>2, <2>1, <2>2, <2>3, RefsAreInt, SMTT(30)
    DEF TmAccounts, TimerTypeOK, TmOne
<1>7. TimerTypeOK'
  <2>1. 0 \in 0..MaxTmTime /\ -1 \in -1..MaxTmTime /\ 0 \in 0..MaxTmSlack /\ 0 \in Int
    BY <1>0, <1>1, <1>2, TmThreadsAre DEF TimerTypeOK
  <2> QED
    BY <1>0, <1>1, <1>2, <1>4, <2>1, ZenonT(40) DEF TimerTypeOK
<1>8. TmPlaces'
  BY <1>0, <1>1, <1>2, <1>4, TmThreadsAre, ZenonT(40) DEF TmPlaces, TimerTypeOK
<1>9. TmHolder'
  BY <1>0, <1>1, <1>2, <1>3, HolderMove, ZenonT(40) DEF TmHolding
<1>10. TmFree' /\ TmHeld'
  <2>1. TmHeldBy(p)'
    BY <1>1, <1>2, <1>3, <1>4, <1>5, TmThreadsAre, ZenonT(40)
    DEF TmHeldBy, TmArms, TmWanted
  <2> QED
    BY <1>1, <1>2, <1>3, <2>1, HeldByOne, ZenonT(40)
<1>11. TimerSignalIsLatest'
  BY <1>0, <1>2, <1>3, ZenonT(40) DEF TimerSignalIsLatest, TimerTypeOK
<1>12. TmDrops(p)
  BY <1>0, <1>2, ZenonT(40) DEF TmDrops, TimerTypeOK
<1> QED
  BY <1>5, <1>6, <1>7, <1>8, <1>9, <1>10, <1>11, <1>12, ZenonT(40) DEF TmWhere

\* The canceled Timer's reference is dropped.
LEMMA CancelHit ==
  ASSUME TmWhere, NEW p \in TmCallers, TimerCancelDone(p),
         tmHit
  PROVE  TmWhere' /\ TmAccounts(p) /\ TmDrops(p)
<1>0. /\ TimerTypeOK /\ TmPlaces /\ TmHolder /\ TmOneExpiry /\ TmFree /\ TmHeld
      /\ TimerSignalIsLatest
  BY Zenon DEF TmWhere
<1>1. p \in TmThreads /\ p \in TmCallers /\ p \notin TmCpus /\ p # "none"
  BY TmThreadsAre, Zenon
<1>2. /\ tmPc[p] = "wait" /\ tmActive = NotActive
      /\ tmRefs' = tmRefs - 1
      /\ tmHit' = FALSE
      /\ TmMoves(p, "canceled")
      /\ UNCHANGED <<tmSignaled, tmDeadline, tmSlack, cancelPending, tmLock, tmQueue,
                     tmScheduled, tmActive, tmDpc, tmHandle, tmDeleted, tmCall,
                     tmNow, tmOps, tmWant, tmMay>>
  BY <1>1, Zenon DEF TimerCancelDone, TmMoves, TmPcs, TmGo, tmHw, tmObj, tmRest
<1>3. /\ tmLock = p /\ tmQueue = "none" /\ tmDeadline = 0 /\ ~tmSignaled /\ ~cancelPending
      /\ TmExpired <=> ~tmHit
  BY <1>0, <1>1, <1>2, Zenon DEF TmHolder, TmHolding, TmHeld, TmHeldBy, TmArms,
     TmWanted, TmPlaces
<1>4. /\ tmPc' \in [TmThreads -> TmPcs] /\ tmPc'[p] = "canceled"
      /\ \A r \in TmThreads : r # p => tmPc'[r] = tmPc[r]
      /\ (TmExpired' <=> TmExpired) /\ TmOneExpiry'
      /\ TmOnly(p) /\ TmElse' = TmElse
  BY <1>0, <1>1, <1>2, <1>3, TmThreadsAre, TmPlainMove, ZenonT(40)
  DEF TmPlain, TmHolder, TmHolding
<1>5. TmAccounts(p)
  <2>1. TmHas(p) = 2 /\ TmHas(p)' = 1
    BY <1>0, <1>1, <1>2, <1>4, ZenonT(40) DEF TmHas, TimerTypeOK, TmPlaces
  <2> QED
    BY <1>0, <1>2, <1>4, <2>1, RefsAreInt, SMTT(30) DEF TmAccounts, TimerTypeOK
<1>6. TimerTypeOK'
  <2>1. tmRefs' \in Int
    BY <1>0, <1>1, <1>2, TmThreadsAre, SMTT(30) DEF TimerTypeOK
  <2> QED
    BY <1>0, <1>1, <1>2, <1>4, <2>1, ZenonT(40) DEF TimerTypeOK
<1>7. TmPlaces'
  BY <1>0, <1>1, <1>2, <1>4, TmThreadsAre, ZenonT(40) DEF TmPlaces, TimerTypeOK
<1>8. TmHolder'
  BY <1>0, <1>1, <1>2, <1>3, HolderMove, ZenonT(40) DEF TmHolding
<1>9. TmFree' /\ TmHeld'
  <2>1. TmHeldBy(p)'
    BY <1>1, <1>2, <1>3, <1>4, TmThreadsAre, ZenonT(40) DEF TmHeldBy, TmArms, TmWanted
  <2> QED
    BY <1>1, <1>2, <1>3, <2>1, HeldByOne, ZenonT(40)
<1>10. TimerSignalIsLatest'
  BY <1>0, <1>2, <1>3, Zenon DEF TimerSignalIsLatest, TimerTypeOK
<1>11. TmDrops(p)
  BY <1>0, <1>2, Zenon DEF TmDrops, TimerTypeOK
<1> QED
  BY <1>4, <1>5, <1>6, <1>7, <1>8, <1>9, <1>10, <1>11, ZenonT(40) DEF TmWhere

\* The DPC is left to drop the reference.
LEMMA CancelTooLate ==
  ASSUME TmWhere, NEW p \in TmCallers, TimerCancelDone(p),
         ~tmHit
  PROVE  TmWhere' /\ TmAccounts(p) /\ TmDrops(p)
<1>0. /\ TimerTypeOK /\ TmPlaces /\ TmHolder /\ TmOneExpiry /\ TmFree /\ TmHeld
      /\ TimerSignalIsLatest
  BY Zenon DEF TmWhere
<1>1. p \in TmThreads /\ p \in TmCallers /\ p \notin TmCpus /\ p # "none"
  BY TmThreadsAre, Zenon
<1>2. /\ tmPc[p] = "wait" /\ tmActive = NotActive
      /\ cancelPending' = TRUE
      /\ tmHit' = FALSE
      /\ TmMoves(p, "canceled")
      /\ UNCHANGED <<tmSignaled, tmDeadline, tmSlack, tmLock, tmQueue, tmScheduled, tmActive,
                     tmDpc, tmHandle, tmRefs, tmDeleted, tmCall, tmNow, tmOps,
                     tmWant, tmMay>>
  BY <1>1, Zenon DEF TimerCancelDone, TmMoves, TmPcs, TmGo, tmHw, tmObj, tmRest
<1>3. /\ tmLock = p /\ tmQueue = "none" /\ tmDeadline = 0 /\ ~tmSignaled /\ ~cancelPending
      /\ TmExpired <=> ~tmHit
  BY <1>0, <1>1, <1>2, Zenon DEF TmHolder, TmHolding, TmHeld, TmHeldBy, TmArms,
     TmWanted, TmPlaces
<1>4. /\ tmPc' \in [TmThreads -> TmPcs] /\ tmPc'[p] = "canceled"
      /\ \A r \in TmThreads : r # p => tmPc'[r] = tmPc[r]
      /\ (TmExpired' <=> TmExpired) /\ TmOneExpiry'
      /\ TmOnly(p) /\ TmElse' = TmElse
  BY <1>0, <1>1, <1>2, <1>3, TmThreadsAre, TmPlainMove, ZenonT(40)
  DEF TmPlain, TmHolder, TmHolding
<1>5. TmAccounts(p)
  <2>1. TmHas(p) = 1 /\ TmHas(p)' = 1
    BY <1>0, <1>1, <1>2, <1>4, ZenonT(40) DEF TmHas, TimerTypeOK, TmPlaces
  <2> QED
    BY <1>0, <1>2, <1>4, <2>1, RefsAreInt, SMTT(30) DEF TmAccounts, TimerTypeOK
<1>6. TimerTypeOK'
  BY <1>0, <1>1, <1>2, <1>4, ZenonT(40) DEF TimerTypeOK
<1>7. TmPlaces'
  BY <1>0, <1>1, <1>2, <1>4, TmThreadsAre, ZenonT(40) DEF TmPlaces, TimerTypeOK
<1>8. TmHolder'
  BY <1>0, <1>1, <1>2, <1>3, HolderMove, ZenonT(40) DEF TmHolding
<1>9. TmFree' /\ TmHeld'
  <2>1. TmHeldBy(p)'
    BY <1>1, <1>2, <1>3, <1>4, TmThreadsAre, ZenonT(40) DEF TmHeldBy, TmArms, TmWanted
  <2> QED
    BY <1>1, <1>2, <1>3, <2>1, HeldByOne, ZenonT(40)
<1>10. TimerSignalIsLatest'
  BY <1>0, <1>2, <1>3, ZenonT(40) DEF TimerSignalIsLatest, TimerTypeOK
<1>11. TmDrops(p)
  BY <1>0, <1>2, ZenonT(40) DEF TmDrops, TimerTypeOK
<1> QED
  BY <1>4, <1>5, <1>6, <1>7, <1>8, <1>9, <1>10, <1>11, ZenonT(40) DEF TmWhere

\* Cancel drops the lock.
LEMMA CancelReturns ==
  ASSUME TmWhere, NEW p \in TmCallers, CancelReturn(p)
  PROVE  TmWhere' /\ TmAccounts(p) /\ TmDrops(p)
<1>0. /\ TimerTypeOK /\ TmPlaces /\ TmHolder /\ TmOneExpiry /\ TmFree /\ TmHeld
      /\ TimerSignalIsLatest
  BY Zenon DEF TmWhere
<1>1. p \in TmThreads /\ p \in TmCallers /\ p \notin TmCpus /\ p # "none"
  BY TmThreadsAre, Zenon
<1>2. /\ tmPc[p] \in {"missed", "canceled"}
      /\ tmLock' = "none"
      /\ TmMoves(p, "release")
      /\ UNCHANGED <<tmSignaled, tmDeadline, tmSlack, cancelPending, tmQueue, tmScheduled,
                     tmActive, tmDpc, tmHandle, tmRefs, tmDeleted, tmCall, tmHit,
                     tmNow, tmOps, tmWant, tmMay>>
  BY <1>1, Zenon DEF CancelReturn, TmUnlock, TmMoves, TmPcs, TmGo, tmHw, tmObj, tmRest
<1>3. /\ tmLock = p /\ tmQueue = "none" /\ tmDeadline = 0 /\ ~tmSignaled
      /\ TmExpired <=> cancelPending
  BY <1>0, <1>1, <1>2, ZenonT(40) DEF TmHolder, TmHolding, TmHeld, TmHeldBy, TmArms,
     TmWanted,
     TmPlaces
<1>4. /\ tmPc' \in [TmThreads -> TmPcs] /\ tmPc'[p] = "release"
      /\ \A r \in TmThreads : r # p => tmPc'[r] = tmPc[r]
      /\ (TmExpired' <=> TmExpired) /\ TmOneExpiry'
      /\ TmOnly(p) /\ TmElse' = TmElse
  BY <1>1, <1>2, TmPlainMove, ZenonT(40) DEF TmPlain
<1>5. TmAccounts(p)
  <2>1. TmHas(p) = 1 /\ TmHas(p)' = 1
    BY <1>0, <1>1, <1>2, <1>4, ZenonT(40) DEF TmHas, TimerTypeOK, TmPlaces
  <2> QED
    BY <1>0, <1>2, <1>4, <2>1, RefsAreInt, SMTT(30) DEF TmAccounts, TimerTypeOK
<1>6. TimerTypeOK'
  BY <1>0, <1>1, <1>2, <1>4, ZenonT(40) DEF TimerTypeOK
<1>7. TmPlaces'
  BY <1>0, <1>1, <1>2, <1>4, TmThreadsAre, ZenonT(40) DEF TmPlaces, TimerTypeOK
<1>8. TmHolder'
  BY <1>0, <1>1, <1>2, <1>3, HolderMove, Zenon DEF TmHolding
<1>9. TmFree' /\ TmHeld'
  <2>1. TmFree'
    BY <1>1, <1>2, <1>3, <1>4, Zenon DEF TmFree, TmWanted
  <2> QED
    BY <1>1, <1>2, <2>1, HeldByOne, ZenonT(40)
<1>10. TimerSignalIsLatest'
  BY <1>0, <1>2, <1>3, Zenon DEF TimerSignalIsLatest, TimerTypeOK
<1>11. TmDrops(p)
  BY <1>0, <1>2, Zenon DEF TmDrops, TimerTypeOK
<1> QED
  BY <1>4, <1>5, <1>6, <1>7, <1>8, <1>9, <1>10, <1>11, ZenonT(40) DEF TmWhere

\* on_zero_handles has canceled the Timer.
LEMMA ZeroHandlesCanceled ==
  ASSUME TmWhere, NEW p \in TmCallers, TimerOnZeroHandles(p),
         tmPc[p] = "canceled"
  PROVE  TmWhere' /\ TmAccounts(p) /\ TmDrops(p)
<1>0. /\ TimerTypeOK /\ TmPlaces /\ TmHolder /\ TmOneExpiry /\ TmFree /\ TmHeld
      /\ TimerSignalIsLatest
  BY Zenon DEF TmWhere
<1>1. p \in TmThreads /\ p \in TmCallers /\ p \notin TmCpus /\ p # "none"
  BY TmThreadsAre, Zenon
<1>2. /\ tmPc[p] = "canceled"
      /\ tmLock' = "none"
      /\ TmMoves(p, "release")
      /\ UNCHANGED <<tmSignaled, tmDeadline, tmSlack, cancelPending, tmQueue, tmScheduled,
                     tmActive, tmDpc, tmHandle, tmRefs, tmDeleted, tmCall, tmHit,
                     tmNow, tmOps, tmWant, tmMay>>
  BY <1>1, Zenon DEF TimerOnZeroHandles, TmUnlock, TmMoves, TmPcs, TmGo, tmHw,
     tmObj, tmRest
<1>3. /\ tmLock = p /\ tmQueue = "none" /\ tmDeadline = 0 /\ ~tmSignaled
      /\ TmExpired <=> cancelPending
  BY <1>0, <1>1, <1>2, Zenon DEF TmHolder, TmHolding, TmHeld, TmHeldBy, TmArms, TmWanted,
     TmPlaces
<1>4. /\ tmPc' \in [TmThreads -> TmPcs] /\ tmPc'[p] = "release"
      /\ \A r \in TmThreads : r # p => tmPc'[r] = tmPc[r]
      /\ (TmExpired' <=> TmExpired) /\ TmOneExpiry'
      /\ TmOnly(p) /\ TmElse' = TmElse
  BY <1>1, <1>2, TmPlainMove, ZenonT(40) DEF TmPlain
<1>5. TmAccounts(p)
  <2>1. TmHas(p) = 1 /\ TmHas(p)' = 1
    BY <1>0, <1>1, <1>2, <1>4, ZenonT(40) DEF TmHas, TimerTypeOK, TmPlaces
  <2> QED
    BY <1>0, <1>2, <1>4, <2>1, RefsAreInt, SMTT(30) DEF TmAccounts, TimerTypeOK
<1>6. TimerTypeOK'
  BY <1>0, <1>1, <1>2, <1>4, ZenonT(40) DEF TimerTypeOK
<1>7. TmPlaces'
  BY <1>0, <1>1, <1>2, <1>4, TmThreadsAre, ZenonT(40) DEF TmPlaces, TimerTypeOK
<1>8. TmHolder'
  BY <1>0, <1>1, <1>2, <1>3, HolderMove, ZenonT(40) DEF TmHolding
<1>9. TmFree' /\ TmHeld'
  <2>1. TmFree'
    BY <1>1, <1>2, <1>3, <1>4, ZenonT(40) DEF TmFree, TmWanted
  <2> QED
    BY <1>1, <1>2, <2>1, HeldByOne, ZenonT(40)
<1>10. TimerSignalIsLatest'
  BY <1>0, <1>2, <1>3, ZenonT(40) DEF TimerSignalIsLatest, TimerTypeOK
<1>11. TmDrops(p)
  BY <1>0, <1>2, ZenonT(40) DEF TmDrops, TimerTypeOK
<1> QED
  BY <1>4, <1>5, <1>6, <1>7, <1>8, <1>9, <1>10, <1>11, ZenonT(40) DEF TmWhere

\* on_zero_handles has not, and cancels it itself.
LEMMA ZeroHandlesMissed ==
  ASSUME TmWhere, NEW p \in TmCallers, TimerOnZeroHandles(p),
         tmPc[p] # "canceled"
  PROVE  TmWhere' /\ TmAccounts(p) /\ TmDrops(p)
<1>0. /\ TimerTypeOK /\ TmPlaces /\ TmHolder /\ TmOneExpiry /\ TmFree /\ TmHeld
      /\ TimerSignalIsLatest
  BY Zenon DEF TmWhere
<1>1. p \in TmThreads /\ p \in TmCallers /\ p \notin TmCpus /\ p # "none"
  BY TmThreadsAre, Zenon
<1>2. /\ tmPc[p] = "missed" /\ tmCall[p][1] = "close"
      /\ tmQueue' = "none" /\ tmScheduled' = 0
      /\ TmMoves(p, "rewait")
      /\ UNCHANGED <<tmSignaled, tmDeadline, tmSlack, cancelPending, tmLock,
                     tmActive, tmDpc, tmHandle, tmRefs, tmDeleted, tmCall, tmHit,
                     tmNow, tmOps, tmWant, tmMay>>
  BY <1>1, Zenon DEF TmDequeue, TimerOnZeroHandles, TmUnlock, TmMoves, TmPcs, TmGo, tmHw,
     tmObj, tmRest
<1>3. /\ tmLock = p /\ tmQueue = "none" /\ tmDeadline = 0 /\ ~tmSignaled
      /\ TmExpired <=> cancelPending
  BY <1>0, <1>1, <1>2, ZenonT(40) DEF TmHolder, TmHolding, TmHeld, TmHeldBy, TmArms,
     TmWanted,
     TmPlaces
<1>4. /\ tmPc' \in [TmThreads -> TmPcs] /\ tmPc'[p] = "rewait"
      /\ \A r \in TmThreads : r # p => tmPc'[r] = tmPc[r]
      /\ (TmExpired' <=> TmExpired) /\ TmOneExpiry'
      /\ TmOnly(p) /\ TmElse' = TmElse
  BY <1>1, <1>2, <1>3, TmPlainMove, ZenonT(40) DEF TmPlain
<1>5. TmAccounts(p)
  <2>1. TmHas(p) = 1 /\ TmHas(p)' = 1
    BY <1>0, <1>1, <1>2, <1>4, ZenonT(40) DEF TmHas, TimerTypeOK, TmPlaces
  <2> QED
    BY <1>0, <1>2, <1>4, <2>1, RefsAreInt, SMTT(30) DEF TmAccounts, TimerTypeOK
<1>6. TimerTypeOK'
  BY <1>0, <1>1, <1>2, <1>4, ZeroIsInt, ZenonT(40) DEF TimerTypeOK
<1>7. TmPlaces'
  BY <1>0, <1>1, <1>2, <1>4, TmThreadsAre, ZenonT(40) DEF TmPlaces, TimerTypeOK
<1>8. TmHolder'
  BY <1>0, <1>1, <1>2, <1>3, HolderMove, ZenonT(40) DEF TmHolding
<1>9. TmFree' /\ TmHeld'
  <2>1. TmHeldBy(p)'
    BY <1>1, <1>2, <1>3, <1>4, TmThreadsAre, ZenonT(40) DEF TmHeldBy, TmArms, TmWanted
  <2> QED
    BY <1>1, <1>2, <1>3, <2>1, HeldByOne, ZenonT(40)
<1>10. TimerSignalIsLatest'
  BY <1>0, <1>2, <1>3, ZenonT(40) DEF TimerSignalIsLatest, TimerTypeOK
<1>11. TmDrops(p)
  BY <1>0, <1>2, ZenonT(40) DEF TmDrops, TimerTypeOK
<1> QED
  BY <1>4, <1>5, <1>6, <1>7, <1>8, <1>9, <1>10, <1>11, ZenonT(40) DEF TmWhere

\* on_zero_handles has waited for the callback.
LEMMA ZeroHandlesWaited ==
  ASSUME TmWhere, NEW p \in TmCallers, OnZeroHandlesWaited(p)
  PROVE  TmWhere' /\ TmAccounts(p) /\ TmDrops(p)
<1>0. /\ TimerTypeOK /\ TmPlaces /\ TmHolder /\ TmOneExpiry /\ TmFree /\ TmHeld
      /\ TimerSignalIsLatest
  BY Zenon DEF TmWhere
<1>1. p \in TmThreads /\ p \in TmCallers /\ p \notin TmCpus /\ p # "none"
  BY TmThreadsAre, Zenon
<1>2. /\ tmPc[p] = "rewait" /\ tmCall[p][1] = "close"
      /\ tmLock' = "none"
      /\ TmMoves(p, "release")
      /\ UNCHANGED <<tmSignaled, tmDeadline, tmSlack, cancelPending, tmQueue, tmScheduled,
                     tmActive, tmDpc, tmHandle, tmRefs, tmDeleted, tmCall, tmHit,
                     tmNow, tmOps, tmWant, tmMay>>
  BY <1>1, Zenon DEF OnZeroHandlesWaited, TmUnlock, TmMoves, TmPcs, TmGo, tmHw,
     tmObj, tmRest
<1>3. /\ tmLock = p /\ tmQueue = "none" /\ tmDeadline = 0
      /\ TmExpired <=> cancelPending
  BY <1>0, <1>1, <1>2, ZenonT(40) DEF TmHolder, TmHolding, TmHeld, TmHeldBy, TmArms,
     TmWanted,
     TmPlaces
<1>4. /\ tmPc' \in [TmThreads -> TmPcs] /\ tmPc'[p] = "release"
      /\ \A r \in TmThreads : r # p => tmPc'[r] = tmPc[r]
      /\ (TmExpired' <=> TmExpired) /\ TmOneExpiry'
      /\ TmOnly(p) /\ TmElse' = TmElse
  BY <1>1, <1>2, TmPlainMove, ZenonT(40) DEF TmPlain
<1>5. TmAccounts(p)
  <2>1. TmHas(p) = 1 /\ TmHas(p)' = 1
    BY <1>0, <1>1, <1>2, <1>4, ZenonT(40) DEF TmHas, TimerTypeOK, TmPlaces
  <2> QED
    BY <1>0, <1>2, <1>4, <2>1, RefsAreInt, SMTT(30) DEF TmAccounts, TimerTypeOK
<1>6. TimerTypeOK'
  BY <1>0, <1>1, <1>2, <1>4, ZenonT(40) DEF TimerTypeOK
<1>7. TmPlaces'
  BY <1>0, <1>1, <1>2, <1>4, TmThreadsAre, ZenonT(40) DEF TmPlaces, TimerTypeOK
<1>8. TmHolder'
  BY <1>0, <1>1, <1>2, <1>3, HolderMove, Zenon DEF TmHolding
<1>9. TmFree' /\ TmHeld'
  <2>1. TmFree'
    BY <1>1, <1>2, <1>3, <1>4, ZenonT(40) DEF TmFree, TmWanted
  <2> QED
    BY <1>1, <1>2, <2>1, HeldByOne, ZenonT(40)
<1>10. TimerSignalIsLatest'
  BY <1>0, <1>2, <1>3, Zenon DEF TimerSignalIsLatest, TimerTypeOK
<1>11. TmDrops(p)
  BY <1>0, <1>2, Zenon DEF TmDrops, TimerTypeOK
<1> QED
  BY <1>4, <1>5, <1>6, <1>7, <1>8, <1>9, <1>10, <1>11, Zenon DEF TmWhere

\* A thread drops its reference.
LEMMA Releases ==
  ASSUME TmWhere, NEW p \in TmThreads, TimerRelease(p)
  PROVE  TmWhere' /\ TmAccounts(p) /\ TmDrops(p)
<1>0. /\ TimerTypeOK /\ TmPlaces /\ TmHolder /\ TmOneExpiry /\ TmFree /\ TmHeld
      /\ TimerSignalIsLatest
  BY Zenon DEF TmWhere
<1>1. p \in TmThreads /\ p # "none"
  BY TmThreadsAre, Zenon
<1>2. /\ tmPc[p] = "release"
      /\ tmRefs' = tmRefs - 1
      /\ tmDeleted' = (tmRefs = 1)
      /\ TmMoves(p, "idle")
      /\ tmCall' \in [TmCallers -> TmCalls]
      /\ \A r \in TmCallers : r # p => tmCall'[r] = tmCall[r]
      /\ UNCHANGED <<tmSignaled, tmDeadline, tmSlack, cancelPending, tmLock, tmQueue,
                     tmScheduled, tmActive, tmDpc, tmHandle, tmHit, tmNow,
                     tmOps, tmWant, tmMay>>
  BY <1>0, <1>1, ZenonT(40) DEF TimerTypeOK, NoCall, TmCalls, TimerRelease, TmMoves,
     TmPcs, TmGo, tmHw, tmObj, tmRest
<1>3. /\ tmPc' \in [TmThreads -> TmPcs] /\ tmPc'[p] = "idle"
      /\ \A r \in TmThreads : r # p => tmPc'[r] = tmPc[r]
      /\ (TmExpired' <=> TmExpired) /\ TmOneExpiry'
      /\ TmOnly(p) /\ TmElse' = TmElse
  BY <1>1, <1>2, TmPlainMove, ZenonT(40) DEF TmPlain
<1>4. TmAccounts(p)
  <2>1. TmHas(p) = 1 /\ TmHas(p)' = 0
    BY <1>0, <1>1, <1>2, <1>3, ZenonT(40) DEF TmHas, TimerTypeOK, TmPlaces
  <2> QED
    BY <1>0, <1>2, <1>3, <2>1, RefsAreInt, SMTT(30) DEF TmAccounts, TimerTypeOK
<1>5. TimerTypeOK'
  <2>1. tmRefs' \in Int
    BY <1>0, <1>1, <1>2, TmThreadsAre DEF TimerTypeOK
  <2> QED
    BY <1>0, <1>1, <1>2, <1>3, <2>1, ZenonT(40) DEF TimerTypeOK
<1>6. TmPlaces'
  BY <1>0, <1>1, <1>2, <1>3, TmThreadsAre, ZenonT(40) DEF TmPlaces, TimerTypeOK
<1>7. TmHolder'
  BY <1>0, <1>1, <1>2, HolderMove, Zenon DEF TmHolding
<1>8. TmFree' /\ TmHeld'
  <2>1. TmFree'
    BY <1>0, <1>2, <1>3, ZenonT(40) DEF TmFree, TmWanted
  <2>2. ASSUME NEW h \in TmThreads, tmLock' = h PROVE TmHeldBy(h)'
    <3>1. h # p /\ tmPc'[h] = tmPc[h] /\ TmHeldBy(h)
      BY <1>0, <1>1, <1>2, <1>3, <2>2, ZenonT(40) DEF TmHolder, TmHolding, TmHeld
    <3>2. TmArms(h)' <=> TmArms(h)
      BY <1>0, <1>2, <3>1, ZenonT(40) DEF TmArms, TimerTypeOK
    <3> QED
      BY <1>2, <1>3, <3>1, <3>2, Zenon DEF TmHeldBy, TmWanted
  <2> QED
    BY <2>1, <2>2, ZenonT(40) DEF TmHeld
<1>9. TimerSignalIsLatest'
  BY <1>0, <1>2, ZenonT(40) DEF TimerSignalIsLatest, TimerTypeOK
<1>10. TmDrops(p)
  BY <1>0, <1>2 DEF TmDrops, TimerTypeOK
<1> QED
  BY <1>3, <1>4, <1>5, <1>6, <1>7, <1>8, <1>9, <1>10, ZenonT(40) DEF TmWhere
-----------------------------------------------------------------------------
(* Set, and the DPC *)

\* Set is given a deadline that has passed.
LEMMA SetPast ==
  ASSUME TmWhere, NEW p \in TmCallers, TimerSet(p),
         tmCall[p][2] <= tmNow
  PROVE  TmWhere' /\ TmAccounts(p) /\ TmDrops(p)
<1>0. /\ TimerTypeOK /\ TmPlaces /\ TmHolder /\ TmOneExpiry /\ TmFree /\ TmHeld
      /\ TimerSignalIsLatest
  BY Zenon DEF TmWhere
<1>1. p \in TmThreads /\ p \in TmCallers /\ p \notin TmCpus /\ p # "none"
  BY TmThreadsAre, ZenonT(40)
<1>2. /\ tmPc[p] \in {"missed", "canceled"} /\ tmCall[p][1] = "set"
      /\ tmCall[p][2] \in 1..MaxTmTime /\ tmCall[p][2] # 0
      /\ tmCall[p][2] <= tmNow
      /\ tmCall[p][3] \in 0..MaxTmSlack
      /\ tmWant' = tmCall[p][2] /\ tmMay' = Earliest(tmCall[p][2], tmCall[p][3])
      /\ tmSignaled' = TRUE
      /\ tmLock' = "none"
      /\ TmMoves(p, "release")
      /\ UNCHANGED <<tmDeadline, tmSlack, cancelPending, tmQueue, tmScheduled, tmActive, tmDpc,
                     tmHandle, tmRefs, tmDeleted, tmCall, tmHit, tmNow, tmOps>>
  BY <1>0, <1>1, SMTT(30)
  DEF TimerTypeOK, TmCalls, TimerSet, TmUnlock, TmMoves, TmPcs, TmGo, tmHw, tmObj, tmRest
<1>3. /\ tmLock = p /\ tmQueue = "none" /\ tmDeadline = 0 /\ ~tmSignaled
      /\ TmExpired <=> cancelPending
  BY <1>0, <1>1, <1>2, ZenonT(40) DEF TmHolder, TmHolding, TmHeld, TmHeldBy, TmArms,
     TmWanted, TmPlaces
<1>4. /\ tmPc' \in [TmThreads -> TmPcs] /\ tmPc'[p] = "release"
      /\ \A r \in TmThreads : r # p => tmPc'[r] = tmPc[r]
      /\ (TmExpired' <=> TmExpired) /\ TmOneExpiry'
      /\ TmOnly(p) /\ TmElse' = TmElse
  BY <1>1, <1>2, TmPlainMove, ZenonT(40) DEF TmPlain
<1>5. TmAccounts(p)
  <2>1. TmHas(p) = 1 /\ TmHas(p)' = 1
    BY <1>0, <1>1, <1>2, <1>4, ZenonT(40) DEF TmHas, TimerTypeOK, TmPlaces
  <2> QED
    BY <1>0, <1>2, <1>4, <2>1, RefsAreInt, SMTT(30) DEF TmAccounts, TimerTypeOK
<1>6. TimerTypeOK'
  <2>1. /\ tmCall[p][2] \in 0..MaxTmTime /\ tmCall[p][2] \in -1..MaxTmTime
        /\ Earliest(tmCall[p][2], tmCall[p][3]) \in Int
    BY <1>0, <1>1, <1>2, TmThreadsAre, SMTT(30) DEF TimerTypeOK, Earliest
  <2> QED
    BY <1>0, <1>1, <1>2, <1>4, <2>1, ZenonT(40) DEF TimerTypeOK
<1>7. TmPlaces'
  BY <1>0, <1>1, <1>2, <1>4, TmThreadsAre, ZenonT(40) DEF TmPlaces, TimerTypeOK
<1>8. TmHolder'
  BY <1>0, <1>1, <1>2, <1>3, HolderMove, Zenon DEF TmHolding
<1>9. TmFree' /\ TmHeld'
  <2>1. TmFree'
    BY <1>1, <1>2, <1>3, <1>4, ZenonT(40) DEF TmFree, TmWanted
  <2> QED
    BY <1>1, <1>2, <2>1, HeldByOne, ZenonT(40)
<1>10. TimerSignalIsLatest'
  BY <1>0, <1>2, <1>3, SMTT(30) DEF TimerSignalIsLatest, Earliest, TimerTypeOK
<1>11. TmDrops(p)
  BY <1>0, <1>2, Zenon DEF TmDrops, TimerTypeOK
<1> QED
  BY <1>4, <1>5, <1>6, <1>7, <1>8, <1>9, <1>10, <1>11, ZenonT(40) DEF TmWhere

\* Set leaves it to the DPC to arm the Timer.
LEMMA SetPending ==
  ASSUME TmWhere, NEW p \in TmCallers, TimerSet(p),
         tmCall[p][2] > tmNow, cancelPending
  PROVE  TmWhere' /\ TmAccounts(p) /\ TmDrops(p)
<1>0. /\ TimerTypeOK /\ TmPlaces /\ TmHolder /\ TmOneExpiry /\ TmFree /\ TmHeld
      /\ TimerSignalIsLatest
  BY Zenon DEF TmWhere
<1>1. p \in TmThreads /\ p \in TmCallers /\ p \notin TmCpus /\ p # "none"
  BY TmThreadsAre, ZenonT(40)
<1>2. /\ tmPc[p] \in {"missed", "canceled"} /\ tmCall[p][1] = "set"
      /\ tmCall[p][2] \in 1..MaxTmTime /\ tmCall[p][2] # 0
      /\ tmCall[p][3] \in 0..MaxTmSlack
      /\ tmWant' = tmCall[p][2] /\ tmMay' = Earliest(tmCall[p][2], tmCall[p][3])
      /\ tmDeadline' = tmCall[p][2] /\ tmSlack' = tmCall[p][3]
      /\ tmLock' = "none"
      /\ TmMoves(p, "release")
      /\ UNCHANGED <<tmSignaled, cancelPending, tmQueue, tmScheduled, tmActive, tmDpc,
                     tmHandle, tmRefs, tmDeleted, tmCall, tmHit, tmNow, tmOps>>
  BY <1>0, <1>1
  DEF TimerTypeOK, TmCalls, TimerSet, TmUnlock, TmMoves, TmPcs, TmGo, tmHw, tmObj, tmRest
<1>3. /\ tmLock = p /\ tmQueue = "none" /\ tmDeadline = 0 /\ ~tmSignaled
      /\ TmExpired <=> cancelPending
  BY <1>0, <1>1, <1>2, ZenonT(40) DEF TmHolder, TmHolding, TmHeld, TmHeldBy, TmArms,
     TmWanted,
     TmPlaces
<1>4. /\ tmPc' \in [TmThreads -> TmPcs] /\ tmPc'[p] = "release"
      /\ \A r \in TmThreads : r # p => tmPc'[r] = tmPc[r]
      /\ (TmExpired' <=> TmExpired) /\ TmOneExpiry'
      /\ TmOnly(p) /\ TmElse' = TmElse
  BY <1>1, <1>2, TmPlainMove, ZenonT(40) DEF TmPlain
<1>5. TmAccounts(p)
  <2>1. TmHas(p) = 1 /\ TmHas(p)' = 1
    BY <1>0, <1>1, <1>2, <1>4, ZenonT(40) DEF TmHas, TimerTypeOK, TmPlaces
  <2> QED
    BY <1>0, <1>2, <1>4, <2>1, RefsAreInt, SMTT(30) DEF TmAccounts, TimerTypeOK
<1>6. TimerTypeOK'
  <2>1. /\ tmCall[p][2] \in 0..MaxTmTime /\ tmCall[p][2] \in -1..MaxTmTime
        /\ Earliest(tmCall[p][2], tmCall[p][3]) \in Int
    BY <1>0, <1>1, <1>2, TmThreadsAre, SMTT(30) DEF TimerTypeOK, Earliest
  <2> QED
    BY <1>0, <1>1, <1>2, <1>4, <2>1, ZenonT(40) DEF TimerTypeOK
<1>7. TmPlaces'
  BY <1>0, <1>1, <1>2, <1>4, TmThreadsAre, ZenonT(40) DEF TmPlaces, TimerTypeOK
<1>8. TmHolder'
  BY <1>0, <1>1, <1>2, <1>3, HolderMove, ZenonT(40) DEF TmHolding
<1>9. TmFree' /\ TmHeld'
  <2>1. TmFree'
    BY <1>1, <1>2, <1>3, <1>4, ZenonT(40) DEF TmFree, TmWanted
  <2> QED
    BY <1>1, <1>2, <2>1, HeldByOne, ZenonT(40)
<1>10. TimerSignalIsLatest'
  BY <1>0, <1>2, <1>3, ZenonT(40) DEF TimerSignalIsLatest, TimerTypeOK
<1>11. TmDrops(p)
  BY <1>0, <1>2, ZenonT(40) DEF TmDrops, TimerTypeOK
<1> QED
  BY <1>4, <1>5, <1>6, <1>7, <1>8, <1>9, <1>10, <1>11, ZenonT(40) DEF TmWhere

\* Set has canceled the Timer, and arms it.
LEMMA SetArms ==
  ASSUME TmWhere, NEW p \in TmCallers, TimerSet(p),
         tmCall[p][2] > tmNow, ~cancelPending, tmPc[p] = "canceled"
  PROVE  TmWhere' /\ TmAccounts(p) /\ TmDrops(p)
<1>0. /\ TimerTypeOK /\ TmPlaces /\ TmHolder /\ TmOneExpiry /\ TmFree /\ TmHeld
      /\ TimerSignalIsLatest
  BY Zenon DEF TmWhere
<1>1. p \in TmThreads /\ p \in TmCallers /\ p \notin TmCpus /\ p # "none"
  BY TmThreadsAre, ZenonT(40)
<1>2. /\ tmPc[p] \in {"missed", "canceled"} /\ tmCall[p][1] = "set"
      /\ tmCall[p][2] \in 1..MaxTmTime /\ tmCall[p][2] # 0
      /\ tmCall[p][3] \in 0..MaxTmSlack
      /\ tmWant' = tmCall[p][2] /\ tmMay' = Earliest(tmCall[p][2], tmCall[p][3])
      /\ tmDeadline' = tmCall[p][2] /\ tmSlack' = tmCall[p][3]
      /\ tmRefs' = tmRefs + 1
      /\ TmMoves(p, "arm")
      /\ UNCHANGED <<tmSignaled, cancelPending, tmLock, tmQueue, tmScheduled,
                     tmActive, tmDpc, tmHandle, tmDeleted, tmCall, tmHit, tmNow,
                     tmOps>>
  BY <1>0, <1>1, TmThreadsAre, SMTT(30)
  DEF TimerTypeOK, TmCalls, TimerSet, TmUnlock, TmMoves, TmPcs, TmGo, tmHw, tmObj, tmRest
<1>3. /\ tmLock = p /\ tmQueue = "none" /\ tmDeadline = 0 /\ ~tmSignaled
      /\ TmExpired <=> cancelPending
  BY <1>0, <1>1, <1>2, ZenonT(40) DEF TmHolder, TmHolding, TmHeld, TmHeldBy, TmArms,
     TmWanted,
     TmPlaces
<1>4. /\ tmPc' \in [TmThreads -> TmPcs] /\ tmPc'[p] = "arm"
      /\ \A r \in TmThreads : r # p => tmPc'[r] = tmPc[r]
      /\ (TmExpired' <=> TmExpired) /\ TmOneExpiry'
      /\ TmOnly(p) /\ TmElse' = TmElse
  BY <1>1, <1>2, TmPlainMove, ZenonT(40) DEF TmPlain
<1>5. TmAccounts(p)
  <2>1. TmHas(p) = 1 /\ TmHas(p)' = 2
    BY <1>0, <1>1, <1>2, <1>4, ZenonT(40) DEF TmHas, TimerTypeOK, TmPlaces
  <2> QED
    BY <1>0, <1>2, <1>4, <2>1, RefsAreInt, SMTT(30) DEF TmAccounts, TimerTypeOK
<1>6. TimerTypeOK'
  <2>1. /\ tmCall[p][2] \in 0..MaxTmTime /\ tmCall[p][2] \in -1..MaxTmTime
        /\ Earliest(tmCall[p][2], tmCall[p][3]) \in Int /\ tmRefs' \in Int
    BY <1>0, <1>1, <1>2, TmThreadsAre, SMTT(30) DEF TimerTypeOK, Earliest
  <2> QED
    BY <1>0, <1>1, <1>2, <1>4, <2>1, ZenonT(40) DEF TimerTypeOK
<1>7. TmPlaces'
  BY <1>0, <1>1, <1>2, <1>4, TmThreadsAre, ZenonT(40) DEF TmPlaces, TimerTypeOK
<1>8. TmHolder'
  BY <1>0, <1>1, <1>2, <1>3, HolderMove, ZenonT(40) DEF TmHolding
<1>9. TmFree' /\ TmHeld'
  <2>1. TmHeldBy(p)'
    BY <1>1, <1>2, <1>3, <1>4, TmThreadsAre, ZenonT(40) DEF TmHeldBy, TmArms, TmWanted
  <2> QED
    BY <1>1, <1>2, <1>3, <2>1, HeldByOne, ZenonT(40)
<1>10. TimerSignalIsLatest'
  BY <1>0, <1>2, <1>3, ZenonT(40) DEF TimerSignalIsLatest, TimerTypeOK
<1>11. TmDrops(p)
  BY <1>0, <1>2, ZenonT(40) DEF TmDrops, TimerTypeOK
<1> QED
  BY <1>4, <1>5, <1>6, <1>7, <1>8, <1>9, <1>10, <1>11, ZenonT(40) DEF TmWhere

\* Set has not canceled the Timer, and does before it arms it.
LEMMA SetCancels ==
  ASSUME TmWhere, NEW p \in TmCallers, TimerSet(p),
         tmCall[p][2] > tmNow, ~cancelPending, tmPc[p] # "canceled"
  PROVE  TmWhere' /\ TmAccounts(p) /\ TmDrops(p)
<1>0. /\ TimerTypeOK /\ TmPlaces /\ TmHolder /\ TmOneExpiry /\ TmFree /\ TmHeld
      /\ TimerSignalIsLatest
  BY Zenon DEF TmWhere
<1>1. p \in TmThreads /\ p \in TmCallers /\ p \notin TmCpus /\ p # "none"
  BY TmThreadsAre, ZenonT(40)
<1>2. /\ tmPc[p] \in {"missed", "canceled"} /\ tmCall[p][1] = "set"
      /\ tmCall[p][2] \in 1..MaxTmTime /\ tmCall[p][2] # 0
      /\ tmCall[p][3] \in 0..MaxTmSlack
      /\ tmWant' = tmCall[p][2] /\ tmMay' = Earliest(tmCall[p][2], tmCall[p][3])
      /\ tmDeadline' = tmCall[p][2] /\ tmSlack' = tmCall[p][3]
      /\ tmRefs' = tmRefs + 1
      /\ tmQueue' = "none" /\ tmScheduled' = 0
      /\ TmMoves(p, "rewait")
      /\ UNCHANGED <<tmSignaled, cancelPending, tmLock, tmActive, tmDpc,
                     tmHandle, tmDeleted, tmCall, tmHit, tmNow, tmOps>>
  BY <1>0, <1>1, SMTT(30)
  DEF TmDequeue, TimerTypeOK, TmCalls, TimerSet, TmUnlock, TmMoves, TmPcs, TmGo, tmHw,
      tmObj, tmRest
<1>3. /\ tmLock = p /\ tmQueue = "none" /\ tmDeadline = 0 /\ ~tmSignaled
      /\ TmExpired <=> cancelPending
  BY <1>0, <1>1, <1>2, ZenonT(40) DEF TmHolder, TmHolding, TmHeld, TmHeldBy, TmArms,
     TmWanted,
     TmPlaces
<1>4. /\ tmPc' \in [TmThreads -> TmPcs] /\ tmPc'[p] = "rewait"
      /\ \A r \in TmThreads : r # p => tmPc'[r] = tmPc[r]
      /\ (TmExpired' <=> TmExpired) /\ TmOneExpiry'
      /\ TmOnly(p) /\ TmElse' = TmElse
  BY <1>1, <1>2, <1>3, TmPlainMove, ZenonT(40) DEF TmPlain
<1>5. TmAccounts(p)
  <2>1. TmHas(p) = 1 /\ TmHas(p)' = 2
    BY <1>0, <1>1, <1>2, <1>4, ZenonT(40) DEF TmHas, TimerTypeOK, TmPlaces
  <2> QED
    BY <1>0, <1>2, <1>4, <2>1, RefsAreInt, SMTT(30) DEF TmAccounts, TimerTypeOK
<1>6. TimerTypeOK'
  <2>1. /\ tmCall[p][2] \in 0..MaxTmTime /\ tmCall[p][2] \in -1..MaxTmTime
        /\ Earliest(tmCall[p][2], tmCall[p][3]) \in Int /\ tmRefs' \in Int
    BY <1>0, <1>1, <1>2, TmThreadsAre, SMTT(30) DEF TimerTypeOK, Earliest
  <2> QED
    BY <1>0, <1>1, <1>2, <1>4, <2>1, ZeroIsInt, ZenonT(40) DEF TimerTypeOK
<1>7. TmPlaces'
  BY <1>0, <1>1, <1>2, <1>4, TmThreadsAre, ZenonT(40) DEF TmPlaces, TimerTypeOK
<1>8. TmHolder'
  BY <1>0, <1>1, <1>2, <1>3, HolderMove, ZenonT(40) DEF TmHolding
<1>9. TmFree' /\ TmHeld'
  <2>1. TmHeldBy(p)'
    BY <1>1, <1>2, <1>3, <1>4, TmThreadsAre, ZenonT(40) DEF TmHeldBy, TmArms, TmWanted
  <2> QED
    BY <1>1, <1>2, <1>3, <2>1, HeldByOne, ZenonT(40)
<1>10. TimerSignalIsLatest'
  BY <1>0, <1>2, <1>3, ZenonT(40) DEF TimerSignalIsLatest, TimerTypeOK
<1>11. TmDrops(p)
  BY <1>0, <1>2, Zenon DEF TmDrops, TimerTypeOK
<1> QED
  BY <1>4, <1>5, <1>6, <1>7, <1>8, <1>9, <1>10, <1>11, ZenonT(40) DEF TmWhere

\* SetTimerLocked has waited for the callback.
LEMMA SetWaited ==
  ASSUME TmWhere, NEW p \in TmThreads, SetTimerWaited(p)
  PROVE  TmWhere' /\ TmAccounts(p) /\ TmDrops(p)
<1>0. /\ TimerTypeOK /\ TmPlaces /\ TmHolder /\ TmOneExpiry /\ TmFree /\ TmHeld
      /\ TimerSignalIsLatest
  BY Zenon DEF TmWhere
<1>1. p \in TmThreads /\ p # "none"
  BY TmThreadsAre, Zenon
<1>2. /\ tmPc[p] = "rewait" /\ (p \in TmCallers => tmCall[p][1] = "set")
      /\ TmMoves(p, "arm")
      /\ UNCHANGED <<tmSignaled, tmDeadline, tmSlack, cancelPending, tmLock, tmQueue,
                     tmScheduled, tmActive, tmDpc, tmHandle, tmRefs, tmDeleted,
                     tmCall, tmHit, tmNow, tmOps, tmWant, tmMay>>
  BY <1>1, ZenonT(40) DEF SetTimerWaited, TmMoves, TmPcs, TmGo, tmHw, tmObj, tmRest
<1>3. /\ tmLock = p /\ tmQueue = "none" /\ ~TmExpired /\ ~cancelPending
      /\ tmDeadline # 0 /\ TmWanted
  BY <1>0, <1>1, <1>2, ZenonT(40) DEF TmHolder, TmHolding, TmHeld, TmHeldBy, TmArms,
     TmWanted,
     TmPlaces
<1>4. /\ tmPc' \in [TmThreads -> TmPcs] /\ tmPc'[p] = "arm"
      /\ \A r \in TmThreads : r # p => tmPc'[r] = tmPc[r]
      /\ (TmExpired' <=> TmExpired) /\ TmOneExpiry'
      /\ TmOnly(p) /\ TmElse' = TmElse
  BY <1>1, <1>2, TmPlainMove, ZenonT(40) DEF TmPlain
<1>5. TmAccounts(p)
  <2>1. TmHas(p) = (IF p \in TmCallers THEN 2 ELSE 1)
        /\ TmHas(p)' = (IF p \in TmCallers THEN 2 ELSE 1)
    BY <1>0, <1>1, <1>2, <1>4, ZenonT(40) DEF TmHas, TimerTypeOK, TmPlaces
  <2> QED
    BY <1>0, <1>2, <1>4, <2>1, RefsAreInt, SMTT(30) DEF TmAccounts, TimerTypeOK
<1>6. TimerTypeOK'
  BY <1>0, <1>1, <1>2, <1>4, ZenonT(40) DEF TimerTypeOK
<1>7. TmPlaces'
  BY <1>0, <1>1, <1>2, <1>4, TmThreadsAre, ZenonT(40) DEF TmPlaces, TimerTypeOK
<1>8. TmHolder'
  BY <1>0, <1>1, <1>2, <1>3, HolderMove, Zenon DEF TmHolding
<1>9. TmFree' /\ TmHeld'
  <2>1. TmHeldBy(p)'
    BY <1>1, <1>2, <1>3, <1>4, TmThreadsAre, ZenonT(40) DEF TmHeldBy, TmArms, TmWanted
  <2> QED
    BY <1>1, <1>2, <1>3, <2>1, HeldByOne, Zenon
<1>10. TimerSignalIsLatest'
  BY <1>0, <1>2, <1>3, ZenonT(40) DEF TimerSignalIsLatest, TimerTypeOK
<1>11. TmDrops(p)
  BY <1>0, <1>2, ZenonT(40) DEF TmDrops, TimerTypeOK
<1> QED
  BY <1>4, <1>5, <1>6, <1>7, <1>8, <1>9, <1>10, <1>11, ZenonT(40) DEF TmWhere

\* Set puts the Timer on a queue, which has the reference from then on.
LEMMA CallerArms ==
  ASSUME TmWhere, NEW p \in TmCallers, NEW k \in TmCpus, SetTimerLocked(p, k)
  PROVE  TmWhere' /\ TmAccounts(p) /\ TmDrops(p)
<1>0. /\ TimerTypeOK /\ TmPlaces /\ TmHolder /\ TmOneExpiry /\ TmFree /\ TmHeld
      /\ TimerSignalIsLatest
  BY Zenon DEF TmWhere
<1>1. p \in TmThreads /\ p \in TmCallers /\ p \notin TmCpus /\ p # "none"
  BY TmThreadsAre, ZenonT(40)
<1>2. /\ tmPc[p] = "arm"
      /\ k # "none"
      /\ tmQueue' = k
      /\ tmScheduled' \in Earliest(tmDeadline, tmSlack)..Latest(tmDeadline, tmSlack)
      /\ tmLock' = "none"
      /\ TmMoves(p, "release")
      /\ UNCHANGED <<tmSignaled, tmDeadline, tmSlack, cancelPending, tmActive, tmDpc, tmHandle,
                     tmRefs, tmDeleted, tmCall, tmHit, tmNow, tmOps, tmWant, tmMay>>
  BY <1>1, TmThreadsAre, Zenon DEF SetTimerLocked, TmUnlock, TmMoves, TmPcs, TmGo, tmHw,
     tmObj, tmRest
<1>3. /\ tmLock = p /\ tmQueue = "none" /\ ~TmExpired /\ ~cancelPending
      /\ tmDeadline # 0 /\ TmWanted
  BY <1>0, <1>1, <1>2, ZenonT(40) DEF TmHolder, TmHolding, TmHeld, TmHeldBy, TmArms,
     TmWanted, TmPlaces
<1>13. tmScheduled' \in Int /\ tmMay <= tmScheduled'
  BY <1>0, <1>2, <1>3, TmThreadsAre, SMTT(30)
  DEF TmWanted, Earliest, Latest, TimerTypeOK
<1>4. /\ tmPc' \in [TmThreads -> TmPcs] /\ tmPc'[p] = "release"
      /\ \A r \in TmThreads : r # p => tmPc'[r] = tmPc[r]
  BY <1>0, <1>1, <1>2, Moved, ZenonT(40)
<1>5. (TmExpired' <=> TmExpired) /\ TmOneExpiry'
  <2>1. \A r \in TmCpus : tmPc'[r] = "lock" <=> tmPc[r] = "lock"
    BY <1>1, <1>2, <1>4, TmThreadsAre, ZenonT(40)
  <2> QED
    BY <1>0, <1>2, <2>1, SameExpiry, ZenonT(40)
<1>6. TmAccounts(p)
  <2>1. TmOnly(p)
    BY <1>0, <1>1, <1>2, <1>4, TmThreadsAre, ZenonT(40)
    DEF TmOnly, TimerTypeOK, TmHolder, TmHolding
  <2>2. TmHas(p) = 2 /\ TmHas(p)' = 1
    BY <1>0, <1>1, <1>2, <1>4, ZenonT(40) DEF TmHas, TimerTypeOK, TmPlaces
  <2>3. TmElse' = TmElse + 1
    BY <1>1, <1>2, <1>3, SMTT(30) DEF TmElse, TmOne, TmFiring
  <2> QED
    BY <1>0, <1>2, <2>1, <2>2, <2>3, RefsAreInt, SMTT(30) DEF TmAccounts, TimerTypeOK
<1>7. TimerTypeOK'
  BY <1>0, <1>1, <1>2, <1>4, <1>13, ZenonT(40) DEF TimerTypeOK
<1>8. TmPlaces'
  BY <1>0, <1>1, <1>2, <1>4, TmThreadsAre, ZenonT(40) DEF TmPlaces, TimerTypeOK
<1>9. TmHolder'
  BY <1>0, <1>1, <1>2, <1>3, HolderMove, Zenon DEF TmHolding
<1>10. TmFree' /\ TmHeld'
  <2>1. TmFree'
    BY <1>1, <1>2, <1>3, <1>4, <1>5, <1>13, ZenonT(40) DEF TmFree, TmWanted
  <2> QED
    BY <1>1, <1>2, <2>1, HeldByOne, ZenonT(40)
<1>11. TimerSignalIsLatest'
  BY <1>0, <1>2, <1>3, ZenonT(40) DEF TimerSignalIsLatest, TimerTypeOK
<1>12. TmDrops(p)
  BY <1>0, <1>2, ZenonT(40) DEF TmDrops, TimerTypeOK
<1> QED
  BY <1>5, <1>6, <1>7, <1>8, <1>9, <1>10, <1>11, <1>12, ZenonT(40) DEF TmWhere

\* The DPC puts the Timer on its CPU's queue.
LEMMA WorkerArms ==
  ASSUME TmWhere, NEW c \in TmCpus, NEW k \in TmCpus, SetTimerLocked(c, k)
  PROVE  TmWhere' /\ TmAccounts(c) /\ TmDrops(c)
<1>0. /\ TimerTypeOK /\ TmPlaces /\ TmHolder /\ TmOneExpiry /\ TmFree /\ TmHeld
      /\ TimerSignalIsLatest
  BY Zenon DEF TmWhere
<1>1. c \in TmThreads /\ c \in TmCpus /\ c \notin TmCallers /\ c # "none"
  BY TmThreadsAre, Zenon
<1>2. /\ tmPc[c] = "arm"
      /\ k # "none"
      /\ tmQueue' = k
      /\ tmScheduled' \in Earliest(tmDeadline, tmSlack)..Latest(tmDeadline, tmSlack)
      /\ tmLock' = "none"
      /\ TmMoves(c, "idle")
      /\ UNCHANGED <<tmSignaled, tmDeadline, tmSlack, cancelPending, tmActive, tmDpc, tmHandle,
                     tmRefs, tmDeleted, tmCall, tmHit, tmNow, tmOps, tmWant, tmMay>>
  BY <1>1, TmThreadsAre, Zenon DEF SetTimerLocked, TmUnlock, TmMoves, TmPcs, TmGo, tmHw,
     tmObj, tmRest
<1>3. /\ tmLock = c /\ tmQueue = "none" /\ ~TmExpired /\ ~cancelPending
      /\ tmDeadline # 0 /\ TmWanted
  BY <1>0, <1>1, <1>2, ZenonT(40) DEF TmHolder, TmHolding, TmHeld, TmHeldBy, TmArms,
     TmWanted, TmPlaces
<1>13. tmScheduled' \in Int /\ tmMay <= tmScheduled'
  BY <1>0, <1>2, <1>3, TmThreadsAre, SMTT(30)
  DEF TmWanted, Earliest, Latest, TimerTypeOK
<1>4. /\ tmPc' \in [TmThreads -> TmPcs] /\ tmPc'[c] = "idle"
      /\ \A r \in TmThreads : r # c => tmPc'[r] = tmPc[r]
  BY <1>0, <1>1, <1>2, Moved, ZenonT(40)
<1>5. (TmExpired' <=> TmExpired) /\ TmOneExpiry'
  <2>1. \A r \in TmCpus : tmPc'[r] = "lock" <=> tmPc[r] = "lock"
    BY <1>1, <1>2, <1>4, TmThreadsAre, ZenonT(40)
  <2> QED
    BY <1>0, <1>2, <2>1, SameExpiry, ZenonT(40)
<1>6. TmAccounts(c)
  <2>1. TmOnly(c)
    BY <1>0, <1>1, <1>2, <1>4, TmThreadsAre, ZenonT(40)
    DEF TmOnly, TimerTypeOK, TmHolder, TmHolding
  <2>2. TmHas(c) = 1 /\ TmHas(c)' = 0
    BY <1>0, <1>1, <1>2, <1>4, ZenonT(40) DEF TmHas, TimerTypeOK, TmPlaces
  <2>3. TmElse' = TmElse + 1
    BY <1>1, <1>2, <1>3, SMTT(30) DEF TmElse, TmOne, TmFiring
  <2> QED
    BY <1>0, <1>2, <2>1, <2>2, <2>3, RefsAreInt, SMTT(30) DEF TmAccounts, TimerTypeOK
<1>7. TimerTypeOK'
  BY <1>0, <1>1, <1>2, <1>4, <1>13, ZenonT(40) DEF TimerTypeOK
<1>8. TmPlaces'
  BY <1>0, <1>1, <1>2, <1>4, TmThreadsAre, ZenonT(40) DEF TmPlaces, TimerTypeOK
<1>9. TmHolder'
  BY <1>0, <1>1, <1>2, <1>3, HolderMove, ZenonT(40) DEF TmHolding
<1>10. TmFree' /\ TmHeld'
  <2>1. TmFree'
    BY <1>1, <1>2, <1>3, <1>4, <1>5, <1>13, ZenonT(40) DEF TmFree, TmWanted
  <2> QED
    BY <1>1, <1>2, <2>1, HeldByOne, ZenonT(40)
<1>11. TimerSignalIsLatest'
  BY <1>0, <1>2, <1>3, ZenonT(40) DEF TimerSignalIsLatest, TimerTypeOK
<1>12. TmDrops(c)
  BY <1>0, <1>2, ZenonT(40) DEF TmDrops, TimerTypeOK
<1> QED
  BY <1>5, <1>6, <1>7, <1>8, <1>9, <1>10, <1>11, <1>12, ZenonT(40) DEF TmWhere

\* The worker takes the DPC off its list.
LEMMA DpcPops ==
  ASSUME TmWhere, NEW c \in TmCpus, TimerDpcPop(c)
  PROVE  TmWhere' /\ TmAccounts(c) /\ TmDrops(c)
<1>0. /\ TimerTypeOK /\ TmPlaces /\ TmHolder /\ TmOneExpiry /\ TmFree /\ TmHeld
      /\ TimerSignalIsLatest
  BY Zenon DEF TmWhere
<1>1. c \in TmThreads /\ c \in TmCpus /\ c \notin TmCallers /\ c # "none"
  BY TmThreadsAre, ZenonT(40)
<1>2. /\ tmPc[c] = "idle" /\ tmDpc = c
      /\ tmActive # <<c, "fire">>
      /\ tmActive # <<c, "done">>
      /\ tmDpc' = "none"
      /\ TmMoves(c, "lock")
      /\ UNCHANGED <<tmSignaled, tmDeadline, tmSlack, cancelPending, tmLock, tmQueue,
                     tmScheduled, tmActive, tmHandle, tmRefs, tmDeleted, tmCall,
                     tmHit, tmNow, tmOps, tmWant, tmMay>>
  BY <1>1 DEF TimerDpcPop, TmMoves, TmPcs, TmGo, tmHw, tmObj, tmRest
<1>3. /\ tmPc' \in [TmThreads -> TmPcs] /\ tmPc'[c] = "lock"
      /\ \A r \in TmThreads : r # c => tmPc'[r] = tmPc[r]
  BY <1>0, <1>1, <1>2, Moved, ZenonT(40)
<1>4. /\ TmExpired /\ TmExpired' /\ TmOneExpiry'
  BY <1>0, <1>1, <1>2, <1>3, TmThreadsAre, ZenonT(40) DEF TmExpired, TmOneExpiry, TmFiring
<1>5. TmAccounts(c)
  <2>1. TmOnly(c)
    BY <1>0, <1>1, <1>2, <1>3, TmThreadsAre, ZenonT(40)
    DEF TmOnly, TimerTypeOK, TmHolder, TmHolding
  <2>2. TmHas(c) = 0 /\ TmHas(c)' = 1
    BY <1>0, <1>1, <1>2, <1>3, ZenonT(40) DEF TmHas, TimerTypeOK, TmPlaces
  <2>3. TmElse' = TmElse - 1
    BY <1>1, <1>2, SMTT(30) DEF TmElse, TmOne, TmFiring
  <2> QED
    BY <1>0, <1>2, <2>1, <2>2, <2>3, RefsAreInt, SMTT(30) DEF TmAccounts, TimerTypeOK
<1>6. TimerTypeOK'
  BY <1>0, <1>1, <1>2, <1>3, ZenonT(40) DEF TimerTypeOK
<1>7. TmPlaces'
  BY <1>0, <1>1, <1>2, <1>3, TmThreadsAre, ZenonT(40) DEF TmPlaces, TimerTypeOK
<1>8. TmHolder'
  BY <1>0, <1>1, <1>2, HolderMove, Zenon DEF TmHolding
<1>9. TmFree' /\ TmHeld'
  <2>1. TmFree'
    BY <1>0, <1>2, <1>4, ZenonT(40) DEF TmFree, TmWanted
  <2>2. ASSUME NEW h \in TmThreads, tmLock' = h PROVE TmHeldBy(h)'
    <3>1. h # c /\ tmPc'[h] = tmPc[h] /\ TmHeldBy(h)
      BY <1>0, <1>1, <1>2, <1>3, <2>2, ZenonT(40) DEF TmHolder, TmHolding, TmHeld
    <3>2. TmArms(h)' <=> TmArms(h)
      BY <1>0, <1>2, <3>1, ZenonT(40) DEF TmArms, TimerTypeOK
    <3> QED
      BY <1>2, <1>4, <3>1, <3>2, ZenonT(40) DEF TmHeldBy, TmWanted
  <2> QED
    BY <2>1, <2>2, ZenonT(40) DEF TmHeld
<1>10. TimerSignalIsLatest'
  BY <1>0, <1>2, ZenonT(40) DEF TimerSignalIsLatest, TimerTypeOK
<1>11. TmDrops(c)
  BY <1>0, <1>2, ZenonT(40) DEF TmDrops, TimerTypeOK
<1> QED
  BY <1>4, <1>5, <1>6, <1>7, <1>8, <1>9, <1>10, <1>11, ZenonT(40) DEF TmWhere

\* OnTimerFired arms the Timer that was set again.
LEMMA FiredRearms ==
  ASSUME TmWhere, NEW c \in TmCpus, OnTimerFired(c),
         cancelPending, tmDeadline # 0
  PROVE  TmWhere' /\ TmAccounts(c) /\ TmDrops(c)
<1>0. /\ TimerTypeOK /\ TmPlaces /\ TmHolder /\ TmOneExpiry /\ TmFree /\ TmHeld
      /\ TimerSignalIsLatest
  BY Zenon DEF TmWhere
<1>1. c \in TmThreads /\ c \in TmCpus /\ c \notin TmCallers /\ c # "none"
  BY TmThreadsAre, Zenon
<1>2. /\ tmPc[c] = "lock" /\ tmLock = "none"
      /\ cancelPending' = FALSE
      /\ tmLock' = c
      /\ tmQueue' = "none" /\ tmScheduled' = 0
      /\ TmMoves(c, "rewait")
      /\ UNCHANGED <<tmSignaled, tmDeadline, tmSlack, tmActive, tmDpc, tmHandle,
                     tmRefs, tmDeleted, tmCall, tmHit, tmNow, tmOps, tmWant, tmMay>>
  BY <1>1, ZenonT(40) DEF TmDequeue, OnTimerFired, TmMoves, TmPcs, TmGo, tmHw, tmObj,
     tmRest
<1>3. /\ tmDeadline # 0 \/ cancelPending <=> TmExpired \/ tmQueue # "none"
      /\ tmQueue # "none" => ~TmExpired /\ ~cancelPending
      /\ TmExpired /\ ~cancelPending => tmMay <= tmNow
      /\ tmDeadline # 0 => TmWanted
  BY <1>0, <1>1, <1>2, ZenonT(40) DEF TmFree, TmWanted, TimerTypeOK
<1>4. /\ tmPc' \in [TmThreads -> TmPcs] /\ tmPc'[c] = "rewait"
      /\ \A r \in TmThreads : r # c => tmPc'[r] = tmPc[r]
  BY <1>0, <1>1, <1>2, Moved, ZenonT(40)
<1>5. /\ TmExpired /\ ~TmExpired' /\ TmOneExpiry'
  BY <1>0, <1>1, <1>2, <1>4, TmThreadsAre, ZenonT(40) DEF TmExpired, TmOneExpiry, TmFiring
<1>6. TmAccounts(c)
  <2>1. TmOnly(c)
    BY <1>0, <1>1, <1>2, <1>4, TmThreadsAre, ZenonT(40)
    DEF TmOnly, TimerTypeOK, TmHolder, TmHolding
  <2>2. TmHas(c) = 1 /\ TmHas(c)' = 1
    BY <1>0, <1>1, <1>2, <1>4, ZenonT(40) DEF TmHas, TimerTypeOK, TmPlaces
  <2>3. TmElse' = TmElse
    BY <1>1, <1>2, <1>3, ZenonT(40) DEF TmElse, TmFiring
  <2> QED
    BY <1>0, <1>2, <2>1, <2>2, <2>3, RefsAreInt, SMTT(30) DEF TmAccounts, TimerTypeOK
<1>7. TimerTypeOK'
  BY <1>0, <1>1, <1>2, <1>4, ZeroIsInt, ZenonT(40) DEF TimerTypeOK
<1>8. TmPlaces'
  BY <1>0, <1>1, <1>2, <1>4, TmThreadsAre, ZenonT(40) DEF TmPlaces, TimerTypeOK
<1>9. TmHolder'
  BY <1>0, <1>1, <1>2, <1>3, HolderMove, ZenonT(40) DEF TmHolding
<1>10. TmFree' /\ TmHeld'
  <2>1. TmHeldBy(c)'
    BY <1>1, <1>2, <1>3, <1>4, <1>5, TmThreadsAre, ZenonT(40)
    DEF TmHeldBy, TmArms, TmWanted
  <2> QED
    BY <1>1, <1>2, <1>3, <2>1, HeldByOne, ZenonT(40)
<1>11. TimerSignalIsLatest'
  BY <1>0, <1>2, <1>3, ZenonT(40) DEF TimerSignalIsLatest, TimerTypeOK
<1>12. TmDrops(c)
  BY <1>0, <1>2, ZenonT(40) DEF TmDrops, TimerTypeOK
<1> QED
  BY <1>5, <1>6, <1>7, <1>8, <1>9, <1>10, <1>11, <1>12, ZenonT(40) DEF TmWhere

\* OnTimerFired drops the expiry of a canceled timer.
LEMMA FiredDrops ==
  ASSUME TmWhere, NEW c \in TmCpus, OnTimerFired(c),
         cancelPending, tmDeadline = 0
  PROVE  TmWhere' /\ TmAccounts(c) /\ TmDrops(c)
<1>0. /\ TimerTypeOK /\ TmPlaces /\ TmHolder /\ TmOneExpiry /\ TmFree /\ TmHeld
      /\ TimerSignalIsLatest
  BY Zenon DEF TmWhere
<1>1. c \in TmThreads /\ c \in TmCpus /\ c \notin TmCallers /\ c # "none"
  BY TmThreadsAre, ZenonT(40)
<1>2. /\ tmPc[c] = "lock" /\ tmLock = "none"
      /\ cancelPending' = FALSE
      /\ TmMoves(c, "release")
      /\ UNCHANGED <<tmSignaled, tmDeadline, tmSlack, tmLock, tmQueue, tmScheduled, tmActive,
                     tmDpc, tmHandle, tmRefs, tmDeleted, tmCall, tmHit, tmNow, tmOps,
                     tmWant, tmMay>>
  BY <1>1, ZenonT(40) DEF OnTimerFired, TmMoves, TmPcs, TmGo, tmHw, tmObj, tmRest
<1>3. /\ tmDeadline # 0 \/ cancelPending <=> TmExpired \/ tmQueue # "none"
      /\ tmQueue # "none" => ~TmExpired /\ ~cancelPending
      /\ TmExpired /\ ~cancelPending => tmMay <= tmNow
      /\ tmDeadline # 0 => TmWanted
  BY <1>0, <1>1, <1>2, ZenonT(40) DEF TmFree, TmWanted, TimerTypeOK
<1>4. /\ tmPc' \in [TmThreads -> TmPcs] /\ tmPc'[c] = "release"
      /\ \A r \in TmThreads : r # c => tmPc'[r] = tmPc[r]
  BY <1>0, <1>1, <1>2, Moved, ZenonT(40)
<1>5. /\ TmExpired /\ ~TmExpired' /\ TmOneExpiry'
  BY <1>0, <1>1, <1>2, <1>4, TmThreadsAre, ZenonT(40) DEF TmExpired, TmOneExpiry, TmFiring
<1>6. TmAccounts(c)
  <2>1. TmOnly(c)
    BY <1>0, <1>1, <1>2, <1>4, TmThreadsAre, Zenon
    DEF TmOnly, TimerTypeOK, TmHolder, TmHolding
  <2>2. TmHas(c) = 1 /\ TmHas(c)' = 1
    BY <1>0, <1>1, <1>2, <1>4, ZenonT(40) DEF TmHas, TimerTypeOK, TmPlaces
  <2>3. TmElse' = TmElse
    BY <1>1, <1>2, <1>3, ZenonT(40) DEF TmElse, TmFiring
  <2> QED
    BY <1>0, <1>2, <2>1, <2>2, <2>3, RefsAreInt, SMTT(30) DEF TmAccounts, TimerTypeOK
<1>7. TimerTypeOK'
  BY <1>0, <1>1, <1>2, <1>4, ZenonT(40) DEF TimerTypeOK
<1>8. TmPlaces'
  BY <1>0, <1>1, <1>2, <1>4, TmThreadsAre, ZenonT(40) DEF TmPlaces, TimerTypeOK
<1>9. TmHolder'
  BY <1>0, <1>1, <1>2, <1>3, HolderMove, ZenonT(40) DEF TmHolding
<1>10. TmFree' /\ TmHeld'
  <2>1. TmFree'
    BY <1>1, <1>2, <1>3, <1>4, <1>5, ZenonT(40) DEF TmFree, TmWanted
  <2> QED
    BY <1>1, <1>2, <2>1, HeldByOne, ZenonT(40)
<1>11. TimerSignalIsLatest'
  BY <1>0, <1>2, <1>3, ZenonT(40) DEF TimerSignalIsLatest, TimerTypeOK
<1>12. TmDrops(c)
  BY <1>0, <1>2, ZenonT(40) DEF TmDrops, TimerTypeOK
<1> QED
  BY <1>5, <1>6, <1>7, <1>8, <1>9, <1>10, <1>11, <1>12, ZenonT(40) DEF TmWhere

\* OnTimerFired raises the signal.
LEMMA FiredSignals ==
  ASSUME TmWhere, NEW c \in TmCpus, OnTimerFired(c),
         ~cancelPending
  PROVE  TmWhere' /\ TmAccounts(c) /\ TmDrops(c)
<1>0. /\ TimerTypeOK /\ TmPlaces /\ TmHolder /\ TmOneExpiry /\ TmFree /\ TmHeld
      /\ TimerSignalIsLatest
  BY Zenon DEF TmWhere
<1>1. c \in TmThreads /\ c \in TmCpus /\ c \notin TmCallers /\ c # "none"
  BY TmThreadsAre, ZenonT(40)
<1>2. /\ tmPc[c] = "lock" /\ tmLock = "none"
      /\ cancelPending' = FALSE
      /\ tmSignaled' = TRUE
      /\ tmDeadline' = 0 /\ tmSlack' = 0
      /\ TmMoves(c, "release")
      /\ UNCHANGED <<tmLock, tmQueue, tmScheduled, tmActive, tmDpc, tmHandle, tmRefs,
                     tmDeleted, tmCall, tmHit, tmNow, tmOps, tmWant, tmMay>>
  BY <1>1, ZenonT(40) DEF OnTimerFired, TmMoves, TmPcs, TmGo, tmHw, tmObj, tmRest
<1>3. /\ tmDeadline # 0 \/ cancelPending <=> TmExpired \/ tmQueue # "none"
      /\ tmQueue # "none" => ~TmExpired /\ ~cancelPending
      /\ TmExpired /\ ~cancelPending => tmMay <= tmNow
      /\ tmDeadline # 0 => TmWanted
  BY <1>0, <1>1, <1>2, ZenonT(40) DEF TmFree, TmWanted, TimerTypeOK
<1>4. /\ tmPc' \in [TmThreads -> TmPcs] /\ tmPc'[c] = "release"
      /\ \A r \in TmThreads : r # c => tmPc'[r] = tmPc[r]
  BY <1>0, <1>1, <1>2, Moved, ZenonT(40)
<1>5. /\ TmExpired /\ ~TmExpired' /\ TmOneExpiry'
  BY <1>0, <1>1, <1>2, <1>4, TmThreadsAre, ZenonT(40) DEF TmExpired, TmOneExpiry, TmFiring
<1>6. TmAccounts(c)
  <2>1. TmOnly(c)
    BY <1>0, <1>1, <1>2, <1>4, TmThreadsAre, Zenon
    DEF TmOnly, TimerTypeOK, TmHolder, TmHolding
  <2>2. TmHas(c) = 1 /\ TmHas(c)' = 1
    BY <1>0, <1>1, <1>2, <1>4, ZenonT(40) DEF TmHas, TimerTypeOK, TmPlaces
  <2>3. TmElse' = TmElse
    BY <1>1, <1>2, <1>3, ZenonT(40) DEF TmElse, TmFiring
  <2> QED
    BY <1>0, <1>2, <2>1, <2>2, <2>3, RefsAreInt, SMTT(30) DEF TmAccounts, TimerTypeOK
<1>7. TimerTypeOK'
  <2>1. 0 \in 0..MaxTmTime /\ 0 \in 0..MaxTmSlack
    BY <1>0, <1>1, <1>2, TmThreadsAre, SMTT(30) DEF TimerTypeOK
  <2> QED
    BY <1>0, <1>1, <1>2, <1>4, <2>1, ZenonT(40) DEF TimerTypeOK
<1>8. TmPlaces'
  BY <1>0, <1>1, <1>2, <1>4, TmThreadsAre, ZenonT(40) DEF TmPlaces, TimerTypeOK
<1>9. TmHolder'
  BY <1>0, <1>1, <1>2, <1>3, HolderMove, ZenonT(40) DEF TmHolding
<1>10. TmFree' /\ TmHeld'
  <2>1. TmFree'
    BY <1>1, <1>2, <1>3, <1>4, <1>5, ZenonT(40) DEF TmFree, TmWanted
  <2> QED
    BY <1>1, <1>2, <2>1, HeldByOne, ZenonT(40)
<1>11. TimerSignalIsLatest'
  BY <1>0, <1>2, <1>3, <1>5, SMTT(30) DEF TimerSignalIsLatest, TmWanted, TimerTypeOK
<1>12. TmDrops(c)
  BY <1>0, <1>2, ZenonT(40) DEF TmDrops, TimerTypeOK
<1> QED
  BY <1>5, <1>6, <1>7, <1>8, <1>9, <1>10, <1>11, <1>12, ZenonT(40) DEF TmWhere
-----------------------------------------------------------------------------
(* The steps of the interrupt, and the clock *)

\* The Timer expires: it leaves its queue and its callback is run.
LEMMA Ticks ==
  ASSUME TmWhere, NEW c \in TmCpus, TimerTick(c)
  PROVE  TmWhere' /\ TmAccounts(c) /\ TmDrops(c)
<1>0. /\ TimerTypeOK /\ TmPlaces /\ TmHolder /\ TmOneExpiry /\ TmFree /\ TmHeld
      /\ TimerSignalIsLatest
  BY Zenon DEF TmWhere
<1>1. c \in TmThreads /\ c # "none"
  BY TmThreadsAre, Zenon
<1>2. /\ tmQueue = c /\ tmScheduled <= tmNow /\ tmActive = NotActive
      /\ tmQueue' = "none" /\ tmScheduled' = 0 /\ tmActive' = <<c, "fire">>
      /\ UNCHANGED <<tmSignaled, tmDeadline, tmSlack, cancelPending, tmLock>>
      /\ UNCHANGED <<tmDpc>>
      /\ UNCHANGED <<tmHandle, tmRefs, tmDeleted, tmPc, tmCall, tmHit, tmNow, tmOps, tmWant, tmMay>>
  BY Zenon DEF TmDequeue, TimerTick, tmHw, tmObj, tmRest
<1>3. /\ tmLock = "none" /\ ~TmExpired /\ ~TmFiring /\ TmFiring' /\ TmExpired'
      /\ tmQueue # "none" /\ tmDpc' = tmDpc /\ tmQueue' \in TmCpus \cup {"none"}
  BY <1>0, <1>1, <1>2, TmThreadsAre, ZenonT(40)
  DEF TimerTypeOK, TmHeld, TmHeldBy, TmFree, TmWanted,
     TmExpired,
     TmFiring
<1>4. TmOneExpiry'
  BY <1>2, <1>3, ZenonT(40) DEF TmOneExpiry, TmExpired
<1>5. TmAccounts(c)
  <2>1. TmHas(c)' = TmHas(c)
    BY <1>2, ZenonT(40) DEF TmHas
  <2>2. TmElse' = TmElse
    BY <1>1, <1>2, <1>3, SMTT(30) DEF TmElse, TmOne
  <2> QED
    BY <1>0, <1>2, <2>1, <2>2, RefsAreInt, SMTT(30) DEF TmAccounts, TmOnly, TimerTypeOK
<1>6. TimerTypeOK'
  <2>1. tmActive' \in (TmCpus \X {"fire", "done"}) \cup {NotActive}
    BY <1>2, ZenonT(40)
  <2> QED
    BY <1>0, <1>2, <1>3, <2>1, ZeroIsInt, ZenonT(40) DEF TimerTypeOK
<1>7. TmPlaces' /\ TmHolder' /\ TimerSignalIsLatest' /\ TmDrops(c)
  BY <1>0, <1>2, ZenonT(40) DEF TmPlaces, TmHolder, TimerSignalIsLatest, TmDrops
<1>9. tmMay <= tmNow
  BY <1>0, <1>2, <1>3, SMTT(30) DEF TmFree, TimerTypeOK
<1>8. TmFree' /\ TmHeld'
  BY <1>0, <1>1, <1>2, <1>3, <1>9, HeldByOne, ZenonT(40) DEF TmFree, TmWanted
<1> QED
  BY <1>4, <1>5, <1>6, <1>7, <1>8, ZenonT(40) DEF TmWhere

\* The callback queues the DPC, which was on no list.
LEMMA Queues ==
  ASSUME TmWhere, NEW c \in TmCpus, TimerIrqCallback(c)
  PROVE  TmWhere' /\ TmAccounts(c) /\ TmDrops(c)
<1>0. /\ TimerTypeOK /\ TmPlaces /\ TmHolder /\ TmOneExpiry /\ TmFree /\ TmHeld
      /\ TimerSignalIsLatest
  BY Zenon DEF TmWhere
<1>1. c \in TmThreads /\ c # "none"
  BY TmThreadsAre, Zenon
<1>2. /\ tmActive = <<c, "fire">> /\ tmActive' = <<c, "done">>
      /\ tmDpc' = IF tmDpc = "none" THEN c ELSE tmDpc
      /\ UNCHANGED <<tmSignaled, tmDeadline, tmSlack, cancelPending, tmLock, tmScheduled>>
      /\ UNCHANGED <<tmQueue>>
      /\ UNCHANGED <<tmHandle, tmRefs, tmDeleted, tmPc, tmCall, tmHit, tmNow, tmOps, tmWant, tmMay>>
  BY Zenon DEF TimerIrqCallback, tmHw, tmObj, tmRest
<1>3. /\ TmFiring /\ ~TmFiring' /\ tmDpc = "none" /\ tmDpc' = c /\ TmExpired /\ TmExpired'
  BY <1>0, <1>1, <1>2, ZenonT(40) DEF TmOneExpiry, TmExpired, TmFiring
<1>4. TmOneExpiry'
  BY <1>0, <1>1, <1>2, <1>3, ZenonT(40) DEF TmOneExpiry
<1>5. TmAccounts(c)
  <2>1. TmHas(c)' = TmHas(c)
    BY <1>2, ZenonT(40) DEF TmHas
  <2>2. TmElse' = TmElse
    BY <1>1, <1>2, <1>3, SMTT(30) DEF TmElse, TmOne
  <2> QED
    BY <1>0, <1>2, <2>1, <2>2, RefsAreInt, SMTT(30) DEF TmAccounts, TmOnly, TimerTypeOK
<1>6. TimerTypeOK'
  <2>1. tmActive' \in (TmCpus \X {"fire", "done"}) \cup {NotActive}
    BY <1>2, ZenonT(40)
  <2> QED
    BY <1>0, <1>2, <1>3, <2>1, ZenonT(40) DEF TimerTypeOK
<1>7. TmPlaces' /\ TmHolder' /\ TimerSignalIsLatest' /\ TmDrops(c)
  BY <1>0, <1>2, ZenonT(40) DEF TmPlaces, TmHolder, TimerSignalIsLatest, TmDrops
<1>8. TmFree' /\ TmHeld'
  BY <1>0, <1>2, <1>3, ZenonT(40) DEF TmFree, TmWanted, TmHeld, TmHeldBy, TmArms
<1> QED
  BY <1>4, <1>5, <1>6, <1>7, <1>8, Zenon DEF TmWhere

\* The interrupt is over; the DPC is still on the list of its CPU.
LEMMA TickEnds ==
  ASSUME TmWhere, NEW c \in TmCpus, TimerTickDone(c)
  PROVE  TmWhere' /\ TmAccounts(c) /\ TmDrops(c)
<1>0. /\ TimerTypeOK /\ TmPlaces /\ TmHolder /\ TmOneExpiry /\ TmFree /\ TmHeld
      /\ TimerSignalIsLatest
  BY Zenon DEF TmWhere
<1>1. c \in TmThreads /\ c # "none"
  BY TmThreadsAre, Zenon
<1>2. /\ tmActive = <<c, "done">> /\ tmActive' = NotActive
      /\ UNCHANGED <<tmSignaled, tmDeadline, tmSlack, cancelPending, tmLock, tmScheduled>>
      /\ UNCHANGED <<tmQueue, tmDpc>>
      /\ UNCHANGED <<tmHandle, tmRefs, tmDeleted, tmPc, tmCall, tmHit, tmNow, tmOps, tmWant, tmMay>>
  BY Zenon DEF TimerTickDone, tmHw, tmObj, tmRest
<1>3. /\ ~TmFiring /\ ~TmFiring' /\ tmDpc = c /\ TmExpired /\ TmExpired'
  BY <1>0, <1>1, <1>2, TmThreadsAre, ZenonT(40)
  DEF TmOneExpiry, TmExpired, TmFiring, NotActive
<1>4. TmOneExpiry'
  BY <1>0, <1>1, <1>2, <1>3, TmThreadsAre, ZenonT(40) DEF TmOneExpiry, NotActive
<1>5. TmAccounts(c)
  <2>1. TmHas(c)' = TmHas(c)
    BY <1>2, Zenon DEF TmHas
  <2>2. TmElse' = TmElse
    BY <1>1, <1>2, <1>3, ZenonT(40) DEF TmElse, TmOne
  <2> QED
    BY <1>0, <1>2, <2>1, <2>2, RefsAreInt, SMTT(30) DEF TmAccounts, TmOnly, TimerTypeOK
<1>6. TimerTypeOK'
  <2>1. tmActive' \in (TmCpus \X {"fire", "done"}) \cup {NotActive}
    BY <1>2, Zenon
  <2> QED
    BY <1>0, <1>2, <1>3, <2>1, ZenonT(40) DEF TimerTypeOK
<1>7. TmPlaces' /\ TmHolder' /\ TimerSignalIsLatest' /\ TmDrops(c)
  BY <1>0, <1>2, ZenonT(40) DEF TmPlaces, TmHolder, TimerSignalIsLatest, TmDrops
<1>8. TmFree' /\ TmHeld'
  BY <1>0, <1>2, <1>3, ZenonT(40) DEF TmFree, TmWanted, TmHeld, TmHeldBy, TmArms
<1> QED
  BY <1>4, <1>5, <1>6, <1>7, <1>8, Zenon DEF TmWhere

\* Time passes.
LEMMA ClockTicks ==
  ASSUME TmWhere, TimerClock
  PROVE  TmWhere'
<1>0. /\ TimerTypeOK /\ TmPlaces /\ TmHolder /\ TmOneExpiry /\ TmFree /\ TmHeld
      /\ TimerSignalIsLatest
  BY Zenon DEF TmWhere
<1>1. /\ tmNow \in Nat /\ tmNow' = tmNow + 1
      /\ UNCHANGED <<tmSignaled, tmDeadline, tmSlack, cancelPending, tmLock, tmQueue, tmScheduled>>
      /\ UNCHANGED <<tmActive, tmDpc, tmHandle, tmRefs, tmDeleted, tmPc, tmCall, tmHit>>
      /\ UNCHANGED <<tmOps, tmWant, tmMay>>
  BY <1>0, ZenonT(40) DEF TimerClock, TimerTypeOK, tmHw, tmObj
<1>2. (TmExpired' <=> TmExpired) /\ TmOneExpiry'
  BY <1>0, <1>1, SameExpiry, ZenonT(40)
<1>3. TimerTypeOK'
  <2>1. tmNow' \in Nat
    BY <1>1, TmThreadsAre
  <2> QED
    BY <1>0, <1>1, <2>1, ZenonT(120) DEF TimerTypeOK
<1>4. TmPlaces' /\ TmHolder'
  BY <1>0, <1>1, Zenon DEF TmPlaces, TmHolder
<1>5. TmHeld'
  BY <1>0, <1>1, <1>2, ZenonT(40) DEF TmHeld, TmHeldBy, TmArms, TmWanted
<1>6. TmFree' /\ TimerSignalIsLatest'
  BY <1>0, <1>1, <1>2, SMTT(30) DEF TmFree, TmWanted, TimerSignalIsLatest, TimerTypeOK
<1> QED
  BY <1>2, <1>3, <1>4, <1>5, <1>6, Zenon DEF TmWhere

\* Steps that change nothing.
LEMMA Stutters ==
  ASSUME TmWhere, UNCHANGED tmVars
  PROVE  TmWhere'
<1>0. /\ TimerTypeOK /\ TmPlaces /\ TmHolder /\ TmOneExpiry /\ TmFree /\ TmHeld
      /\ TimerSignalIsLatest
  BY Zenon DEF TmWhere
<1>1. /\ UNCHANGED <<tmSignaled, tmDeadline, tmSlack, cancelPending, tmLock, tmQueue, tmScheduled>>
      /\ UNCHANGED <<tmActive, tmDpc, tmHandle, tmRefs, tmDeleted, tmPc, tmCall, tmHit>>
      /\ UNCHANGED <<tmNow, tmOps, tmWant, tmMay>>
  BY Zenon DEF tmVars, tmHw, tmObj, tmRest
<1>2. (TmExpired' <=> TmExpired) /\ TmOneExpiry'
  BY <1>0, <1>1, SameExpiry, ZenonT(40)
<1>3. TimerTypeOK' /\ TmPlaces' /\ TmHolder' /\ TimerSignalIsLatest'
  BY <1>0, <1>1, ZenonT(120) DEF TimerTypeOK, TmPlaces, TmHolder, TimerSignalIsLatest
<1>4. TmFree' /\ TmHeld'
  BY <1>0, <1>1, <1>2, ZenonT(40) DEF TmFree, TmWanted, TmHeld, TmHeldBy, TmArms
<1> QED
  BY <1>2, <1>3, <1>4, ZenonT(40) DEF TmWhere

\* What every step does: its thread or its CPU accounts for the references,
\* or it is the clock's.
TmGood ==
  /\ TmWhere'
  /\ \/ TimerClock
     \/ \E p \in TmThreads : TmAccounts(p) /\ TmDrops(p)

\* A step of a system call, of the DPC, of the interrupt or of the clock
\* keeps the Timer where it is known to be,
\* and accounts for the references.
LEMMA Steps ==
  ASSUME TmWhere, TimerNext
  PROVE  TmGood
<1>1. ASSUME NEW p \in TmCallers, NEW call \in TmCalls, TimerCall(p, call) PROVE TmGood
  BY <1>1, CallClose, CallOther, TmThreadsAre, Zenon DEF TmGood
<1>2. ASSUME NEW p \in TmCallers, CancelTimerLocked(p) PROVE TmGood
  BY <1>2, CancelMissed, CancelWaits, TmThreadsAre, Zenon DEF TmGood
<1>3. ASSUME NEW p \in TmCallers, TimerCancelDone(p) PROVE TmGood
  BY <1>3, CancelHit, CancelTooLate, TmThreadsAre, Zenon DEF TmGood
<1>4. ASSUME NEW p \in TmCallers, TimerOnZeroHandles(p) PROVE TmGood
  BY <1>4, ZeroHandlesCanceled, ZeroHandlesMissed, TmThreadsAre, ZenonT(40) DEF TmGood
<1>5. ASSUME NEW p \in TmCallers, TimerSet(p) PROVE TmGood
  <2>1. tmCall[p][2] <= tmNow \/ tmCall[p][2] > tmNow
    BY <1>5, ZenonT(40) DEF TimerSet
  <2> QED
    BY <1>5, <2>1, SetPast, SetPending, SetArms, SetCancels, TmThreadsAre, ZenonT(40)
    DEF TmGood
<1>6. ASSUME NEW p \in TmThreads, NEW c \in TmCpus, SetTimerLocked(p, c) PROVE TmGood
  BY <1>6, TmThreadsAre, CallerArms, WorkerArms, ZenonT(40) DEF TmGood
<1>7. ASSUME NEW p \in TmThreads, OnZeroHandlesWaited(p) PROVE TmGood
  BY <1>7, ZeroHandlesWaited, ZenonT(40) DEF TmGood, OnZeroHandlesWaited
<1>8. ASSUME NEW p \in TmThreads, TimerStep(p) PROVE TmGood
  BY <1>6, <1>7, <1>8, SetWaited, Releases, ZenonT(40) DEF TmGood, TimerStep
<1>9. ASSUME NEW p \in TmCallers, TimerCallStep(p) PROVE TmGood
  BY <1>2, <1>3, <1>4, <1>5, <1>9, CancelReturns, TmThreadsAre, ZenonT(40)
  DEF TmGood, TimerCallStep
<1>10. ASSUME NEW c \in TmCpus, OnTimerFired(c) PROVE TmGood
  BY <1>10, FiredRearms, FiredDrops, FiredSignals, TmThreadsAre, ZenonT(40) DEF TmGood
<1>11. ASSUME NEW c \in TmCpus, TimerIrq(c) PROVE TmGood
  BY <1>11, Ticks, Queues, TickEnds, TmThreadsAre, ZenonT(40) DEF TmGood, TimerIrq
<1> QED
  <2>1. ASSUME NEW c \in TmCpus, TimerDpcPop(c) PROVE TmGood
    BY <2>1, DpcPops, TmThreadsAre, Zenon DEF TmGood
  <2>2. ASSUME TimerClock PROVE TmGood
    BY <2>2, ClockTicks, Zenon DEF TmGood
  <2> QED
    BY <1>1, <1>8, <1>9, <1>10, <1>11, <2>1, <2>2, Zenon DEF TimerNext
-----------------------------------------------------------------------------
(* The results *)

\* The object starts with no Timer set.
LEMMA Starts == TimerInit => TmWhere
<1> SUFFICES ASSUME TimerInit PROVE TmWhere
  OBVIOUS
<1> USE DEF TimerInit
<1>1. tmPc \in [TmThreads -> TmPcs] /\ (\A p \in TmThreads : tmPc[p] = "idle")
  BY Zenon DEF TmPcs
<1>2. TimerTypeOK
  <2>1. tmCall \in [TmCallers -> TmCalls]
    BY ZenonT(40) DEF TmCalls, NoCall
  <2>2. /\ tmDeadline \in 0..MaxTmTime /\ tmSlack \in 0..MaxTmSlack /\ tmScheduled \in Int
        /\ tmNow \in Nat /\ tmMay \in Int /\ tmRefs \in Int /\ tmOps \in 0..MaxTmOps
        /\ tmWant \in -1..MaxTmTime
    BY TmThreadsAre, SMTT(30)
  <2> QED
    BY <1>1, <2>1, <2>2, ZenonT(40) DEF TimerTypeOK
<1>3. ~TmFiring /\ ~TmExpired
  BY <1>1, TmThreadsAre, ZenonT(40) DEF TmFiring, TmExpired, NotActive
<1>4. TmPlaces /\ TmHolder /\ TimerSignalIsLatest
  BY <1>1, TmThreadsAre, ZenonT(40) DEF TmPlaces, TmHolder, TmHolding, TimerSignalIsLatest
<1>5. TmOneExpiry /\ TmFree /\ TmHeld
  BY <1>1, <1>3, TmThreadsAre, ZenonT(40)
  DEF TmOneExpiry, TmFree, TmWanted, TmHeld, NotActive
<1> QED
  BY <1>2, <1>3, <1>4, <1>5, ZenonT(40) DEF TmWhere

\* Timer::Set, which panics otherwise, never finds the Timer set or in its
\* callback, and only the holder of the lock calls it.
LEMMA SetWhenIdle == TmWhere => TimerSetWhenIdle
<1> SUFFICES ASSUME TmWhere, NEW p \in TmThreads, tmPc[p] = "arm"
             PROVE  tmQueue = "none" /\ tmActive = NotActive /\ tmLock = p
  BY Zenon DEF TimerSetWhenIdle
<1>1. tmLock = p
  BY ZenonT(40) DEF TmWhere, TmHolder, TmHolding
<1>2. tmQueue = "none" /\ ~TmExpired
  BY <1>1, ZenonT(40) DEF TmWhere, TmHeld, TmHeldBy, TmArms, TmWanted, TmPlaces
<1>3. tmActive = NotActive
  BY <1>2, CallbackOver, ZenonT(40) DEF TmWhere, TmExpired
<1> QED
  BY <1>1, <1>2, <1>3, ZenonT(40)

\* A timer is signaled only for the deadline that was set last, and not
\* before it, wherever OnTimerFired was overtaken by Set or Cancel.
THEOREM TimerSignalIsLatestHolds == TimerSpec => []TimerSignalIsLatest
<1>1. TmWhere /\ [TimerNext]_tmVars => TmWhere'
  BY Steps, Stutters, ZenonT(40) DEF TmGood
<1>2. TmWhere => TimerSignalIsLatest
  BY ZenonT(40) DEF TmWhere
<1> QED
  BY <1>1, <1>2, Starts, PTL DEF TimerSpec
-----------------------------------------------------------------------------
(* Adding the references up *)

TmIn(p, A) == IF p \in A THEN 1 ELSE 0

\* A set that differs from another in one element at most.
LEMMA CountChange ==
  ASSUME FiniteSizes, NEW S, IsFiniteSet(S), NEW A, NEW B, A \subseteq S,
  B \subseteq S, NEW p,
         \A r : r # p => (r \in A <=> r \in B)
  PROVE  /\ Cardinality(A) \in Nat /\ Cardinality(B) \in Nat
         /\ Cardinality(B) = Cardinality(A) + TmIn(p, B) - TmIn(p, A)
<1>1. /\ IsFiniteSet(A) /\ Cardinality(A) \in Nat
      /\ IsFiniteSet(B) /\ Cardinality(B) \in Nat
  BY SMTT(30) DEF FiniteSizes, SizePart, SizeType
<1>2. CASE p \in A <=> p \in B
  <2>1. A = B
    BY <1>2, SMTT(30)
  <2> QED
    BY <1>1, <1>2, <2>1, SMTT(30) DEF TmIn
<1>3. CASE p \in B /\ p \notin A
  <2>1. B = A \cup {p}
    BY <1>3, SMTT(30)
  <2>2. Cardinality(B) = Cardinality(A) + 1
    BY <1>1, <1>3, <2>1, SMTT(30) DEF FiniteSizes, SizeMore
  <2> QED
    BY <1>1, <1>3, <2>2, SMTT(30) DEF TmIn
<1>4. CASE p \in A /\ p \notin B
  <2>1. A = B \cup {p}
    BY <1>4, SMTT(30)
  <2>2. Cardinality(A) = Cardinality(B) + 1
    BY <1>1, <1>4, <2>1, SMTT(30) DEF FiniteSizes, SizeMore
  <2> QED
    BY <1>1, <1>4, <2>2, SMTT(30) DEF TmIn
<1> QED
  BY <1>2, <1>3, <1>4, SMTT(30)

\* The sets the references are counted from are finite.
LEMMA CountsAreNat ==
  ASSUME FiniteSizes
  PROVE  /\ Cardinality(TmInCall) \in Nat /\ Cardinality(TmArming) \in Nat
         /\ Cardinality(TmWorkers) \in Nat /\ Cardinality(TmTaken) \in Nat
<1>1. /\ TmInCall \subseteq TmCallers /\ TmArming \subseteq TmCallers
      /\ TmWorkers \subseteq TmCpus /\ TmTaken \subseteq TmCallers
  BY SMTT(30) DEF TmInCall, TmArming, TmWorkers, TmTaken
<1> QED
  BY <1>1, TmAssumption, CountChange, ZenonT(40)

\* A step of p changes the count by what p and the rest gain or lose.
LEMMA RefsStep ==
  ASSUME FiniteSizes, TimerReferences, NEW p \in TmThreads, TmAccounts(p)
  PROVE  TimerReferences'
<1>1. /\ TmInCall \subseteq TmCallers /\ TmArming \subseteq TmCallers
      /\ TmWorkers \subseteq TmCpus /\ TmTaken \subseteq TmCallers
      /\ TmInCall' \subseteq TmCallers /\ TmArming' \subseteq TmCallers
      /\ TmWorkers' \subseteq TmCpus /\ TmTaken' \subseteq TmCallers
  BY SMTT(30) DEF TmInCall, TmArming, TmWorkers, TmTaken
<1>2. \A r : r # p => (r \in TmInCall <=> r \in TmInCall')
  BY TmThreadsAre, ZenonT(40) DEF TmAccounts, TmOnly, TmInCall
<1>3. \A r : r # p => (r \in TmArming <=> r \in TmArming')
  BY TmThreadsAre, SMTT(30) DEF TmAccounts, TmOnly, TmArming
<1>4. \A r : r # p => (r \in TmWorkers <=> r \in TmWorkers')
  BY TmThreadsAre, ZenonT(40) DEF TmAccounts, TmOnly, TmWorkers
<1>5. \A r : r # p => (r \in TmTaken <=> r \in TmTaken')
  BY TmThreadsAre, SMTT(30) DEF TmAccounts, TmOnly, TmTaken
<1>6. Cardinality(TmInCall') = Cardinality(TmInCall) + TmIn(p, TmInCall') - TmIn(p, TmInCall)
  BY <1>1, <1>2, TmAssumption, CountChange, SMTT(30)
<1>7. Cardinality(TmArming') = Cardinality(TmArming) + TmIn(p, TmArming') - TmIn(p, TmArming)
  BY <1>1, <1>3, TmAssumption, CountChange, SMTT(30)
<1>8. Cardinality(TmWorkers') = Cardinality(TmWorkers) + TmIn(p, TmWorkers') - TmIn(p, TmWorkers)
  BY <1>1, <1>4, TmAssumption, CountChange, SMTT(30)
<1>9. Cardinality(TmTaken') = Cardinality(TmTaken) + TmIn(p, TmTaken') - TmIn(p, TmTaken)
  BY <1>1, <1>5, TmAssumption, CountChange, SMTT(30)
<1>10. /\ Cardinality(TmInCall') \in Nat /\ Cardinality(TmArming') \in Nat
       /\ Cardinality(TmWorkers') \in Nat /\ Cardinality(TmTaken') \in Nat
  BY <1>1, TmAssumption, CountChange, ZenonT(40)
<1>11. TmHas(p) = TmIn(p, TmInCall) + TmIn(p, TmArming) + TmIn(p, TmWorkers)
                    + TmIn(p, TmTaken)
  BY TmThreadsAre, SMTT(30) DEF TmHas, TmIn, TmInCall, TmArming, TmWorkers, TmTaken
<1>12. TmHas(p)' = TmIn(p, TmInCall') + TmIn(p, TmArming') + TmIn(p, TmWorkers')
                    + TmIn(p, TmTaken')
  BY TmThreadsAre, SMTT(30) DEF TmHas, TmIn, TmInCall, TmArming, TmWorkers, TmTaken
<1>13. \A b : TmOne(b) \in 0..1
  BY SMTT(30) DEF TmOne
<1>14. tmRefs = TmElse + Cardinality(TmInCall) + Cardinality(TmArming)
                  + Cardinality(TmWorkers) + Cardinality(TmTaken)
       /\ TmElse \in Int /\ TmElse' \in Int
  BY <1>13, CountsAreNat, SMTT(30) DEF TimerReferences, TmElse
<1>15. tmRefs' = TmElse' + Cardinality(TmInCall') + Cardinality(TmArming')
                  + Cardinality(TmWorkers') + Cardinality(TmTaken')
  BY <1>6, <1>7, <1>8, <1>9, <1>10, <1>11, <1>12, <1>14, CountsAreNat, SMTT(30)
  DEF TmIn, TmAccounts
<1> QED
  BY <1>10, <1>13, <1>15, SMTT(30) DEF TimerReferences, TmElse

\* The last reference is nobody's: no thread is in a call or in the DPC, and
\* the Timer is nowhere.
LEMMA NoReferences ==
  ASSUME FiniteSizes, TmWhere, TimerReferences, tmRefs = 0
  PROVE  /\ ~tmHandle /\ tmQueue = "none" /\ tmDpc = "none" /\ tmActive = NotActive
         /\ tmDeadline = 0 /\ tmSlack = 0 /\ tmPc = [p \in TmThreads |-> "idle"]
<1>1. /\ TmElse \in Nat
      /\ TmElse = 0 => ~tmHandle /\ tmQueue = "none" /\ tmDpc = "none" /\ ~TmFiring
  BY SMTT(30) DEF TmElse, TmOne
<1>2. tmRefs = TmElse + Cardinality(TmInCall) + Cardinality(TmArming)
                 + Cardinality(TmWorkers) + Cardinality(TmTaken)
  <2>1. \A b : TmOne(b) \in 0..1
    BY SMTT(30) DEF TmOne
  <2> QED
    BY <2>1, CountsAreNat, SMTT(30) DEF TimerReferences, TmElse
<1>3. TmElse = 0 /\ Cardinality(TmInCall) = 0 /\ Cardinality(TmWorkers) = 0
  BY <1>1, <1>2, CountsAreNat, SMTT(30)
<1>4. /\ ~tmHandle /\ tmQueue = "none" /\ tmDpc = "none" /\ ~TmFiring
      /\ Cardinality(TmInCall) = 0 /\ Cardinality(TmWorkers) = 0
  BY <1>1, <1>3, SMTT(30)
<1>5. TmInCall = {} /\ TmWorkers = {}
  <2>1. /\ TmInCall \subseteq TmCallers /\ TmWorkers \subseteq TmCpus
    BY SMTT(30) DEF TmInCall, TmWorkers
  <2>2. IsFiniteSet(TmInCall) /\ IsFiniteSet(TmWorkers)
    BY <2>1, TmAssumption, SMTT(30) DEF FiniteSizes, SizePart
  <2> QED
    BY <1>4, <2>2, SMTT(30) DEF FiniteSizes, SizeNone
<1>6. \A p \in TmThreads : tmPc[p] = "idle"
  BY <1>5, TmThreadsAre, ZenonT(40) DEF TmInCall, TmWorkers, TmThreads
<1>7. tmPc = [p \in TmThreads |-> "idle"]
  BY <1>6, SMTT(30) DEF TmWhere, TimerTypeOK
<1>8. tmActive = NotActive
  BY <1>4, CallbackOver, SMTT(30) DEF TmWhere
<1>9. tmLock = "none"
  BY <1>6, SMTT(30) DEF TmWhere, TimerTypeOK, TmHolder, TmHolding
<1>10. tmDeadline = 0 /\ tmSlack = 0
  BY <1>4, <1>6, <1>9, TmThreadsAre, SMTT(30) DEF TmWhere, TmFree, TmExpired, TmPlaces
<1> QED
  BY <1>4, <1>7, <1>8, <1>10, SMTT(30)

\* The object is deleted with its last reference.
TmDead == tmDeleted => tmRefs = 0

TimerIInv == TmWhere /\ TimerReferences /\ TmDead

\* The object starts with the handle's reference.
LEMMA RefsStart == FiniteSizes /\ TimerInit => TimerReferences /\ TmDead
<1> SUFFICES ASSUME FiniteSizes, TimerInit PROVE TimerReferences /\ TmDead
  BY SMTT(30)
<1>1. TmInCall = {} /\ TmArming = {} /\ TmWorkers = {} /\ TmTaken = {}
  BY TmThreadsAre, SMTT(30) DEF TimerInit, TmInCall, TmArming, TmWorkers, TmTaken
<1>2. ~TmFiring
  BY TmThreadsAre, SMTT(30) DEF TimerInit, TmFiring, NotActive
<1> QED
  BY <1>1, <1>2, SMTT(30) DEF FiniteSizes, SizeNone, TimerInit, TimerReferences, TmOne,
     TmDead

\* Every step keeps the references exact, and nobody uses the object once it
\* is deleted.
LEMMA RefsStay ==
  ASSUME FiniteSizes, TimerIInv, [TimerNext]_tmVars
  PROVE  TimerIInv'
<1>1. TmWhere /\ TimerReferences /\ TmDead
  BY DEF TimerIInv
<1>2. CASE UNCHANGED tmVars \/ TimerClock
  <2>1. /\ UNCHANGED <<tmRefs, tmDeleted, tmHandle, tmQueue, tmDpc, tmActive>>
        /\ UNCHANGED <<tmPc, tmCall, tmHit>>
    BY <1>2, SMTT(30) DEF tmVars, tmHw, tmObj, tmRest, TimerClock
  <2>2. TimerReferences' /\ TmDead'
    BY <1>1, <2>1, SMTT(30) DEF TimerReferences, TmInCall, TmArming, TmWorkers, TmTaken,
       TmFiring, TmDead
  <2>3. TmWhere'
    BY <1>1, <1>2, Stutters, ClockTicks, ZenonT(40)
  <2> QED
    BY <2>2, <2>3, SMTT(30) DEF TimerIInv
<1>3. CASE TimerNext /\ ~TimerClock
  <2>1. TmWhere'
    BY <1>1, <1>3, Steps, SMTT(30) DEF TmGood
  <2>2. PICK p \in TmThreads : TmAccounts(p) /\ TmDrops(p)
    BY <1>1, <1>3, Steps, ZenonT(40) DEF TmGood
  <2>3. TimerReferences'
    BY <1>1, <2>2, RefsStep, SMTT(30)
  <2>4. TmDead'
    <3>1. tmDeleted => ~tmHandle /\ tmPc[p] = "idle" /\ tmRefs = 0
      BY <1>1, NoReferences, SMTT(30) DEF TmDead
    <3> QED
      BY <2>2, <3>1, ZenonT(40) DEF TmDrops, TmDead
  <2> QED
    BY <2>1, <2>3, <2>4, SMTT(30) DEF TimerIInv
<1> QED
  BY <1>2, <1>3, SMTT(30)

\* The Timer is where deadline_, cancel_pending_ and the holder of the lock say
\* it is, and the references are the ones of the places it can be in.
THEOREM TimerInvariant == FiniteSizes => (TimerSpec => []TimerIInv)
<1> SUFFICES ASSUME FiniteSizes PROVE TimerSpec => []TimerIInv
  OBVIOUS
<1>1. TimerInit => TimerIInv
  BY Starts, RefsStart, SMTT(30) DEF TimerIInv
<1>2. TimerIInv /\ [TimerNext]_tmVars => TimerIInv'
  BY RefsStay, SMTT(30)
<1> QED
  BY <1>1, <1>2, PTL DEF TimerSpec

\* The references are exact, so the object is freed once, by the last one to
\* use it; when it is, its Timer and its DPC are on no list and run nowhere;
\* and Timer::Set never finds the Timer set or in its callback.
THEOREM TimerConsistentBySizes == FiniteSizes => (TimerSpec => []TimerConsistent)
<1> SUFFICES ASSUME FiniteSizes PROVE TimerSpec => []TimerConsistent
  OBVIOUS
<1>1. TimerIInv => TimerConsistent
  <2> SUFFICES ASSUME TimerIInv PROVE TimerConsistent
    BY SMTT(30)
  <2>1. TimerGoneQuietly
    BY NoReferences, SMTT(30) DEF TimerIInv, TmDead, TimerGoneQuietly
  <2>2. TimerSetWhenIdle
    BY SetWhenIdle DEF TimerIInv
  <2> QED
    BY <2>1, <2>2, SMTT(30) DEF TimerIInv, TmWhere, TimerConsistent
<1> QED
  BY <1>1, TimerInvariant, PTL
=============================================================================
