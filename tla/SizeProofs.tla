----------------------------- MODULE SizeProofs -----------------------------
(***************************************************************************)
(* The theorems of the proofs that count, without their assumption on the  *)
(* size of finite sets, which the library's theorems establish.            *)
(***************************************************************************)
EXTENDS PortQueueProofs, BrwProofs, TimerProofs, FiniteSetTheorems

\* The first n elements of a sequence without repetitions are n elements:
\* there is a bijection between 1..n and them.
LEMMA FirstSize == SizeFirst
<1> SUFFICES ASSUME NEW A, NEW s \in Seq(A), NEW n \in 1..Len(s),
                    \A i, k \in DOMAIN s : s[i] = s[k] => i = k
             PROVE  IsFiniteSet(FirstOf(s, n)) /\ Cardinality(FirstOf(s, n)) = n
  BY ZenonT(40) DEF SizeFirst
<1> DEFINE S == FirstOf(s, n)
           f == [i \in 1..n |-> s[i]]
<1>1. DOMAIN s = 1..Len(s) /\ 1..n \subseteq DOMAIN s
  BY FirstPlaces, ZenonT(40)
<1>2. \A i, k \in 1..n : f[i] = f[k] => i = k
  BY <1>1, ZenonT(40)
<1>3. f \in [1..n -> S] /\ \A x \in S : \E i \in 1..n : f[i] = x
  BY ZenonT(40) DEF FirstOf
<1>4. f \in Bijection(1..n, S)
  BY <1>2, <1>3, ZenonT(120) DEF Bijection, Injection, Surjection, IsInjective
<1>5. ExistsBijection(1..n, S)
  BY <1>4, ZenonT(40) DEF ExistsBijection
<1>6. IsFiniteSet(1..n) /\ Cardinality(1..n) = n
  <2>1. 1 \in Int /\ n \in Int /\ ~(1 > n) /\ n - 1 + 1 = n
    BY FirstPlaces, ZenonT(40)
  <2> QED
    BY <2>1, FS_Interval, ZenonT(120)
<1> QED
  BY <1>5, <1>6, FS_Bijection, ZenonT(40)

\* What the proofs assume of the size of finite sets is so.
LEMMA SizesHold == FiniteSizes
<1>1. SizeType /\ SizeNone /\ SizeOne
  BY FS_CardinalityType, FS_EmptySet, FS_Singleton, ZenonT(40)
  DEF SizeType, SizeNone, SizeOne
<1>2. SizeMore
  BY FS_AddElement, ZenonT(40) DEF SizeMore
<1>3. SizeLess
  BY FS_RemoveElement, ZenonT(40) DEF SizeLess
<1>4. SizePart
  BY FS_Subset, ZenonT(40) DEF SizePart
<1>5. SizeBoth
  BY FS_Union, ZenonT(40) DEF SizeBoth
<1>6. SizeWithout
  BY FS_Difference, ZenonT(40) DEF SizeWithout
<1> QED
  BY <1>1, <1>2, <1>3, <1>4, <1>5, <1>6, FirstSize, ZenonT(40) DEF FiniteSizes

-----------------------------------------------------------------------------
(* The port *)

\* The lists, the semaphore's queue and the port's lock are as their types
\* say.
THEOREM PortQueueTypeOK == Spec => []TypeOK
BY SizesHold, PortQueueTypeOKBySizes, PTL

\* Between Queue's push and its Post, and between Dequeue's Wait and its two
\* looks, there is a permit for every packet.
THEOREM PortQueuePermitPerPacket == Spec => []PermitPerPacket
BY SizesHold, PortQueuePermitPerPacketBySizes, PTL

\* No packet waits on a port in whose Dequeue a thread sleeps, unless some
\* thread is about to post for it or to take it.
THEOREM PortQueueNoStrandedPacket == Spec => []NoStrandedPacket
BY SizesHold, PortQueueNoStrandedPacketBySizes, PTL
-----------------------------------------------------------------------------
(* The reader-writer lock *)

\* The words of the lock count the threads they should, writer_ names the
\* thread that writes, and no blocked thread is forgotten.
THEOREM BrwConsistentHolds == BrwSpec => []BrwConsistent
BY SizesHold, BrwConsistentBySizes, PTL

\* The lock is a reader-writer lock: optimistic readers, speculative waiters,
\* upgrades and hand-overs never let a writer in beside anybody.
THEOREM BrwIsRwLock == BrwSpec => BrwImplements
BY SizesHold, BrwIsRwLockBySizes, PTL
-----------------------------------------------------------------------------
(* The timer *)

\* The references are exact, so the object is freed once, by the last one to
\* use it; when it is, its Timer and its DPC are on no list and run nowhere;
\* and Timer::Set never finds the Timer set or in its callback.
THEOREM TimerConsistentHolds == TimerSpec => []TimerConsistent
BY SizesHold, TimerConsistentBySizes, PTL
=============================================================================
