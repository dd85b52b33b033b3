-------------------------- MODULE PortQueueProofs --------------------------
(***************************************************************************)
(* For any number of threads and packets: a port has a permit for every    *)
(* packet, so none is stranded behind a thread that sleeps in Dequeue.     *)
(***************************************************************************)
EXTENDS PortQueue, Sizes, TLAPS

\* Where a thread is about to bring a permit, or has one and has yet to look
\* at interrupt_packets_, or at either queue.
Early == {"post", "dq_irq"}
Coming == {"post", "dq_irq", "dq_pkt"}

\* A thread sleeps only while no permit is stored.
SleepInv == waiting # {} => sema = 0

\* Only a port bound to an interrupt gets interrupt packets.
BindInv == ~BindToInterrupt => ipackets = <<>>

\* The packet that Queue will push.
HoldInv == \A t \in Threads : pc[t] = "queue" => cur[t] \in Packets

IInv == TypeOK /\ PermitPerPacket /\ SleepInv /\ BindInv /\ HoldInv

-----------------------------------------------------------------------------
(* Sets of threads at some place *)

\* The number of threads at some places is a natural number.
LEMMA AtFinite ==
  ASSUME FiniteSizes, NEW S
  PROVE  IsFiniteSet(At(S)) /\ Cardinality(At(S)) \in Nat
  BY ThreadsAssumption, ZenonT(40) DEF FiniteSizes, SizePart, SizeType, At

\* A thread comes to one of the places.
LEMMA AtEnter ==
  ASSUME FiniteSizes, NEW S, NEW t \in Threads, NEW a \in S, pc[t] \notin S,
         pc \in [Threads -> Pcs], pc' = [pc EXCEPT ![t] = a]
  PROVE  Cardinality(At(S)') = Cardinality(At(S)) + 1
<1>1. At(S)' = At(S) \cup {t} /\ t \notin At(S)
  BY Zenon DEF At
<1> QED
  BY <1>1, AtFinite, ZenonT(40) DEF FiniteSizes, SizeMore

\* A thread leaves the places.
LEMMA AtLeave ==
  ASSUME FiniteSizes, NEW S, NEW t \in Threads, NEW a, a \notin S, pc[t] \in S,
         pc \in [Threads -> Pcs], pc' = [pc EXCEPT ![t] = a]
  PROVE  Cardinality(At(S)') = Cardinality(At(S)) - 1
<1>1. At(S)' = At(S) \ {t} /\ t \in At(S)
  BY Zenon DEF At
<1> QED
  BY <1>1, AtFinite, ZenonT(40) DEF FiniteSizes, SizeLess

\* A thread moves inside the places, or outside.
LEMMA AtStay ==
  ASSUME NEW S, NEW t \in Threads, NEW a, a \in S <=> pc[t] \in S,
         pc \in [Threads -> Pcs], pc' = [pc EXCEPT ![t] = a]
  PROVE  At(S)' = At(S)
  BY Zenon DEF At

\* One thread leaves the places and another comes.
LEMMA AtSwap ==
  ASSUME FiniteSizes, NEW S, NEW t \in Threads, NEW u \in Threads, NEW a, NEW b \in S,
         t # u, pc[t] \in S, a \notin S, pc[u] \notin S,
         pc \in [Threads -> Pcs],
         pc' = [[pc EXCEPT ![t] = a] EXCEPT ![u] = b]
  PROVE  Cardinality(At(S)') = Cardinality(At(S))
<1>1. /\ At(S)' = (At(S) \ {t}) \cup {u}
      /\ t \in At(S)
      /\ u \notin At(S) \ {t}
  BY Zenon DEF At
<1>2. /\ IsFiniteSet(At(S) \ {t})
      /\ Cardinality(At(S) \ {t}) = Cardinality(At(S)) - 1
  BY <1>1, AtFinite, ZenonT(40) DEF FiniteSizes, SizeLess
<1>3. Cardinality((At(S) \ {t}) \cup {u}) = Cardinality(At(S) \ {t}) + 1
  BY <1>1, <1>2, ZenonT(40) DEF FiniteSizes, SizeMore
<1> QED
  BY <1>1, <1>2, <1>3, AtFinite

\* The places of a sequence's first n elements.
LEMMA FirstPlaces ==
  ASSUME NEW A, NEW s \in Seq(A), NEW n \in 1..Len(s)
  PROVE  /\ DOMAIN s = 1..Len(s) /\ 1..n \subseteq DOMAIN s
         /\ 1 \in Int /\ n \in Int /\ ~(1 > n) /\ n - 1 + 1 = n
OBVIOUS

\* Taking one packet out makes the queue shorter by one.
LEMMA RemoveIndexType ==
  ASSUME NEW S, NEW s \in Seq(S), NEW i \in 1..Len(s)
  PROVE  /\ RemoveIndex(s, i) \in Seq(S)
         /\ Len(RemoveIndex(s, i)) = Len(s) - 1
<1> DEFINE a == SubSeq(s, 1, i - 1)
           b == SubSeq(s, i + 1, Len(s))
<1>1. a \in Seq(S) /\ Len(a) = i - 1
  OBVIOUS
<1>2. b \in Seq(S) /\ Len(b) = Len(s) - i
  OBVIOUS
<1>3. RemoveIndex(s, i) = a \o b
  BY Zenon DEF RemoveIndex
<1> HIDE DEF a, b
<1>4. a \o b \in Seq(S) /\ Len(a \o b) = Len(a) + Len(b)
  BY <1>1, <1>2, SMTT(30)
<1> QED
  BY <1>1, <1>2, <1>3, <1>4, SMTT(30)

-----------------------------------------------------------------------------
(* Every action preserves the invariant *)

\* Popping the first packet.
LEMMA TailType ==
  ASSUME NEW S, NEW s \in Seq(S), s # <<>>
  PROVE  /\ Tail(s) \in Seq(S)
         /\ Len(Tail(s)) = Len(s) - 1
         /\ Head(s) \in S
  OBVIOUS

\* The lengths of the queues and the permits are natural numbers.
LEMMA QueueLengths ==
  ASSUME TypeOK
  PROVE  Len(packets) \in Nat /\ Len(ipackets) \in Nat /\ sema \in Nat
  BY DEF TypeOK

\* What a step that touches neither the queues nor the permits preserves.
LEMMA PermitFrame ==
  ASSUME PermitPerPacket, SleepInv, BindInv,
         UNCHANGED <<packets, ipackets, sema, waiting>>,
         At(Early)' = At(Early), At(Coming)' = At(Coming)
  PROVE  PermitPerPacket' /\ SleepInv' /\ BindInv'
  BY Zenon DEF PermitPerPacket, SleepInv, BindInv, Early, Coming

\* A thread goes from one place to another, neither of them with a permit to
\* post or in hand, nor asleep.
LEMMA GotoFrame ==
  ASSUME FiniteSizes, IInv, NEW t \in Threads, NEW place, Goto(t, place),
         pc[t] \notin Coming \cup {"blocked"},
         place \notin Coming \cup {"blocked"},
         UNCHANGED <<packets, ipackets, sema, waiting>>
  PROVE  /\ waiting' = At({"blocked"})'
         /\ PermitPerPacket' /\ SleepInv' /\ BindInv'
<1>1. \A S : S \in {Early, Coming, {"blocked"}} => At(S)' = At(S)
  BY AtStay, Zenon DEF IInv, TypeOK, Goto, Early, Coming
<1> QED
  BY <1>1, PermitFrame, Zenon DEF IInv, TypeOK

\* QueueUser preserves the invariant: nothing is queued yet.
LEMMA QueueUserStep ==
  ASSUME FiniteSizes, IInv, NEW t \in Threads, NEW p \in UserPackets, QueueUser(t, p)
  PROVE  IInv'
<1>1. /\ waiting' = At({"blocked"})'
      /\ PermitPerPacket' /\ SleepInv' /\ BindInv'
  BY GotoFrame, ZenonT(40) DEF QueueUser, queueVars, semaVars, Coming
<1>2. TypeOK' /\ HoldInv'
  BY <1>1, BoundsAssumption, SMTT(30) DEF IInv, TypeOK, HoldInv, QueueUser, queueVars,
      semaVars, Goto, Pcs, CancelPcs, Packets
<1> QED
  BY <1>1, <1>2, Zenon DEF IInv

\* So does a kernel object that is about to queue its packet.
LEMMA QueueKernelStep ==
  ASSUME FiniteSizes, IInv, NEW t \in Threads, NEW p \in KernelPackets, QueueKernel(t, p)
  PROVE  IInv'
<1>1. /\ waiting' = At({"blocked"})'
      /\ PermitPerPacket' /\ SleepInv' /\ BindInv'
  BY GotoFrame, ZenonT(40) DEF QueueKernel, queueVars, semaVars, Coming
<1>2. TypeOK' /\ HoldInv'
  BY <1>1, BoundsAssumption DEF IInv, TypeOK, HoldInv, QueueKernel,
      queueVars, semaVars, memVars, Goto, Pcs, CancelPcs, Packets
<1> QED
  BY <1>1, <1>2, Zenon DEF IInv

\* Taking the port's lock to cancel packets preserves the invariant.
LEMMA CancelBeginStep ==
  ASSUME FiniteSizes, IInv, NEW t \in Threads, NEW k \in PacketKeys,
  NEW place \in CancelPcs,
         CancelBegin(t, k, place)
  PROVE  IInv'
<1>1. /\ waiting' = At({"blocked"})'
      /\ PermitPerPacket' /\ SleepInv' /\ BindInv'
  BY GotoFrame, ZenonT(40) DEF CancelBegin, semaVars, Coming, CancelPcs
<1>2. TypeOK' /\ HoldInv'
  BY <1>1, ThreadsAssumption, ZenonT(40) DEF IInv, TypeOK, HoldInv, CancelBegin,
      semaVars, memVars, Goto, Pcs, CancelPcs
<1> QED
  BY <1>1, <1>2, ZenonT(40) DEF IInv

\* Releasing it does too.
LEMMA CancelEndStep ==
  ASSUME FiniteSizes, IInv, NEW t \in Threads, CancelEnd(t)
  PROVE  IInv'
<1>1. /\ waiting' = At({"blocked"})'
      /\ PermitPerPacket' /\ SleepInv' /\ BindInv'
  BY GotoFrame, Zenon DEF CancelEnd, semaVars, Coming, CancelPcs
<1>2. TypeOK' /\ HoldInv'
  BY <1>1, ThreadsAssumption, ZenonT(40) DEF IInv, TypeOK, HoldInv, CancelEnd, semaVars,
      memVars, Goto, Pcs, CancelPcs
<1> QED
  BY <1>1, <1>2, Zenon DEF IInv

\* So does the start of on_zero_handles.
LEMMA OnZeroHandlesStep ==
  ASSUME FiniteSizes, IInv, NEW t \in Threads, OnZeroHandles(t)
  PROVE  IInv'
<1>1. /\ waiting' = At({"blocked"})'
      /\ PermitPerPacket' /\ SleepInv' /\ BindInv'
  BY GotoFrame, ZenonT(40) DEF OnZeroHandles, semaVars, Coming
<1>2. TypeOK' /\ HoldInv'
  BY <1>1, ZenonT(40) DEF IInv, TypeOK, HoldInv, OnZeroHandles, semaVars, memVars, Goto,
      Pcs, CancelPcs
<1> QED
  BY <1>1, <1>2, Zenon DEF IInv

\* DequeueFree and ZeroHandlesFree preserve the invariant.
LEMMA FreeStep ==
  ASSUME FiniteSizes, IInv, NEW t \in Threads, DequeueFree(t) \/ ZeroHandlesFree(t)
  PROVE  IInv'
<1>1. /\ waiting' = At({"blocked"})'
      /\ PermitPerPacket' /\ SleepInv' /\ BindInv'
  BY GotoFrame, ZenonT(40) DEF DequeueFree, ZeroHandlesFree, queueVars, semaVars, Coming
<1>2. TypeOK' /\ HoldInv'
  BY <1>1, ZenonT(40) DEF IInv, TypeOK, HoldInv, DequeueFree, ZeroHandlesFree,
      queueVars, semaVars, Goto, Pcs, CancelPcs
<1> QED
  BY <1>1, <1>2, ZenonT(40) DEF IInv

\* A packet is pushed, with its permit to come, or refused.
LEMMA QueueStep ==
  ASSUME FiniteSizes, IInv, NEW t \in Threads, Queue(t)
  PROVE  IInv'
<1>1. CASE zeroHandles \/ OverLimit(cur[t])
  <2>1. /\ waiting' = At({"blocked"})'
        /\ PermitPerPacket' /\ SleepInv' /\ BindInv'
    BY <1>1, GotoFrame, Zenon DEF Queue, semaVars, Coming
  <2>2. TypeOK' /\ HoldInv'
    BY <1>1, <2>1, ZenonT(40) DEF IInv, TypeOK, HoldInv, Queue, semaVars, Goto, Pcs,
      CancelPcs
  <2> QED
    BY <2>1, <2>2, Zenon DEF IInv
<1>2. CASE ~(zeroHandles \/ OverLimit(cur[t]))
  <2>1. /\ Goto(t, "post") /\ pc[t] = "queue"
        /\ packets' = Append(packets, cur[t])
    BY <1>2, ZenonT(40) DEF Queue
  <2>2. /\ packets' \in Seq(Packets)
        /\ Len(packets') = Len(packets) + 1
    BY <2>1 DEF IInv, TypeOK, HoldInv
  <2>3. At({"blocked"})' = At({"blocked"})
    BY <2>1, AtStay, ZenonT(40) DEF IInv, TypeOK, Goto
  <2>4. /\ Cardinality(At(Early)') = Cardinality(At(Early)) + 1
        /\ Cardinality(At(Coming)') = Cardinality(At(Coming)) + 1
    BY <2>1, AtEnter, ZenonT(40) DEF IInv, TypeOK, Goto, Early, Coming
  <2>5. TypeOK' /\ HoldInv'
    BY <1>2, <2>2, <2>3, SMTT(30) DEF IInv, TypeOK, HoldInv, Queue, semaVars, Goto, Pcs,
      CancelPcs, User
  <2>6. PermitPerPacket'
    BY <2>2, <2>4, AtFinite, SMTT(90) DEF IInv, TypeOK, PermitPerPacket, Queue,
        semaVars, Early, Coming
  <2> QED
    BY <2>5, <2>6, Zenon DEF IInv, SleepInv, BindInv, Queue, semaVars
<1> QED
  BY <1>1, <1>2, Zenon

\* An interrupt packet is pushed, with its permit to come.
LEMMA QueueInterruptPacketStep ==
  ASSUME FiniteSizes, IInv, NEW t \in Threads, NEW i \in InterruptPackets,
         QueueInterruptPacket(t, i)
  PROVE  IInv'
<1>1. /\ ipackets' \in Seq(InterruptPackets)
      /\ Len(ipackets') = Len(ipackets) + 1
  BY DEF IInv, TypeOK, QueueInterruptPacket
<1>2. At({"blocked"})' = At({"blocked"})
  BY AtStay, Zenon DEF IInv, TypeOK, QueueInterruptPacket, Goto
<1>3. /\ Cardinality(At(Early)') = Cardinality(At(Early)) + 1
      /\ Cardinality(At(Coming)') = Cardinality(At(Coming)) + 1
  BY AtEnter, Zenon DEF IInv, TypeOK, QueueInterruptPacket, Goto, Early, Coming
<1>4. TypeOK' /\ HoldInv'
  <2>1. posts' \in 0..MaxPosts
    BY BoundsAssumption DEF IInv, TypeOK, QueueInterruptPacket
  <2> QED
    BY <1>1, <1>2, <2>1, ZenonT(40) DEF IInv, TypeOK, HoldInv, QueueInterruptPacket,
      queueVars, semaVars, memVars, Goto, Pcs, CancelPcs
<1>5. PermitPerPacket'
  <2>1. UNCHANGED <<packets, sema>>
    BY Zenon DEF QueueInterruptPacket, queueVars, semaVars
  <2> QED
    BY <1>1, <1>3, <2>1, AtFinite, QueueLengths, SMTT(90) DEF IInv, PermitPerPacket,
      Early, Coming
<1> QED
  BY <1>4, <1>5, Zenon DEF IInv, SleepInv, BindInv, QueueInterruptPacket, semaVars

\* The permit is stored, or handed to a thread that was asleep.
LEMMA PostStep ==
  ASSUME FiniteSizes, IInv, NEW t \in Threads, Post(t)
  PROVE  IInv'
<1>1. CASE Sema!Store /\ Goto(t, "idle")
  <2>1. At({"blocked"})' = At({"blocked"})
    BY <1>1, AtStay, Zenon DEF IInv, TypeOK, Post, Goto
  <2>2. /\ Cardinality(At(Early)') = Cardinality(At(Early)) - 1
        /\ Cardinality(At(Coming)') = Cardinality(At(Coming)) - 1
    BY <1>1, AtLeave, ZenonT(40) DEF IInv, TypeOK, Post, Goto, Early, Coming
  <2>3. TypeOK' /\ HoldInv'
    BY <1>1, <2>1, SMTT(30) DEF IInv, TypeOK, HoldInv, Post, Sema!Store, queueVars,
      memVars, Goto, Pcs, CancelPcs
  <2>4. PermitPerPacket'
    BY <1>1, <2>2, AtFinite, SMTT(90) DEF IInv, TypeOK, PermitPerPacket, Post,
      Sema!Store, queueVars, Early, Coming
  <2> QED
    BY <1>1, <2>3, <2>4, Zenon DEF IInv, SleepInv, BindInv, Post, Sema!Store
<1>2. CASE /\ Sema!Admit
           /\ pc' = [u \in Threads |-> IF u = t THEN "idle"
                                       ELSE IF u \in waiting \ waiting'
                                         THEN "dq_irq" ELSE pc[u]]
  <2>1. PICK w \in waiting : waiting' = waiting \ {w}
    BY <1>2, Zenon DEF Sema!Admit
  <2>2. w \in Threads /\ pc[w] = "blocked" /\ w # t /\ pc[t] = "post"
    BY <2>1, Zenon DEF IInv, TypeOK, At, Post
  <2>3. pc' = [[pc EXCEPT ![t] = "idle"] EXCEPT ![w] = "dq_irq"]
    BY <1>2, <2>1, <2>2, ZenonT(40) DEF IInv, TypeOK
  <2>4. waiting' = At({"blocked"})'
    BY <2>1, <2>2, <2>3, ZenonT(40) DEF IInv, TypeOK, At
  <2>5. \A S \in {Early, Coming} : Cardinality(At(S)') = Cardinality(At(S))
    <3>1. TAKE S \in {Early, Coming}
    <3>2. "idle" \notin S /\ "dq_irq" \in S /\ pc[t] \in S /\ pc[w] \notin S
      BY <2>2, Zenon DEF Early, Coming
    <3> QED
      BY <2>2, <2>3, <3>2, AtSwap, ZenonT(40) DEF IInv, TypeOK
  <2>6. TypeOK' /\ HoldInv'
    BY <1>2, <2>2, <2>3, <2>4, SMTT(30) DEF IInv, TypeOK, HoldInv, Post, Sema!Admit,
      queueVars, memVars, Pcs, CancelPcs
  <2>7. PermitPerPacket'
    BY <1>2, <2>5, Zenon DEF IInv, PermitPerPacket, Post, Sema!Admit, queueVars,
      Early, Coming
  <2> QED
    BY <1>2, <2>6, <2>7, Zenon DEF IInv, SleepInv, BindInv, Post, Sema!Admit
<1> QED
  BY <1>1, <1>2, Zenon DEF Post

\* A permit is taken, or there is none and the thread goes to sleep.
LEMMA DequeueWaitStep ==
  ASSUME FiniteSizes, IInv, NEW t \in Threads, DequeueWait(t)
  PROVE  IInv'
<1>1. CASE Sema!Take /\ Goto(t, "dq_irq")
  <2>1. At({"blocked"})' = At({"blocked"})
    BY <1>1, AtStay, ZenonT(40) DEF IInv, TypeOK, DequeueWait, Goto
  <2>2. /\ Cardinality(At(Early)') = Cardinality(At(Early)) + 1
        /\ Cardinality(At(Coming)') = Cardinality(At(Coming)) + 1
    BY <1>1, AtEnter, ZenonT(40) DEF IInv, TypeOK, DequeueWait, Goto, Early, Coming
  <2>3. TypeOK' /\ HoldInv'
    BY <1>1, <2>1, SMTT(30) DEF IInv, TypeOK, HoldInv, DequeueWait, Sema!Take,
        queueVars, memVars, Goto, Pcs, CancelPcs
  <2>4. PermitPerPacket'
    <3>1. UNCHANGED <<packets, ipackets>> /\ sema' = sema - 1
      BY <1>1, Zenon DEF DequeueWait, Sema!Take, queueVars
    <3> QED
      BY <2>2, <3>1, AtFinite, QueueLengths, SMTT(30) DEF IInv, PermitPerPacket, Early,
        Coming
  <2> QED
    BY <1>1, <2>3, <2>4, QueueLengths, SMTT(30) DEF IInv, SleepInv, BindInv,
        DequeueWait, Sema!Take
<1>2. CASE Sema!Block /\ waiting' = waiting \cup {t} /\ Goto(t, "blocked")
  <2>1. /\ At(Early)' = At(Early)
        /\ At(Coming)' = At(Coming)
    BY <1>2, AtStay, ZenonT(40) DEF IInv, TypeOK, DequeueWait, Goto, Early, Coming
  <2>2. waiting' = At({"blocked"})'
    BY <1>2 DEF IInv, TypeOK, At, Goto
  <2>3. TypeOK' /\ HoldInv'
    BY <1>2, <2>2, SMTT(30) DEF IInv, TypeOK, HoldInv, DequeueWait, Sema!Block,
      queueVars, memVars, Goto, Pcs, CancelPcs
  <2>4. PermitPerPacket'
    BY <1>2, <2>1, ZenonT(40) DEF IInv, PermitPerPacket, DequeueWait, Sema!Block,
      queueVars, Early, Coming
  <2> QED
    BY <1>2, <2>3, <2>4, Zenon DEF IInv, SleepInv, BindInv, DequeueWait, Sema!Block
<1> QED
  BY <1>1, <1>2, ZenonT(40) DEF DequeueWait

\* A thread stops waiting; it had no permit.
LEMMA DequeueTimedOutStep ==
  ASSUME FiniteSizes, IInv, NEW t \in Threads, DequeueTimedOut(t)
  PROVE  IInv'
<1>1. /\ At(Early)' = At(Early)
      /\ At(Coming)' = At(Coming)
  BY AtStay, ZenonT(40) DEF IInv, TypeOK, DequeueTimedOut, Goto, Early, Coming
<1>2. waiting' = At({"blocked"})'
  BY ZenonT(40) DEF IInv, TypeOK, DequeueTimedOut, At, Goto
<1>3. TypeOK' /\ HoldInv'
  BY <1>2 DEF IInv, TypeOK, HoldInv, DequeueTimedOut, Sema!GiveUp, queueVars,
    memVars, Goto, Pcs, CancelPcs
<1>4. PermitPerPacket'
  BY <1>1, Zenon DEF IInv, PermitPerPacket, DequeueTimedOut, Sema!GiveUp, queueVars,
    Early, Coming
<1> QED
  BY <1>3, <1>4, ZenonT(40) DEF IInv, SleepInv, BindInv, DequeueTimedOut, Sema!GiveUp

\* An interrupt packet is taken; without one the thread keeps its permit for
\* packets_, which is why Early has to do without it.
LEMMA DequeueInterruptStep ==
  ASSUME FiniteSizes, IInv, NEW t \in Threads, DequeueInterrupt(t)
  PROVE  IInv'
<1>0. /\ pc[t] = "dq_irq"
      /\ UNCHANGED <<queueVars, semaVars, memVars, cur, key, posts>>
  BY Zenon DEF DequeueInterrupt
<1>1. CASE BindToInterrupt /\ ipackets # <<>>
  <2>1. ipackets' = Tail(ipackets) /\ Goto(t, "idle")
    BY <1>1, ZenonT(40) DEF DequeueInterrupt
  <2>2. /\ ipackets' \in Seq(InterruptPackets)
        /\ Len(ipackets') = Len(ipackets) - 1
    BY <1>1, <2>1, SMTT(30) DEF IInv, TypeOK
  <2>3. At({"blocked"})' = At({"blocked"})
    BY <1>0, <2>1, AtStay, ZenonT(40) DEF IInv, TypeOK, Goto
  <2>4. /\ Cardinality(At(Early)') = Cardinality(At(Early)) - 1
        /\ Cardinality(At(Coming)') = Cardinality(At(Coming)) - 1
    BY <1>0, <2>1, AtLeave, ZenonT(40) DEF IInv, TypeOK, Goto, Early, Coming
  <2>5. TypeOK' /\ HoldInv'
    BY <1>0, <2>1, <2>2, <2>3, ZenonT(40) DEF IInv, TypeOK, HoldInv, queueVars, semaVars,
      memVars, Goto, Pcs, CancelPcs
  <2>6. PermitPerPacket'
    BY <1>0, <2>2, <2>4, AtFinite, QueueLengths, SMTT(30) DEF IInv, PermitPerPacket,
      queueVars, semaVars, Early, Coming
  <2> QED
    BY <1>0, <1>1, <2>5, <2>6, ZenonT(40) DEF IInv, SleepInv, BindInv, semaVars
<1>2. CASE ~(BindToInterrupt /\ ipackets # <<>>)
  <2>1. UNCHANGED ipackets /\ Goto(t, "dq_pkt")
    BY <1>2, Zenon DEF DequeueInterrupt
  <2>2. Len(ipackets) = 0
    BY <1>2, SMTT(30) DEF IInv, BindInv
  <2>3. At({"blocked"})' = At({"blocked"}) /\ At(Coming)' = At(Coming)
    BY <1>0, <2>1, AtStay, ZenonT(40) DEF IInv, TypeOK, Goto, Coming
  <2>4. Cardinality(At(Early)') \in Nat
    <3>1. At(Early)' = At(Early) \ {t}
      BY <1>0, <2>1, ZenonT(40) DEF IInv, TypeOK, Goto, At, Early
    <3> QED
      BY <3>1, AtFinite, ZenonT(40) DEF FiniteSizes, SizeLess, SizeType
  <2>5. TypeOK' /\ HoldInv'
    BY <1>0, <2>1, <2>3, ZenonT(40) DEF IInv, TypeOK, HoldInv, queueVars, semaVars,
      memVars, Goto, Pcs, CancelPcs
  <2>6. PermitPerPacket'
    BY <1>0, <2>1, <2>2, <2>3, <2>4, QueueLengths, SMTT(30) DEF IInv, PermitPerPacket,
      queueVars, semaVars, Early, Coming
  <2> QED
    BY <1>0, <2>1, <2>5, <2>6, Zenon DEF IInv, SleepInv, BindInv, semaVars
<1> QED
  BY <1>1, <1>2, ZenonT(40)

\* A packet is taken with the permit; with none left the permit is void.
LEMMA DequeuePacketStep ==
  ASSUME FiniteSizes, IInv, NEW t \in Threads, DequeuePacket(t)
  PROVE  IInv'
<1>0. /\ pc[t] = "dq_pkt"
      /\ UNCHANGED <<zeroHandles, plock, ipackets, semaVars, memVars, key,
                     posts>>
  BY ZenonT(40) DEF DequeuePacket
<1>1. CASE packets = <<>>
  <2>1. Goto(t, "dq_again") /\ UNCHANGED <<packets, ephemeral, cur>>
    BY <1>1, ZenonT(40) DEF DequeuePacket
  <2>2. At({"blocked"})' = At({"blocked"}) /\ At(Early)' = At(Early)
    BY <1>0, <2>1, AtStay, ZenonT(40) DEF IInv, TypeOK, Goto, Early
  <2>3. Cardinality(At(Early)) <= Cardinality(At(Coming)')
    <3>1. At(Early) \subseteq At(Coming)' /\ At(Coming)' \subseteq Threads
      BY <1>0, <2>1, ZenonT(40) DEF IInv, TypeOK, Goto, At, Early, Coming
    <3>2. IsFiniteSet(At(Coming)')
      BY <3>1, ThreadsAssumption, ZenonT(40) DEF FiniteSizes, SizePart
    <3> QED
      BY <3>1, <3>2, ZenonT(40) DEF FiniteSizes, SizePart
  <2>4. TypeOK' /\ HoldInv'
    BY <1>0, <2>1, <2>2, ZenonT(40) DEF IInv, TypeOK, HoldInv, semaVars, memVars, Goto,
      Pcs, CancelPcs
  <2>5. PermitPerPacket'
    <3>1. Cardinality(At(Coming)') \in Nat
      BY ThreadsAssumption, ZenonT(40) DEF FiniteSizes, SizePart, SizeType, At
    <3>2. Len(packets') = 0
      BY <1>1, <2>1, ZenonT(40)
    <3> QED
      BY <1>0, <2>2, <2>3, <3>1, <3>2, AtFinite, QueueLengths, SMTT(30)
         DEF IInv, PermitPerPacket, semaVars, Early, Coming
  <2> QED
    BY <1>0, <2>4, <2>5, ZenonT(40) DEF IInv, SleepInv, BindInv, semaVars
<1>2. CASE packets # <<>>
  <2>1. PICK place \in {"dq_free", "idle"} : Goto(t, place)
    BY <1>2, ZenonT(40) DEF DequeuePacket
  <2>2. /\ packets' \in Seq(Packets)
        /\ Len(packets') = Len(packets) - 1
        /\ Head(packets) \in Packets
    <3>1. packets' = Tail(packets) /\ packets \in Seq(Packets)
      BY <1>2, ZenonT(40) DEF DequeuePacket, IInv, TypeOK
    <3> QED
      BY <1>2, <3>1, TailType, ZenonT(40)
  <2>3. At({"blocked"})' = At({"blocked"}) /\ At(Early)' = At(Early)
    BY <1>0, <2>1, AtStay, ZenonT(40) DEF IInv, TypeOK, Goto, Early
  <2>4. Cardinality(At(Coming)') = Cardinality(At(Coming)) - 1
    BY <1>0, <2>1, AtLeave, ZenonT(40) DEF IInv, TypeOK, Goto, Coming
  <2>5. /\ ephemeral' \in Int
        /\ cur' \in [Threads -> Packets \cup {None}]
        /\ HoldInv'
    <3>1. ephemeral' \in Int
      BY <1>2, SMTT(30) DEF DequeuePacket, IInv, TypeOK, User
    <3>2. /\ cur' \in [Threads -> Packets \cup {None}]
          /\ \A u \in Threads \ {t} : cur'[u] = cur[u]
      BY <1>2, <2>2, SMTT(30) DEF DequeuePacket, IInv, TypeOK
    <3> QED
      BY <1>0, <2>1, <3>1, <3>2, ZenonT(40) DEF IInv, TypeOK, HoldInv, Goto
  <2>6. TypeOK'
    BY <1>0, <2>1, <2>2, <2>3, <2>5, ZenonT(40) DEF IInv, TypeOK, semaVars, memVars, Goto,
      Pcs, CancelPcs
  <2>7. PermitPerPacket'
    BY <1>0, <2>2, <2>3, <2>4, AtFinite, QueueLengths, SMTT(30)
       DEF IInv, PermitPerPacket, semaVars, Early, Coming
  <2> QED
    BY <1>0, <2>5, <2>6, <2>7, ZenonT(40) DEF IInv, SleepInv, BindInv, semaVars
<1> QED
  BY <1>1, <1>2, ZenonT(40)

\* Packets that are taken away leave their permits behind.
LEMMA ShorterFrame ==
  ASSUME FiniteSizes, IInv, UNCHANGED <<sema, waiting, pc>>,
         packets' \in Seq(Packets), Len(packets') <= Len(packets),
         ipackets' \in Seq(InterruptPackets), Len(ipackets') <= Len(ipackets)
  PROVE  /\ waiting' = At({"blocked"})'
         /\ PermitPerPacket' /\ SleepInv' /\ BindInv'
<1>1. \A S : At(S)' = At(S)
  BY ZenonT(40) DEF At
<1>2. PermitPerPacket'
  <2>1. Len(packets') \in Nat /\ Len(ipackets') \in Nat
    OBVIOUS
  <2> QED
    BY <1>1, <2>1, AtFinite, QueueLengths, SMTT(30) DEF IInv, PermitPerPacket
<1>3. BindInv'
  <2>1. ipackets = <<>> => Len(ipackets') = 0
    BY DEF IInv, TypeOK
  <2> QED
    BY <2>1, SMTT(30) DEF IInv, BindInv
<1> QED
  BY <1>1, <1>2, <1>3, ZenonT(40) DEF IInv, TypeOK, SleepInv

\* RemoveInterruptPacket preserves the invariant.
LEMMA RemoveInterruptPacketStep ==
  ASSUME FiniteSizes, IInv, NEW t \in Threads, NEW i \in 1..Len(ipackets),
         RemoveInterruptPacket(t, i)
  PROVE  IInv'
<1>1. /\ ipackets' \in Seq(InterruptPackets)
      /\ Len(ipackets') = Len(ipackets) - 1
  BY RemoveIndexType, ZenonT(40) DEF IInv, TypeOK, RemoveInterruptPacket
<1>2. /\ waiting' = At({"blocked"})'
      /\ PermitPerPacket' /\ SleepInv' /\ BindInv'
  BY <1>1, ShorterFrame, QueueLengths, SMTT(30)
     DEF IInv, TypeOK, RemoveInterruptPacket, queueVars, semaVars
<1>3. TypeOK' /\ HoldInv'
  BY <1>1, <1>2, ZenonT(40) DEF IInv, TypeOK, HoldInv, RemoveInterruptPacket, queueVars,
    semaVars, memVars
<1> QED
  BY <1>2, <1>3, ZenonT(40) DEF IInv

\* CancelQueued of a single packet preserves the invariant.
LEMMA CancelQueuedStep ==
  ASSUME FiniteSizes, IInv, NEW t \in Threads, NEW i \in 1..Len(packets),
         CancelQueued(t, i)
  PROVE  IInv'
<1>1. packets' \in Seq(Packets) /\ Len(packets') = Len(packets) - 1
  BY RemoveIndexType, SMTT(30) DEF IInv, TypeOK, CancelQueued
<1>2. /\ waiting' = At({"blocked"})'
      /\ PermitPerPacket' /\ SleepInv' /\ BindInv'
  BY <1>1, ShorterFrame, QueueLengths, SMTT(30)
     DEF IInv, TypeOK, CancelQueued, semaVars
<1>3. TypeOK' /\ HoldInv'
  BY <1>1, <1>2, SMTT(30) DEF IInv, TypeOK, HoldInv, CancelQueued, semaVars, memVars
<1> QED
  BY <1>2, <1>3, Zenon DEF IInv

\* So does each packet that CancelQueuedPacketsLocked removes.
LEMMA CancelNextStep ==
  ASSUME FiniteSizes, IInv, NEW t \in Threads, NEW i \in 1..Len(packets),
         CancelNext(t, i)
  PROVE  IInv'
<1>1. packets' \in Seq(Packets) /\ Len(packets') = Len(packets) - 1
  BY RemoveIndexType, SMTT(30) DEF IInv, TypeOK, CancelNext
<1>2. /\ waiting' = At({"blocked"})'
      /\ PermitPerPacket' /\ SleepInv' /\ BindInv'
  BY <1>1, ShorterFrame, QueueLengths, SMTT(30) DEF IInv, TypeOK, CancelNext, semaVars
<1>3. ephemeral' \in Int
  BY DEF IInv, TypeOK, CancelNext, User
<1>4. TypeOK' /\ HoldInv'
  BY <1>1, <1>2, <1>3, ZenonT(40) DEF IInv, TypeOK, HoldInv, CancelNext, semaVars
<1> QED
  BY <1>2, <1>4, Zenon DEF IInv

\* And each packet that on_zero_handles pops.
LEMMA ZeroHandlesNextStep ==
  ASSUME FiniteSizes, IInv, NEW t \in Threads, ZeroHandlesNext(t)
  PROVE  IInv'
<1>0. /\ pc[t] = "zero"
      /\ UNCHANGED <<zeroHandles, plock, ipackets, semaVars, memVars, key,
                     posts>>
  BY ZenonT(40) DEF ZeroHandlesNext
<1>1. PICK place \in {"zero", "zero_free", "idle"} : Goto(t, place)
  BY <1>0, ZenonT(40) DEF ZeroHandlesNext, Goto, IInv, TypeOK
<1>2. \A S \in {Early, Coming, {"blocked"}} : At(S)' = At(S)
  BY <1>0, <1>1, AtStay, ZenonT(40) DEF IInv, TypeOK, Goto, Early, Coming
<1>3. CASE packets = <<>>
  <2>1. UNCHANGED <<packets, ephemeral, cur>>
    BY <1>3, ZenonT(40) DEF ZeroHandlesNext
  <2>2. TypeOK' /\ HoldInv'
    BY <1>0, <1>1, <1>2, <2>1, SMTT(30) DEF IInv, TypeOK, HoldInv, semaVars, memVars,
      Goto, Pcs, CancelPcs
  <2> QED
    BY <1>0, <1>2, <2>1, <2>2, PermitFrame, ZenonT(40) DEF IInv, semaVars
<1>4. CASE packets # <<>>
  <2>1. /\ packets' \in Seq(Packets)
        /\ Len(packets') = Len(packets) - 1
        /\ Head(packets) \in Packets
    <3>1. packets' = Tail(packets) /\ packets \in Seq(Packets)
      BY <1>4, ZenonT(40) DEF ZeroHandlesNext, IInv, TypeOK
    <3> QED
      BY <1>4, <3>1, TailType, ZenonT(40)
  <2>2. ephemeral' \in Int
    BY <1>4, SMTT(30) DEF ZeroHandlesNext, IInv, TypeOK, User
  <2>3. /\ cur' \in [Threads -> Packets \cup {None}]
        /\ \A u \in Threads \ {t} : cur'[u] = cur[u]
    BY <1>4, <2>1, SMTT(30) DEF ZeroHandlesNext, IInv, TypeOK
  <2>4. HoldInv'
    BY <1>1, <2>3, ZenonT(40) DEF IInv, TypeOK, HoldInv, Goto
  <2>5. TypeOK'
    BY <1>0, <1>1, <1>2, <2>1, <2>2, <2>3, ZenonT(40) DEF IInv, TypeOK, semaVars, memVars,
      Goto, Pcs, CancelPcs
  <2>6. PermitPerPacket'
    BY <1>0, <1>2, <2>1, AtFinite, QueueLengths, SMTT(30)
       DEF IInv, PermitPerPacket, semaVars, Early, Coming
  <2> QED
    BY <1>0, <2>4, <2>5, <2>6, SMTT(30) DEF IInv, SleepInv, BindInv, semaVars
<1> QED
  BY <1>3, <1>4, ZenonT(40)

-----------------------------------------------------------------------------
(* The theorems *)

\* A new port satisfies the invariant.
LEMMA InitIInv == FiniteSizes /\ Init => IInv
<1> SUFFICES ASSUME FiniteSizes, Init PROVE IInv
  BY SMTT(30)
<1>1. \A S : "idle" \notin S => At(S) = {}
  BY ZenonT(40) DEF Init, At
<1>2. TypeOK
  <2>1. At({"blocked"}) = {}
    BY <1>1, ZenonT(40)
  <2>2. \A t \in Threads : plock # t /\ pc[t] \notin CancelPcs
    BY ThreadsAssumption, ZenonT(40) DEF Init, CancelPcs
  <2>3. packets \in Seq(Packets) /\ ipackets \in Seq(InterruptPackets)
    BY DEF Init
  <2>4. posts \in 0..MaxPosts
    BY BoundsAssumption DEF Init
  <2>5. pc \in [Threads -> Pcs] /\ ephemeral \in Int /\ sema \in Nat
    BY DEF Init, Pcs
  <2>6. /\ cur \in [Threads -> Packets \cup {None}]
        /\ key \in [Threads -> PacketKeys \cup {None}]
    BY Zenon DEF Init
  <2>7. /\ zeroHandles \in BOOLEAN
        /\ plock \in Threads \cup {None}
        /\ alloc \in SUBSET UserPackets
        /\ abandoned \in SUBSET UserPackets
    BY ZenonT(40) DEF Init
  <2> QED
    BY <2>1, <2>2, <2>3, <2>4, <2>5, <2>6, <2>7, SMTT(30) DEF TypeOK, Init
<1>3. PermitPerPacket
  <2>1. Len(packets) = 0 /\ Len(ipackets) = 0 /\ sema = 0
    BY Zenon DEF Init
  <2> QED
    BY <2>1, AtFinite, SMTT(30) DEF PermitPerPacket
<1> QED
  BY <1>2, <1>3, Zenon DEF IInv, Init, SleepInv, BindInv, HoldInv

\* Every step of every thread preserves it.
LEMMA NextIInv == FiniteSizes /\ IInv /\ [Next]_vars => IInv'
<1> SUFFICES ASSUME FiniteSizes, IInv, [Next]_vars PROVE IInv'
  BY SMTT(30), Zenon
<1>1. CASE UNCHANGED vars
  BY <1>1, ZenonT(40) DEF vars, queueVars, semaVars, memVars, IInv, TypeOK, SleepInv,
    BindInv, HoldInv, PermitPerPacket, At
<1>2. ASSUME NEW t \in Threads, Dequeue(t) PROVE IInv'
  BY <1>2, DequeueWaitStep, DequeueTimedOutStep, DequeueInterruptStep,
    DequeuePacketStep, FreeStep, ZenonT(40) DEF Dequeue
<1>3. ASSUME NEW t \in Threads, Push(t) PROVE IInv'
  BY <1>3, QueueUserStep, QueueKernelStep, QueueStep,
    QueueInterruptPacketStep, PostStep, ZenonT(40) DEF Push
<1>4. ASSUME NEW t \in Threads, TakeAway(t) PROVE IInv'
  BY <1>4, RemoveInterruptPacketStep, CancelQueuedStep, CancelBeginStep,
    CancelNextStep, CancelEndStep, OnZeroHandlesStep, ZeroHandlesNextStep,
    FreeStep, SMTT(30) DEF TakeAway
<1> QED
  BY <1>1, <1>2, <1>3, <1>4, ZenonT(40) DEF Next

\* The inductive invariant holds in every reachable state of a port.
THEOREM PortQueueInvariant == FiniteSizes => (Spec => []IInv)
<1> SUFFICES ASSUME FiniteSizes PROVE Spec => []IInv
  OBVIOUS
<1>1. (Init => IInv) /\ (IInv /\ [Next]_vars => IInv')
  BY InitIInv, NextIInv, ZenonT(40)
<1> QED
  BY <1>1, PTL DEF Spec

\* The lists, the semaphore's queue and the port's lock are as their types
\* say in every reachable state of a port.
THEOREM PortQueueTypeOKBySizes == FiniteSizes => (Spec => []TypeOK)
<1> SUFFICES ASSUME FiniteSizes PROVE Spec => []TypeOK
  OBVIOUS
<1>1. IInv => TypeOK
  BY Zenon DEF IInv
<1> QED
  BY <1>1, PortQueueInvariant, PTL

\* Between Queue's push and its Post, and between Dequeue's Wait and its two
\* looks, there is a permit for every packet.
THEOREM PortQueuePermitPerPacketBySizes == FiniteSizes => (Spec => []PermitPerPacket)
<1> SUFFICES ASSUME FiniteSizes PROVE Spec => []PermitPerPacket
  OBVIOUS
<1>1. IInv => PermitPerPacket
  BY ZenonT(40) DEF IInv
<1> QED
  BY <1>1, PortQueueInvariant, PTL

\* No packet waits on a port in whose Dequeue a thread sleeps, unless some
\* thread is about to post for it or to take it.
THEOREM PortQueueNoStrandedPacketBySizes == FiniteSizes => (Spec => []NoStrandedPacket)
<1> SUFFICES ASSUME FiniteSizes PROVE Spec => []NoStrandedPacket
  OBVIOUS
<1>1. IInv => NoStrandedPacket
  <2> SUFFICES ASSUME IInv, waiting # {}, At(Coming) = {}
               PROVE  packets = <<>> /\ ipackets = <<>>
    BY Zenon DEF NoStrandedPacket, Coming
  <2>1. sema = 0 /\ Cardinality(At(Coming)) = 0
    BY ZenonT(40) DEF FiniteSizes, SizeNone, IInv, SleepInv
  <2>2. Len(packets) = 0 /\ Len(ipackets) = 0
    BY <2>1, QueueLengths DEF IInv, PermitPerPacket, Coming
  <2> QED
    BY <2>2 DEF IInv, TypeOK
<1> QED
  BY <1>1, PortQueueInvariant, PTL
=============================================================================
