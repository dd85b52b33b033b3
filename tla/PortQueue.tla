----------------------------- MODULE PortQueue -----------------------------
(***************************************************************************)
(* The packets of one port (object/port_dispatcher.cc): packets_ under the *)
(* port's lock, interrupt_packets_ under its spinlock, and the semaphore   *)
(* that threads in Dequeue wait on.  A packet is pushed first and posted   *)
(* after the lock is dropped; cancelation and the closing of the port take *)
(* packets away without taking their permits.                              *)
(*                                                                         *)
(* The semaphore is used through what CountingSemaphore promises of it,    *)
(* which Semaphore implements.  Who destroys the observer a packet belongs *)
(* to is in PortObserver.                                                  *)
(***************************************************************************)
EXTENDS Integers, Sequences, FiniteSets

CONSTANTS Threads,
          None,              \* no thread, packet or key
          UserPackets,       \* ephemeral packets, allocated by QueueUser
          KernelPackets,     \* packets embedded in a kernel object
          InterruptPackets,
          KeyOf,             \* the key of each user or kernel packet
          BindToInterrupt,   \* the port was made with that option
          MaxPackets,        \* kMaxAllocatedPacketCountPerPort
          MaxPosts,          \* bound: calls that push a packet
          Servers            \* threads that call Dequeue for ever, with no
                             \* deadline

Packets == UserPackets \cup KernelPackets
PacketKeys == {KeyOf[p] : p \in Packets}

ASSUME ThreadsAssumption == None \notin Threads /\ IsFiniteSet(Threads)
ASSUME PacketsAssumption ==
  /\ UserPackets \cap KernelPackets = {}
  /\ None \notin Packets \cup PacketKeys
  /\ DOMAIN KeyOf = Packets
ASSUME BoundsAssumption ==
  /\ BindToInterrupt \in BOOLEAN
  /\ MaxPackets \in Nat
  /\ MaxPosts \in Nat
  /\ Servers \subseteq Threads

VARIABLES packets,      \* packets_
          ipackets,     \* interrupt_packets_
          sema,         \* permits stored in sema_
          waiting,      \* threads blocked on sema_
          ephemeral,    \* num_ephemeral_packets_
          zeroHandles,  \* zero_handles_
          plock,        \* holder of the port's lock across steps
          alloc,        \* user packets that are allocated
          abandoned,    \* user packets a CancelKey removed and did not free
          pc, cur, key, \* each thread's place, packet and key at hand
          posts         \* calls that push a packet so far

queueVars == <<packets, ephemeral, zeroHandles, plock>>
memVars == <<alloc, abandoned>>
semaVars == <<sema, waiting>>
vars == <<queueVars, ipackets, semaVars, memVars, pc, cur, key, posts>>

Sema == INSTANCE CountingSemaphore WITH value <- sema

Pcs == {"idle", "queue", "post", "blocked", "dq_irq", "dq_pkt", "dq_free",
        "dq_again", "cancel_key", "cancel_handle", "zero", "zero_free"}

\* The places at which cur is a packet only this thread refers to.
HoldPcs == {"queue", "dq_free", "zero_free"}
CancelPcs == {"cancel_key", "cancel_handle"}

In(p, s) == \E i \in 1..Len(s) : s[i] = p
At(S) == {t \in Threads : pc[t] \in S}

\* Type correctness, and: the threads on the semaphore's queue are the ones
\* in Dequeue without a permit; the port's lock is held across steps by the
\* thread that walks packets_.
TypeOK ==
  /\ packets \in Seq(Packets)
  /\ ipackets \in Seq(InterruptPackets)
  /\ sema \in Nat
  /\ waiting = At({"blocked"})
  /\ ephemeral \in Int
  /\ zeroHandles \in BOOLEAN
  /\ plock \in Threads \cup {None}
  /\ alloc \in SUBSET UserPackets
  /\ abandoned \in SUBSET UserPackets
  /\ pc \in [Threads -> Pcs]
  /\ cur \in [Threads -> Packets \cup {None}]
  /\ key \in [Threads -> PacketKeys \cup {None}]
  /\ posts \in 0..MaxPosts
  /\ \A t \in Threads : plock = t <=> pc[t] \in CancelPcs

Init ==
  /\ packets = <<>>
  /\ ipackets = <<>>
  /\ sema = 0
  /\ waiting = {}
  /\ ephemeral = 0
  /\ zeroHandles = FALSE
  /\ plock = None
  /\ alloc = {}
  /\ abandoned = {}
  /\ pc = [t \in Threads |-> "idle"]
  /\ cur = [t \in Threads |-> None]
  /\ key = [t \in Threads |-> None]
  /\ posts = 0

Goto(t, place) == pc' = [pc EXCEPT ![t] = place]
User(p) == IF p \in UserPackets THEN 1 ELSE 0
RemoveIndex(s, i) == SubSeq(s, 1, i - 1) \o SubSeq(s, i + 1, Len(s))

-----------------------------------------------------------------------------
(* Queueing *)

\* PortDispatcher::QueueUser allocates an ephemeral packet.
QueueUser(t, p) ==
  /\ pc[t] = "idle"
  /\ posts < MaxPosts
  /\ p \in UserPackets \ alloc
  /\ alloc' = alloc \cup {p}
  /\ cur' = [cur EXCEPT ![t] = p]
  /\ posts' = posts + 1
  /\ Goto(t, "queue")
  /\ UNCHANGED <<queueVars, ipackets, semaVars, abandoned, key>>

\* An observer, a pager or a guest trap queues the packet it contains,
\* which is not queued.
QueueKernel(t, p) ==
  /\ pc[t] = "idle"
  /\ posts < MaxPosts
  /\ p \in KernelPackets
  /\ ~In(p, packets)
  /\ \A u \in Threads : cur[u] # p
  /\ cur' = [cur EXCEPT ![t] = p]
  /\ posts' = posts + 1
  /\ Goto(t, "queue")
  /\ UNCHANGED <<queueVars, ipackets, semaVars, memVars, key>>

OverLimit(p) == p \in UserPackets /\ ephemeral > MaxPackets

\* PortDispatcher::Queue under the lock; QueueUser frees a refused packet.
Queue(t) ==
  LET p == cur[t]
  IN /\ pc[t] = "queue"
     /\ plock = None
     /\ cur' = [cur EXCEPT ![t] = None]
     /\ IF zeroHandles \/ OverLimit(p)
          THEN /\ alloc' = alloc \ {p}
               /\ Goto(t, "idle")
               /\ UNCHANGED <<packets, ephemeral>>
          ELSE /\ packets' = Append(packets, p)
               /\ ephemeral' = ephemeral + User(p)
               /\ Goto(t, "post")
               /\ UNCHANGED alloc
     /\ UNCHANGED <<zeroHandles, plock, ipackets, semaVars, abandoned, key,
                    posts>>

\* PortDispatcher::QueueInterruptPacket under the spinlock; a packet that is
\* already queued is left alone.
QueueInterruptPacket(t, i) ==
  /\ pc[t] = "idle"
  /\ posts < MaxPosts
  /\ BindToInterrupt
  /\ ~In(i, ipackets)
  /\ ipackets' = Append(ipackets, i)
  /\ Goto(t, "post")
  /\ posts' = posts + 1
  /\ UNCHANGED <<queueVars, semaVars, memVars, cur, key>>

\* The semaphore's Post, after the lock or the spinlock was dropped.
Post(t) ==
  /\ pc[t] = "post"
  /\ \/ /\ Sema!Store
        /\ Goto(t, "idle")
     \/ /\ Sema!Admit
        /\ pc' = [u \in Threads |-> IF u = t THEN "idle"
                                    ELSE IF u \in waiting \ waiting' THEN "dq_irq"
                                    ELSE pc[u]]
  /\ UNCHANGED <<queueVars, ipackets, memVars, cur, key, posts>>

-----------------------------------------------------------------------------
(* PortDispatcher::Dequeue *)

\* Wait for a permit, at the start of a call or of another turn of its loop.
DequeueWait(t) ==
  /\ pc[t] \in {"idle", "dq_again"}
  /\ \/ /\ Sema!Take
        /\ Goto(t, "dq_irq")
     \/ /\ Sema!Block
        /\ waiting' = waiting \cup {t}
        /\ Goto(t, "blocked")
  /\ UNCHANGED <<queueVars, ipackets, memVars, cur, key, posts>>

\* The deadline passes, or the thread is suspended or killed.
DequeueTimedOut(t) ==
  /\ pc[t] = "blocked"
  /\ t \notin Servers
  /\ Sema!GiveUp
  /\ waiting' = waiting \ {t}
  /\ Goto(t, "idle")
  /\ UNCHANGED <<queueVars, ipackets, memVars, cur, key, posts>>

\* Mutant: on a port bound to an interrupt, a thread that finds no interrupt
\* packet goes back to waiting without a look at packets_.
DequeueInterruptOnly(t) ==
  /\ pc[t] = "dq_irq"
  /\ IF BindToInterrupt /\ ipackets # <<>>
       THEN ipackets' = Tail(ipackets) /\ Goto(t, "idle")
       ELSE Goto(t, IF BindToInterrupt THEN "dq_again" ELSE "dq_pkt")
            /\ UNCHANGED ipackets
  /\ UNCHANGED <<queueVars, semaVars, memVars, cur, key, posts>>

\* Interrupt packets go first.
DequeueInterrupt(t) ==
  /\ pc[t] = "dq_irq"
  /\ IF BindToInterrupt /\ ipackets # <<>>
       THEN ipackets' = Tail(ipackets) /\ Goto(t, "idle")
       ELSE Goto(t, "dq_pkt") /\ UNCHANGED ipackets
  /\ UNCHANGED <<queueVars, semaVars, memVars, cur, key, posts>>

\* Then the others; with both queues empty the packet was taken away in the
\* meantime and the call waits again.
DequeuePacket(t) ==
  /\ pc[t] = "dq_pkt"
  /\ plock = None
  /\ IF packets = <<>>
       THEN Goto(t, "dq_again") /\ UNCHANGED <<packets, ephemeral, cur>>
       ELSE /\ packets' = Tail(packets)
            /\ ephemeral' = ephemeral - User(Head(packets))
            /\ IF Head(packets) \in UserPackets
                 THEN /\ cur' = [cur EXCEPT ![t] = Head(packets)]
                      /\ Goto(t, "dq_free")
                 ELSE Goto(t, "idle") /\ UNCHANGED cur
  /\ UNCHANGED <<zeroHandles, plock, ipackets, semaVars, memVars, key, posts>>

\* An ephemeral packet is freed after the lock is dropped.
DequeueFree(t) ==
  /\ pc[t] = "dq_free"
  /\ alloc' = alloc \ {cur[t]}
  /\ cur' = [cur EXCEPT ![t] = None]
  /\ Goto(t, "idle")
  /\ UNCHANGED <<queueVars, ipackets, semaVars, abandoned, key, posts>>

-----------------------------------------------------------------------------
(* Taking packets away *)

\* PortDispatcher::RemoveInterruptPacket, when the packet is queued.
RemoveInterruptPacket(t, i) ==
  /\ pc[t] = "idle"
  /\ i \in 1..Len(ipackets)
  /\ ipackets' = RemoveIndex(ipackets, i)
  /\ UNCHANGED <<queueVars, semaVars, memVars, pc, cur, key, posts>>

\* PortDispatcher::CancelQueued(port_packet), when the packet is queued.
CancelQueued(t, i) ==
  /\ pc[t] = "idle"
  /\ plock = None
  /\ i \in 1..Len(packets)
  /\ packets[i] \in KernelPackets
  /\ packets' = RemoveIndex(packets, i)
  /\ UNCHANGED <<ephemeral, zeroHandles, plock, ipackets, semaVars, memVars,
                 pc, cur, key, posts>>

\* CancelKey, or CancelQueued(handle, key), takes the lock and walks
\* packets_ in CancelQueuedPacketsLocked.  An empty queue is left as it is.
CancelBegin(t, k, place) ==
  /\ pc[t] = "idle"
  /\ plock = None
  /\ packets # <<>>
  /\ plock' = t
  /\ key' = [key EXCEPT ![t] = k]
  /\ Goto(t, place)
  /\ UNCHANGED <<packets, ephemeral, zeroHandles, ipackets, semaVars, memVars,
                 cur, posts>>

\* CancelKey passes no handle and matches any packet of the key; with a
\* handle only packets made for it match, which user packets are not.
Cancels(t, p) ==
  KeyOf[p] = key[t] /\ (pc[t] = "cancel_handle" => p \in KernelPackets)

\* Remove the next match.  An ephemeral packet is not freed.
CancelNext(t, i) ==
  /\ pc[t] \in CancelPcs
  /\ i \in 1..Len(packets)
  /\ Cancels(t, packets[i])
  /\ \A j \in 1..(i - 1) : ~Cancels(t, packets[j])
  /\ packets' = RemoveIndex(packets, i)
  /\ ephemeral' = ephemeral - User(packets[i])
  /\ abandoned' = abandoned \cup ({packets[i]} \cap UserPackets)
  /\ UNCHANGED <<zeroHandles, plock, ipackets, semaVars, alloc, pc, cur, key,
                 posts>>

CancelEnd(t) ==
  /\ pc[t] \in CancelPcs
  /\ \A i \in 1..Len(packets) : ~Cancels(t, packets[i])
  /\ plock' = None
  /\ key' = [key EXCEPT ![t] = None]
  /\ Goto(t, "idle")
  /\ UNCHANGED <<packets, ephemeral, zeroHandles, ipackets, semaVars, memVars,
                 cur, posts>>

-----------------------------------------------------------------------------
(* PortDispatcher::on_zero_handles, the packets *)

OnZeroHandles(t) ==
  /\ pc[t] = "idle"
  /\ plock = None
  /\ ~zeroHandles
  /\ zeroHandles' = TRUE
  /\ Goto(t, "zero")
  /\ UNCHANGED <<packets, ephemeral, plock, ipackets, semaVars, memVars, cur,
                 key, posts>>

\* Mutant: the loop stops at the first packet that is not ephemeral.
ZeroHandlesNextStops(t) ==
  /\ pc[t] = "zero"
  /\ plock = None
  /\ IF packets = <<>> \/ Head(packets) \notin UserPackets
       THEN Goto(t, "idle") /\ UNCHANGED <<packets, ephemeral, cur>>
       ELSE /\ packets' = Tail(packets)
            /\ ephemeral' = ephemeral - User(Head(packets))
            /\ cur' = [cur EXCEPT ![t] = Head(packets)]
            /\ Goto(t, "zero_free")
  /\ UNCHANGED <<zeroHandles, plock, ipackets, semaVars, memVars, key, posts>>

\* Pop the next packet; the lock is dropped to free an ephemeral one.
ZeroHandlesNext(t) ==
  /\ pc[t] = "zero"
  /\ plock = None
  /\ IF packets = <<>>
       THEN Goto(t, "idle") /\ UNCHANGED <<packets, ephemeral, cur>>
       ELSE /\ packets' = Tail(packets)
            /\ ephemeral' = ephemeral - User(Head(packets))
            /\ IF Head(packets) \in UserPackets
                 THEN /\ cur' = [cur EXCEPT ![t] = Head(packets)]
                      /\ Goto(t, "zero_free")
                 ELSE UNCHANGED <<pc, cur>>
  /\ UNCHANGED <<zeroHandles, plock, ipackets, semaVars, memVars, key, posts>>

ZeroHandlesFree(t) ==
  /\ pc[t] = "zero_free"
  /\ alloc' = alloc \ {cur[t]}
  /\ cur' = [cur EXCEPT ![t] = None]
  /\ Goto(t, "zero")
  /\ UNCHANGED <<queueVars, ipackets, semaVars, abandoned, key, posts>>

-----------------------------------------------------------------------------

Push(t) ==
  \/ \E p \in UserPackets : QueueUser(t, p)
  \/ \E p \in KernelPackets : QueueKernel(t, p)
  \/ Queue(t)
  \/ \E i \in InterruptPackets : QueueInterruptPacket(t, i)
  \/ Post(t)

Dequeue(t) ==
  \/ DequeueWait(t)
  \/ DequeueTimedOut(t)
  \/ DequeueInterrupt(t)
  \/ DequeuePacket(t)
  \/ DequeueFree(t)

TakeAway(t) ==
  \/ \E i \in 1..Len(ipackets) : RemoveInterruptPacket(t, i)
  \/ \E i \in 1..Len(packets) : CancelQueued(t, i)
  \/ \E k \in PacketKeys, place \in CancelPcs : CancelBegin(t, k, place)
  \/ \E i \in 1..Len(packets) : CancelNext(t, i)
  \/ CancelEnd(t)
  \/ OnZeroHandles(t)
  \/ ZeroHandlesNext(t)
  \/ ZeroHandlesFree(t)

\* The server threads do nothing else.
Next ==
  \/ \E t \in Threads : Dequeue(t)
  \/ \E t \in Threads \ Servers : Push(t) \/ TakeAway(t)

Spec == Init /\ [][Next]_vars

\* A thread inside a call keeps running; the servers call again when a call
\* returns.  The port's lock is handed to a thread that waits for it.
FairSpec ==
  /\ Spec
  /\ \A t \in Threads \ Servers :
       /\ WF_vars(Post(t))
       /\ WF_vars(\E i \in 1..Len(packets) : CancelNext(t, i))
       /\ WF_vars(CancelEnd(t))
       /\ WF_vars(DequeueInterrupt(t))
       /\ SF_vars(DequeuePacket(t))
  /\ \A t \in Servers :
       /\ WF_vars(DequeueWait(t) \/ DequeueInterrupt(t) \/ DequeueFree(t))
       /\ SF_vars(DequeuePacket(t))

-----------------------------------------------------------------------------
(* Properties *)

\* The counting argument behind Dequeue's two looks with one permit: there
\* is a permit, stored, about to be posted or in a thread's hands, for every
\* packet, and one in time to look at interrupt_packets_ for every interrupt
\* packet.
PermitPerPacket ==
  /\ Len(ipackets) <= sema + Cardinality(At({"post", "dq_irq"}))
  /\ Len(packets) + Len(ipackets)
       <= sema + Cardinality(At({"post", "dq_irq", "dq_pkt"}))

\* No packet is left on a queue while a thread sleeps in Dequeue, unless
\* some thread is on its way to post for it or to take it.
NoStrandedPacket ==
  waiting # {} /\ At({"post", "dq_irq", "dq_pkt"}) = {} =>
    packets = <<>> /\ ipackets = <<>>

\* num_ephemeral_packets_ is the number of ephemeral packets on packets_,
\* through every path that takes one off.
EphemeralCounted ==
  ephemeral = Cardinality({i \in 1..Len(packets) : packets[i] \in UserPackets})

\* The limit is enforced, at one more than its value: Queue refuses when the
\* count is over it, not at it.
EphemeralBounded == ephemeral <= MaxPackets + 1

\* An allocated user packet is on packets_ once, or in the hands of one
\* thread, or was removed by CancelKey, which does not free it; a free one
\* is nowhere.
PacketHeldOnce ==
  \A p \in UserPackets :
    LET places == {<<"queue", i>> : i \in {j \in 1..Len(packets) : packets[j] = p}}
                  \cup {<<"thread", t>> : t \in {u \in At(HoldPcs) : cur[u] = p}}
                  \cup {<<"abandoned", q>> : q \in abandoned \cap {p}}
    IN Cardinality(places) = IF p \in alloc THEN 1 ELSE 0

\* Once on_zero_handles has returned, packets_ stays empty and the counter
\* is zero, as the destructor asserts, whatever calls were under way.
ClosedPortEmpty ==
  zeroHandles /\ At({"zero", "zero_free"}) = {} =>
    packets = <<>> /\ ephemeral = 0

\* A packet does not stay on a port that some thread serves.
PacketsServed ==
  /\ \A p \in Packets : []<>~In(p, packets)
  /\ \A i \in InterruptPackets : []<>~In(i, ipackets)

\* The port accounts for its packets: a permit for each, the ephemeral ones
\* counted, bounded and held once, none left on a closed port.
PortConsistent ==
  /\ TypeOK /\ PermitPerPacket /\ EphemeralCounted /\ EphemeralBounded
  /\ PacketHeldOnce /\ ClosedPortEmpty
=============================================================================
