-------------------------- MODULE InterruptProofs --------------------------
(***************************************************************************)
(* Proofs about Interrupt, for any set of threads and any number of        *)
(* interrupts.                                                             *)
(***************************************************************************)
EXTENDS Interrupt, TLAPS

-----------------------------------------------------------------------------
(* The inductive invariant *)

Unmasking == {"wait_unmask", "ack_unmask"}
Deferred == "UNMASK_PREWAIT_UNLOCKED" \in flags
InLoop == \E t \in IrqThreads : ipc[t] = "wait_loop"

\* Before Create nothing has happened.
NotCreated ==
  ~Created => /\ ~registered /\ istate = "IDLE" /\ timestamp = 0
              /\ ~bound /\ ~packet /\ ~owed /\ deferUnmask = {}
              /\ \A t \in IrqThreads : ipc[t] = "idle"

\* The handler does not run once a Destroy has reached the lock.
Unregistered ==
  /\ istate = "DESTROYED" => ~registered
  /\ \A t \in IrqThreads : ipc[t] = "destroy_lock" => ~registered

\* A queued packet is of a bound interrupt, and a timestamp is recorded beside
\* it only for the next Ack.
PacketBound ==
  packet => bound /\ (timestamp # 0 => istate \in {"NEEDACK", "DESTROYED"})

\* A wait finds what it is to deliver.
TriggeredSignaled == ~bound /\ istate = "TRIGGERED" => evSignaled \/ InLoop

\* Only a PCI interrupt has its unmask deferred.
OnlyDeferred ==
  ~Deferred => /\ deferUnmask = {}
               /\ \A t \in IrqThreads : ipc[t] \notin Unmasking

\* One deferred unmask is on its way at most, and until then the line stays
\* masked and no handler is under way, so that no interrupt comes before it.
UnmaskPending ==
  ~carried /\ BusMasks /\ istate # "DESTROYED" =>
    /\ timestamp # 0 => istate = "TRIGGERED"
    /\ istate \in {"TRIGGERED", "NEEDACK"} => ~fired
    /\ \A t \in IrqThreads : ipc[t] \in Unmasking =>
         /\ masked /\ ~fired /\ istate \in {"IDLE", "WAITING"}
         /\ \A u \in IrqThreads : ipc[u] \in Unmasking => u = t

\* An edge, virtual or unmaskable interrupt is masked at most to be destroyed.
EdgeUnmasked ==
  /\ Created /\ ~(Flag("MASK_POSTWAIT") \/ BusMasks)
  /\ istate # "DESTROYED" /\ ~Destroying
  => ~masked

InterruptIInv ==
  /\ InterruptTypeOK
  /\ NotCreated /\ Unregistered /\ BoundStates /\ SignaledNoWaiters
  /\ PacketBound /\ TriggeredSignaled /\ NoLostInterrupt
  /\ OnlyDeferred /\ UnmaskPending /\ EdgeUnmasked
  /\ MaskedWhileServiced /\ NotLeftMasked
-----------------------------------------------------------------------------
(* Every step keeps it *)

\* How the flags of the kinds go together.
LEMMA FlagFacts ==
  flags \in FlagSets \cup {{"NEW"}} =>
    /\ "UNMASK_PREWAIT" \in flags <=> "MASK_POSTWAIT" \in flags
    /\ "UNMASK_PREWAIT_UNLOCKED" \in flags =>
         "MASK_POSTWAIT" \notin flags /\ "VIRTUAL" \notin flags
    /\ "NOT_MASKABLE" \in flags => "UNMASK_PREWAIT_UNLOCKED" \in flags
    /\ "VIRTUAL" \in flags => "MASK_POSTWAIT" \notin flags
BY Zenon DEF FlagSets

\* The invariant holds in the initial state.
LEMMA InterruptInitIInv == InterruptInit => InterruptIInv
<1> SUFFICES ASSUME InterruptInit PROVE InterruptIInv
  OBVIOUS
<1> USE IrqBound DEF InterruptInit
<1>1. InterruptTypeOK
  <2>1. ipc \in [IrqThreads -> IrqPcs] /\ deferUnmask \subseteq IrqThreads
    BY Zenon DEF IrqPcs
  <2>2. evWaiters = {t \in IrqThreads : ipc[t] = "blocked"}
    OBVIOUS
  <2>3. /\ flags \in FlagSets \cup {{"NEW"}} /\ istate \in IrqStates
        /\ timestamp \in 0..MaxIrqs /\ irqs \in 0..MaxIrqs
    BY DEF IrqStates
  <2> QED
    BY <2>1, <2>2, <2>3, Zenon DEF InterruptTypeOK
<1>2. /\ NotCreated /\ Unregistered /\ BoundStates /\ SignaledNoWaiters /\ PacketBound
      /\ TriggeredSignaled /\ NoLostInterrupt
  BY Zenon DEF NotCreated, Unregistered, BoundStates, SignaledNoWaiters, PacketBound,
         TriggeredSignaled, NoLostInterrupt
<1>3. OnlyDeferred /\ UnmaskPending
  BY Zenon DEF OnlyDeferred, UnmaskPending, Unmasking, Deferred
<1>4. EdgeUnmasked /\ MaskedWhileServiced /\ NotLeftMasked
  BY Zenon DEF EdgeUnmasked, MaskedWhileServiced, NotLeftMasked, Created
<1> QED
  BY <1>1, <1>2, <1>3, <1>4, Zenon DEF InterruptIInv

\* Create chooses the flags and unmasks the line.
LEMMA InterruptCreateStep ==
  ASSUME InterruptIInv, InterruptCreate
  PROVE  InterruptIInv'
<1> USE IrqBound, FlagFacts DEF InterruptIInv, InterruptTypeOK, NotCreated, Created,
                                irqHw, irqEvent, irqDefer, Flag, BusMasks,
                                InterruptCreate
<1>1. InterruptTypeOK'
  BY ZenonT(40) DEF IrqPcs, IrqStates, FlagSets
<1>2. NotCreated' /\ Unregistered' /\ BoundStates' /\ SignaledNoWaiters' /\ PacketBound'
  <2>1. flags' # {"NEW"}
    BY Zenon DEF FlagSets
  <2> QED
    BY <2>1, Zenon DEF Unregistered, BoundStates, SignaledNoWaiters, PacketBound
<1>3. TriggeredSignaled' /\ NoLostInterrupt'
  BY Zenon DEF TriggeredSignaled, NoLostInterrupt, InLoop, BoundStates, Unregistered,
         PacketBound
<1>4. OnlyDeferred' /\ UnmaskPending'
  BY Zenon DEF OnlyDeferred, UnmaskPending, Unmasking, Deferred, MaskedWhileServiced,
         Unregistered
<1>5. EdgeUnmasked' /\ MaskedWhileServiced' /\ NotLeftMasked'
  BY Zenon DEF EdgeUnmasked, MaskedWhileServiced, NotLeftMasked, Destroying,
         Unmasking, Deferred, OnlyDeferred, UnmaskPending, BoundStates, Unregistered
<1> QED
  BY <1>1, <1>2, <1>3, <1>4, <1>5, Zenon

\* A turn of the loop of WaitForInterrupt.
LEMMA WaitTurnStep ==
  ASSUME InterruptIInv, NEW t \in IrqThreads, WaitTurn(t)
  PROVE  InterruptIInv'
<1> USE IrqBound, FlagFacts DEF InterruptIInv, InterruptTypeOK, NotCreated, Created,
                                irqHw, irqEvent, irqDefer, Flag, BusMasks,
                                WaitTurn, Ev!Unsignal
<1>1. InterruptTypeOK'
  <2>1. wakePending' \in BOOLEAN /\ masked' \in BOOLEAN /\ carried' \in BOOLEAN
    BY Zenon
  <2>2. ipc' \in [IrqThreads -> IrqPcs] /\ deferUnmask' \subseteq IrqThreads
    BY ZenonT(40) DEF IrqPcs
  <2>3. evWaiters' = {u \in IrqThreads : ipc'[u] = "blocked"}
    BY SMTT(30)
  <2>4. istate' \in IrqStates /\ timestamp' \in 0..MaxIrqs
    BY DEF IrqStates
  <2>5. evSignaled' \in BOOLEAN /\ owed' \in BOOLEAN
    BY ZenonT(40)
  <2> QED
    BY <2>1, <2>2, <2>3, <2>4, <2>5, Zenon
<1>2. NotCreated' /\ Unregistered' /\ BoundStates' /\ SignaledNoWaiters' /\ PacketBound'
  BY SMTT(30) DEF Unregistered, BoundStates, SignaledNoWaiters, PacketBound
<1>3. TriggeredSignaled' /\ NoLostInterrupt'
  BY DEF TriggeredSignaled, NoLostInterrupt, InLoop, BoundStates, Unregistered,
         PacketBound
<1>4. OnlyDeferred' /\ UnmaskPending'
  <2>1. OnlyDeferred'
    BY ZenonT(40) DEF OnlyDeferred, Unmasking, Deferred
  <2>2. UnmaskPending'
    <3>1. CASE istate' = istate
      BY <3>1, SMTT(30) DEF UnmaskPending, Unmasking, Deferred
    <3>2. CASE istate = "TRIGGERED" /\ istate' = "NEEDACK"
      BY <3>2 DEF UnmaskPending, Unmasking, Deferred
    <3>3. CASE istate = "NEEDACK" /\ istate' = "WAITING"
      BY <3>3, ZenonT(40) DEF UnmaskPending, Unmasking, Deferred, MaskedWhileServiced
    <3>4. CASE istate = "IDLE" /\ istate' = "WAITING"
      BY <3>4, ZenonT(120) DEF UnmaskPending, Unmasking, Deferred
    <3> QED
      BY <3>1, <3>2, <3>3, <3>4, Zenon
  <2> QED
    BY <2>1, <2>2, Zenon
<1>5. EdgeUnmasked' /\ MaskedWhileServiced' /\ NotLeftMasked'
  BY DEF EdgeUnmasked, MaskedWhileServiced, NotLeftMasked, Destroying,
         Unmasking, Deferred, OnlyDeferred, UnmaskPending, BoundStates, Unregistered
<1> QED
  BY <1>1, <1>2, <1>3, <1>4, <1>5, Zenon

\* The unmask a wait deferred.
LEMMA WaitUnmaskStep ==
  ASSUME InterruptIInv, NEW t \in IrqThreads, WaitUnmask(t)
  PROVE  InterruptIInv'
<1> USE IrqBound, FlagFacts DEF InterruptIInv, InterruptTypeOK, NotCreated, Created,
                                irqHw, irqEvent, irqDefer, Flag, BusMasks,
                                WaitUnmask, IrqGo
<1>1. InterruptTypeOK'
  BY ZenonT(120) DEF IrqPcs, IrqStates
<1>2. NotCreated' /\ Unregistered' /\ BoundStates' /\ SignaledNoWaiters' /\ PacketBound'
  BY Zenon DEF Unregistered, BoundStates, SignaledNoWaiters, PacketBound
<1>3. TriggeredSignaled' /\ NoLostInterrupt'
  BY Zenon DEF TriggeredSignaled, NoLostInterrupt, InLoop, BoundStates, Unregistered,
         PacketBound
<1>4. OnlyDeferred' /\ UnmaskPending'
  BY ZenonT(120) DEF OnlyDeferred, UnmaskPending, Unmasking, Deferred,
     MaskedWhileServiced,
         Unregistered
<1>5. EdgeUnmasked' /\ MaskedWhileServiced' /\ NotLeftMasked'
  BY Zenon DEF EdgeUnmasked, MaskedWhileServiced, NotLeftMasked, Destroying,
         Unmasking, Deferred, OnlyDeferred, UnmaskPending, BoundStates, Unregistered
<1> QED
  BY <1>1, <1>2, <1>3, <1>4, <1>5, Zenon

\* The wait for the event.
LEMMA WaitEventStep ==
  ASSUME InterruptIInv, NEW t \in IrqThreads, WaitEvent(t)
  PROVE  InterruptIInv'
<1> USE IrqBound, FlagFacts DEF InterruptIInv, InterruptTypeOK, NotCreated, Created,
                                irqHw, irqEvent, irqDefer, Flag, BusMasks,
                                WaitEvent, IrqGo, Ev!Block,
                                Ev!Pass
<1>1. InterruptTypeOK'
  <2>1. ipc' \in [IrqThreads -> IrqPcs]
    BY Zenon DEF IrqPcs
  <2>2. evWaiters' = {u \in IrqThreads : ipc'[u] = "blocked"}
    BY SMTT(30)
  <2> QED
    BY <2>1, <2>2, ZenonT(40)
<1>2. NotCreated' /\ Unregistered' /\ BoundStates' /\ SignaledNoWaiters' /\ PacketBound'
  BY DEF Unregistered, BoundStates, SignaledNoWaiters, PacketBound
<1>3. TriggeredSignaled' /\ NoLostInterrupt'
  BY ZenonT(40) DEF TriggeredSignaled, NoLostInterrupt, InLoop, BoundStates, Unregistered,
         PacketBound
<1>4. OnlyDeferred' /\ UnmaskPending'
  BY DEF OnlyDeferred, UnmaskPending, Unmasking, Deferred, MaskedWhileServiced,
         Unregistered
<1>5. EdgeUnmasked' /\ MaskedWhileServiced' /\ NotLeftMasked'
  BY ZenonT(40) DEF EdgeUnmasked, MaskedWhileServiced, NotLeftMasked, Destroying,
         Unmasking, Deferred, OnlyDeferred, UnmaskPending, BoundStates, Unregistered
<1> QED
  BY <1>1, <1>2, <1>3, <1>4, <1>5, Zenon

\* A wait is broken off.
LEMMA WaitInterruptedStep ==
  ASSUME InterruptIInv, NEW t \in IrqThreads, WaitInterrupted(t)
  PROVE  InterruptIInv'
<1> USE IrqBound, FlagFacts DEF InterruptIInv, InterruptTypeOK, NotCreated, Created,
                                irqHw, irqEvent, irqDefer, Flag, BusMasks,
                                WaitInterrupted, IrqGo,
                                Ev!Leave
<1>1. InterruptTypeOK'
  BY DEF IrqPcs, IrqStates
<1>2. NotCreated' /\ Unregistered' /\ BoundStates' /\ SignaledNoWaiters' /\ PacketBound'
  BY Zenon DEF Unregistered, BoundStates, SignaledNoWaiters, PacketBound
<1>3. TriggeredSignaled' /\ NoLostInterrupt'
  BY Zenon DEF TriggeredSignaled, NoLostInterrupt, InLoop, BoundStates, Unregistered,
         PacketBound
<1>4. OnlyDeferred' /\ UnmaskPending'
  BY DEF OnlyDeferred, UnmaskPending, Unmasking, Deferred, MaskedWhileServiced,
         Unregistered
<1>5. EdgeUnmasked' /\ MaskedWhileServiced' /\ NotLeftMasked'
  BY ZenonT(40) DEF EdgeUnmasked, MaskedWhileServiced, NotLeftMasked, Destroying,
         Unmasking, Deferred, OnlyDeferred, UnmaskPending, BoundStates, Unregistered
<1> QED
  BY <1>1, <1>2, <1>3, <1>4, <1>5, Zenon

\* A wait that was broken off puts the state back.
LEMMA WaitCancelStep ==
  ASSUME InterruptIInv, NEW t \in IrqThreads, WaitCancel(t)
  PROVE  InterruptIInv'
<1> USE IrqBound, FlagFacts DEF InterruptIInv, InterruptTypeOK, NotCreated, Created,
                                irqHw, irqEvent, irqDefer, Flag, BusMasks,
                                WaitCancel, IrqGo
<1>1. InterruptTypeOK'
  BY DEF IrqPcs, IrqStates
<1>2. NotCreated' /\ Unregistered' /\ BoundStates' /\ SignaledNoWaiters' /\ PacketBound'
  BY Zenon DEF Unregistered, BoundStates, SignaledNoWaiters, PacketBound
<1>3. TriggeredSignaled' /\ NoLostInterrupt'
  BY Zenon DEF TriggeredSignaled, NoLostInterrupt, InLoop, BoundStates, Unregistered,
         PacketBound
<1>4. OnlyDeferred' /\ UnmaskPending'
  BY ZenonT(120) DEF OnlyDeferred, UnmaskPending, Unmasking, Deferred,
     MaskedWhileServiced,
         Unregistered
<1>5. EdgeUnmasked' /\ MaskedWhileServiced' /\ NotLeftMasked'
  BY ZenonT(40) DEF EdgeUnmasked, MaskedWhileServiced, NotLeftMasked, Destroying,
         Unmasking, Deferred, OnlyDeferred, UnmaskPending, BoundStates, Unregistered
<1> QED
  BY <1>1, <1>2, <1>3, <1>4, <1>5, Zenon

\* The hardware raises the interrupt: the line of one being serviced is masked.
LEMMA IrqRaisedStep ==
  ASSUME InterruptIInv, IrqRaised
  PROVE  InterruptIInv'
<1> USE IrqBound, FlagFacts DEF InterruptIInv, InterruptTypeOK, NotCreated, Created,
                                irqHw, irqEvent, irqDefer, Flag, BusMasks, IrqRaised
<1>1. InterruptTypeOK'
  BY ZenonT(40) DEF IrqPcs, IrqStates
<1>2. NotCreated' /\ Unregistered' /\ BoundStates' /\ SignaledNoWaiters' /\ PacketBound'
  BY Zenon DEF Unregistered, BoundStates, SignaledNoWaiters, PacketBound
<1>3. TriggeredSignaled' /\ NoLostInterrupt'
  BY Zenon DEF TriggeredSignaled, NoLostInterrupt, InLoop
<1>4. OnlyDeferred' /\ UnmaskPending'
  BY Zenon DEF OnlyDeferred, UnmaskPending, Unmasking, Deferred, MaskedWhileServiced
<1>5. EdgeUnmasked' /\ MaskedWhileServiced' /\ NotLeftMasked'
  BY Zenon DEF EdgeUnmasked, MaskedWhileServiced, NotLeftMasked, Destroying
<1> QED
  BY <1>1, <1>2, <1>3, <1>4, <1>5, Zenon

\* The handler.
LEMMA InterruptHandlerStep ==
  ASSUME InterruptIInv, InterruptHandler
  PROVE  InterruptIInv'
<1>0. masked' \in BOOLEAN
  <2>1. masked' = (masked \/ BusMasks) \/ masked' = MaskedPostWait
    BY Zenon DEF InterruptHandler
  <2>2. (masked \/ BusMasks) \in BOOLEAN
    BY Zenon
  <2>3. MaskedPostWait \in BOOLEAN
    BY Zenon DEF MaskedPostWait
  <2> QED
    BY <2>1, <2>2, <2>3, Zenon
<1> USE IrqBound, FlagFacts DEF InterruptIInv, InterruptTypeOK, NotCreated, Created,
                                irqHw, irqEvent, irqDefer, Flag, BusMasks,
                                InterruptHandler, Fire,
                                SignalEvent, SendPacket, Ev!Signal, FirstOf,
                                MaskedPostWait
<1>1. InterruptTypeOK'
  <2>6. wakePending' \in BOOLEAN
    BY Zenon
  <2>5. packet' \in BOOLEAN
    BY ZenonT(40)
  <2>2. timestamp' \in 0..MaxIrqs /\ irqs' \in 0..MaxIrqs
    OBVIOUS
  <2>3. ipc' \in [IrqThreads -> IrqPcs]
    BY ZenonT(40) DEF IrqPcs
  <2>4. evWaiters' = {u \in IrqThreads : ipc'[u] = "blocked"}
    BY SMTT(30)
  <2> QED
    BY <1>0, <2>2, <2>3, <2>4, <2>5, <2>6, Zenon DEF IrqStates
<1>2. NotCreated' /\ Unregistered' /\ BoundStates' /\ SignaledNoWaiters' /\ PacketBound'
  BY SMTT(30) DEF Unregistered, BoundStates, SignaledNoWaiters, PacketBound
<1>3. TriggeredSignaled' /\ NoLostInterrupt'
  BY DEF TriggeredSignaled, NoLostInterrupt, InLoop, BoundStates, Unregistered,
         PacketBound
<1>4. OnlyDeferred' /\ UnmaskPending'
  BY ZenonT(40) DEF OnlyDeferred, UnmaskPending, Unmasking, Deferred, MaskedWhileServiced,
         Unregistered
<1>5. EdgeUnmasked' /\ MaskedWhileServiced' /\ NotLeftMasked'
  <2>1. EdgeUnmasked'
    BY Zenon DEF EdgeUnmasked, Destroying, Unregistered
  <2>2. MaskedWhileServiced'
    BY Zenon DEF MaskedWhileServiced
  <2>3. NotLeftMasked'
    BY Zenon DEF NotLeftMasked, Destroying, Unmasking
  <2> QED
    BY <2>1, <2>2, <2>3, Zenon
<1> QED
  BY <1>1, <1>2, <1>3, <1>4, <1>5, Zenon

\* A virtual interrupt is triggered.
LEMMA TriggerStep ==
  ASSUME InterruptIInv, NEW now \in {0, irqs + 1}, Trigger(now)
  PROVE  InterruptIInv'
<1> USE IrqBound, FlagFacts DEF InterruptIInv, InterruptTypeOK, NotCreated, Created,
                                irqHw, irqEvent, irqDefer, Flag, BusMasks,
                                Trigger, Fire, SignalEvent,
                                SendPacket, Ev!Signal, FirstOf
<1>1. InterruptTypeOK'
  <2>1. owed' \in BOOLEAN /\ packet' \in BOOLEAN /\ evSignaled' \in BOOLEAN
    BY Zenon
  <2>2. timestamp' \in 0..MaxIrqs /\ irqs' \in 0..MaxIrqs
    OBVIOUS
  <2>3. ipc' \in [IrqThreads -> IrqPcs]
    BY ZenonT(40) DEF IrqPcs
  <2>4. evWaiters' = {u \in IrqThreads : ipc'[u] = "blocked"}
    BY SMTT(30)
  <2> QED
    BY <2>1, <2>2, <2>3, <2>4, ZenonT(40) DEF IrqStates
<1>2. NotCreated' /\ Unregistered' /\ BoundStates' /\ SignaledNoWaiters' /\ PacketBound'
  BY SMTT(30) DEF Unregistered, BoundStates, SignaledNoWaiters, PacketBound
<1>3. TriggeredSignaled' /\ NoLostInterrupt'
  BY DEF TriggeredSignaled, NoLostInterrupt, InLoop, BoundStates, Unregistered,
         PacketBound
<1>4. OnlyDeferred' /\ UnmaskPending'
  BY ZenonT(40) DEF OnlyDeferred, UnmaskPending, Unmasking, Deferred, MaskedWhileServiced,
         Unregistered
<1>5. EdgeUnmasked' /\ MaskedWhileServiced' /\ NotLeftMasked'
  BY DEF EdgeUnmasked, MaskedWhileServiced, NotLeftMasked, Destroying,
         Unmasking, Deferred, OnlyDeferred, UnmaskPending, BoundStates, Unregistered
<1> QED
  BY <1>1, <1>2, <1>3, <1>4, <1>5, ZenonT(40)

\* The packet is taken off the port.
LEMMA InterruptPacketTakenStep ==
  ASSUME InterruptIInv, InterruptPacketTaken
  PROVE  InterruptIInv'
<1> USE IrqBound, FlagFacts DEF InterruptIInv, InterruptTypeOK, NotCreated, Created,
                                irqHw, irqEvent, irqDefer, Flag, BusMasks,
                                InterruptPacketTaken
<1>1. InterruptTypeOK'
  BY ZenonT(40) DEF IrqPcs, IrqStates
<1>2. NotCreated' /\ Unregistered' /\ BoundStates' /\ SignaledNoWaiters' /\ PacketBound'
  BY Zenon DEF Unregistered, BoundStates, SignaledNoWaiters, PacketBound
<1>3. TriggeredSignaled' /\ NoLostInterrupt'
  BY Zenon DEF TriggeredSignaled, NoLostInterrupt, InLoop, BoundStates, Unregistered,
         PacketBound
<1>4. OnlyDeferred' /\ UnmaskPending'
  BY Zenon DEF OnlyDeferred, UnmaskPending, Unmasking, Deferred, MaskedWhileServiced,
         Unregistered
<1>5. EdgeUnmasked' /\ MaskedWhileServiced' /\ NotLeftMasked'
  BY Zenon DEF EdgeUnmasked, MaskedWhileServiced, NotLeftMasked, Destroying,
         Unmasking, Deferred, OnlyDeferred, UnmaskPending, BoundStates, Unregistered
<1> QED
  BY <1>1, <1>2, <1>3, <1>4, <1>5, ZenonT(40)

\* Bind, which may find an interrupt to send.
LEMMA BindStep ==
  ASSUME InterruptIInv, Bind
  PROVE  InterruptIInv'
<1> USE IrqBound, FlagFacts DEF InterruptIInv, InterruptTypeOK, NotCreated, Created,
                                irqHw, irqEvent, irqDefer, Flag, BusMasks,
                                Bind, Bindable, SendPacket
<1>1. InterruptTypeOK'
  <2>1. masked' \in BOOLEAN /\ packet' \in BOOLEAN
    BY Zenon
  <2> QED
    BY <2>1 DEF IrqStates
<1>2. NotCreated' /\ Unregistered' /\ BoundStates' /\ SignaledNoWaiters' /\ PacketBound'
  <2>1. NotCreated' /\ Unregistered' /\ SignaledNoWaiters'
    BY ZenonT(40) DEF Unregistered, SignaledNoWaiters
  <2>2. BoundStates' /\ PacketBound'
    BY DEF BoundStates, PacketBound, IrqStates
  <2> QED
    BY <2>1, <2>2, Zenon
<1>3. TriggeredSignaled' /\ NoLostInterrupt'
  BY ZenonT(40) DEF TriggeredSignaled, NoLostInterrupt, InLoop, BoundStates, Unregistered,
         PacketBound
<1>4. OnlyDeferred' /\ UnmaskPending'
  BY SMTT(30) DEF OnlyDeferred, UnmaskPending, Unmasking, Deferred, MaskedWhileServiced,
         Unregistered
<1>5. EdgeUnmasked' /\ MaskedWhileServiced' /\ NotLeftMasked'
  BY DEF EdgeUnmasked, MaskedWhileServiced, NotLeftMasked, Destroying,
         Unmasking, Deferred, OnlyDeferred, UnmaskPending, BoundStates, Unregistered
<1> QED
  BY <1>1, <1>2, <1>3, <1>4, <1>5, Zenon

\* Unbind.
LEMMA UnbindStep ==
  ASSUME InterruptIInv, Unbind
  PROVE  InterruptIInv'
<1> USE IrqBound, FlagFacts DEF InterruptIInv, InterruptTypeOK, NotCreated, Created,
                                irqHw, irqEvent, irqDefer, Flag, BusMasks, Unbind
<1>1. InterruptTypeOK'
  BY ZenonT(40) DEF IrqPcs, IrqStates
<1>2. NotCreated' /\ Unregistered' /\ BoundStates' /\ SignaledNoWaiters' /\ PacketBound'
  BY Zenon DEF Unregistered, BoundStates, SignaledNoWaiters, PacketBound
<1>3. TriggeredSignaled' /\ NoLostInterrupt'
  BY Zenon DEF TriggeredSignaled, NoLostInterrupt, InLoop, BoundStates, Unregistered,
         PacketBound
<1>4. OnlyDeferred' /\ UnmaskPending'
  BY ZenonT(40) DEF OnlyDeferred, UnmaskPending, Unmasking, Deferred, MaskedWhileServiced,
         Unregistered
<1>5. EdgeUnmasked' /\ MaskedWhileServiced' /\ NotLeftMasked'
  BY Zenon DEF EdgeUnmasked, MaskedWhileServiced, NotLeftMasked, Destroying,
         Unmasking, Deferred, OnlyDeferred, UnmaskPending, BoundStates, Unregistered
<1> QED
  BY <1>1, <1>2, <1>3, <1>4, <1>5, ZenonT(40)

\* Ack, which may find the next interrupt to send.
LEMMA AckStep ==
  ASSUME InterruptIInv, NEW t \in IrqThreads, Ack(t)
  PROVE  InterruptIInv'
<1> USE IrqBound, FlagFacts DEF InterruptIInv, InterruptTypeOK, NotCreated, Created,
                                irqHw, irqEvent, irqDefer, Flag, BusMasks,
                                Ack, SendPacket
<1>1. InterruptTypeOK'
  <2>1. masked' \in BOOLEAN /\ packet' \in BOOLEAN
    BY Zenon
  <2>2. ipc' \in [IrqThreads -> IrqPcs]
    BY ZenonT(40) DEF IrqPcs
  <2>3. evWaiters' = {u \in IrqThreads : ipc'[u] = "blocked"}
    OBVIOUS
  <2>4. istate' \in {istate, "IDLE"} /\ timestamp' \in {timestamp, 0}
    BY Zenon
  <2>5. wakePending' \in BOOLEAN
    BY Zenon
  <2> QED
    BY <2>1, <2>2, <2>3, <2>4, <2>5 DEF IrqStates
<1>2. NotCreated' /\ Unregistered' /\ BoundStates' /\ SignaledNoWaiters' /\ PacketBound'
  BY ZenonT(40) DEF Unregistered, BoundStates, SignaledNoWaiters, PacketBound
<1>3. TriggeredSignaled' /\ NoLostInterrupt'
  <2>1. TriggeredSignaled'
    BY Zenon DEF TriggeredSignaled
  <2>2. NoLostInterrupt'
    <3>1. CASE timestamp # 0
      BY <3>1, ZenonT(40) DEF NoLostInterrupt
    <3>2. CASE timestamp = 0
      <4>1. owed => packet
        BY <3>2, ZenonT(40) DEF NoLostInterrupt
      <4> QED
        BY <3>2, <4>1 DEF NoLostInterrupt
    <3> QED
      BY <3>1, <3>2, Zenon
  <2> QED
    BY <2>1, <2>2, Zenon
<1>4. OnlyDeferred' /\ UnmaskPending'
  BY ZenonT(40) DEF OnlyDeferred, UnmaskPending, Unmasking, Deferred, MaskedWhileServiced,
         Unregistered
<1>5. EdgeUnmasked' /\ MaskedWhileServiced' /\ NotLeftMasked'
  BY ZenonT(40) DEF EdgeUnmasked, MaskedWhileServiced, NotLeftMasked, Destroying,
         Unmasking, Deferred, OnlyDeferred, UnmaskPending, BoundStates, Unregistered
<1> QED
  BY <1>1, <1>2, <1>3, <1>4, <1>5, ZenonT(40)

\* The unmask an Ack deferred.
LEMMA AckUnmaskStep ==
  ASSUME InterruptIInv, NEW t \in IrqThreads, AckUnmask(t)
  PROVE  InterruptIInv'
<1> USE IrqBound, FlagFacts DEF InterruptIInv, InterruptTypeOK, NotCreated, Created,
                                irqHw, irqEvent, irqDefer, Flag, BusMasks,
                                AckUnmask, IrqGo
<1>1. InterruptTypeOK'
  BY ZenonT(120) DEF IrqPcs, IrqStates
<1>2. NotCreated' /\ Unregistered' /\ BoundStates' /\ SignaledNoWaiters' /\ PacketBound'
  BY ZenonT(40) DEF Unregistered, BoundStates, SignaledNoWaiters, PacketBound
<1>3. TriggeredSignaled' /\ NoLostInterrupt'
  BY Zenon DEF TriggeredSignaled, NoLostInterrupt, InLoop, BoundStates, Unregistered,
         PacketBound
<1>4. OnlyDeferred' /\ UnmaskPending'
  BY ZenonT(40) DEF OnlyDeferred, UnmaskPending, Unmasking, Deferred, MaskedWhileServiced,
         Unregistered
<1>5. EdgeUnmasked' /\ MaskedWhileServiced' /\ NotLeftMasked'
  BY Zenon DEF EdgeUnmasked, MaskedWhileServiced, NotLeftMasked, Destroying,
         Unmasking, Deferred, OnlyDeferred, UnmaskPending, BoundStates, Unregistered
<1> QED
  BY <1>1, <1>2, <1>3, <1>4, <1>5, ZenonT(40)

\* Destroy masks the line.
LEMMA DestroyMaskStep ==
  ASSUME InterruptIInv, NEW t \in IrqThreads, DestroyMask(t)
  PROVE  InterruptIInv'
<1> USE IrqBound, FlagFacts DEF InterruptIInv, InterruptTypeOK, NotCreated, Created,
                                irqHw, irqEvent, irqDefer, Flag, BusMasks,
                                DestroyMask, IrqGo
<1>1. InterruptTypeOK'
  BY DEF IrqPcs, IrqStates
<1>2. NotCreated' /\ Unregistered' /\ BoundStates' /\ SignaledNoWaiters' /\ PacketBound'
  BY ZenonT(40) DEF Unregistered, BoundStates, SignaledNoWaiters, PacketBound
<1>3. TriggeredSignaled' /\ NoLostInterrupt'
  BY Zenon DEF TriggeredSignaled, NoLostInterrupt, InLoop, BoundStates, Unregistered,
         PacketBound
<1>4. OnlyDeferred' /\ UnmaskPending'
  BY SMTT(30) DEF OnlyDeferred, UnmaskPending, Unmasking, Deferred, MaskedWhileServiced,
         Unregistered
<1>5. EdgeUnmasked' /\ MaskedWhileServiced' /\ NotLeftMasked'
  BY ZenonT(40) DEF EdgeUnmasked, MaskedWhileServiced, NotLeftMasked, Destroying,
         Unmasking, Deferred, OnlyDeferred, UnmaskPending, BoundStates, Unregistered
<1> QED
  BY <1>1, <1>2, <1>3, <1>4, <1>5, ZenonT(40)

\* Destroy unregisters the handler.
LEMMA DestroyUnregisterStep ==
  ASSUME InterruptIInv, NEW t \in IrqThreads, DestroyUnregister(t)
  PROVE  InterruptIInv'
<1> USE IrqBound, FlagFacts DEF InterruptIInv, InterruptTypeOK, NotCreated, Created,
                                irqHw, irqEvent, irqDefer, Flag, BusMasks,
                                DestroyUnregister, IrqGo
<1>1. InterruptTypeOK'
  BY ZenonT(40) DEF IrqPcs, IrqStates
<1>2. NotCreated' /\ Unregistered' /\ BoundStates' /\ SignaledNoWaiters' /\ PacketBound'
  BY Zenon DEF Unregistered, BoundStates, SignaledNoWaiters, PacketBound
<1>3. TriggeredSignaled' /\ NoLostInterrupt'
  BY Zenon DEF TriggeredSignaled, NoLostInterrupt, InLoop, BoundStates, Unregistered,
         PacketBound
<1>4. OnlyDeferred' /\ UnmaskPending'
  BY ZenonT(40) DEF OnlyDeferred, UnmaskPending, Unmasking, Deferred, MaskedWhileServiced,
         Unregistered
<1>5. EdgeUnmasked' /\ MaskedWhileServiced' /\ NotLeftMasked'
  BY ZenonT(40) DEF EdgeUnmasked, MaskedWhileServiced, NotLeftMasked, Destroying,
         Unmasking, Deferred, OnlyDeferred, UnmaskPending, BoundStates, Unregistered
<1> QED
  BY <1>1, <1>2, <1>3, <1>4, <1>5, ZenonT(40)

\* Destroy under the lock.
LEMMA DestroyLockedStep ==
  ASSUME InterruptIInv, NEW t \in IrqThreads, DestroyLocked(t)
  PROVE  InterruptIInv'
<1> USE IrqBound, FlagFacts DEF InterruptIInv, InterruptTypeOK, NotCreated, Created,
                                irqHw, irqEvent, irqDefer, Flag, BusMasks,
                                DestroyLocked, Ev!Signal
<1>1. InterruptTypeOK'
  BY ZenonT(120) DEF IrqPcs, IrqStates
<1>2. NotCreated' /\ Unregistered' /\ BoundStates' /\ SignaledNoWaiters' /\ PacketBound'
  BY DEF Unregistered, BoundStates, SignaledNoWaiters, PacketBound
<1>3. TriggeredSignaled' /\ NoLostInterrupt'
  BY Zenon DEF TriggeredSignaled, NoLostInterrupt, InLoop, BoundStates, Unregistered,
         PacketBound
<1>4. OnlyDeferred' /\ UnmaskPending'
  BY ZenonT(120) DEF OnlyDeferred, UnmaskPending, Unmasking, Deferred,
     MaskedWhileServiced,
         Unregistered
<1>5. EdgeUnmasked' /\ MaskedWhileServiced' /\ NotLeftMasked'
  BY Zenon DEF EdgeUnmasked, MaskedWhileServiced, NotLeftMasked, Destroying,
         Unmasking, Deferred, OnlyDeferred, UnmaskPending, BoundStates, Unregistered
<1> QED
  BY <1>1, <1>2, <1>3, <1>4, <1>5, ZenonT(40)
-----------------------------------------------------------------------------
(* The theorems *)

\* Every step keeps the invariant.
LEMMA InterruptNextIInv == InterruptIInv /\ [InterruptNext]_irqVars => InterruptIInv'
<1> SUFFICES ASSUME InterruptIInv, [InterruptNext]_irqVars PROVE InterruptIInv'
  OBVIOUS
<1>1. CASE \/ InterruptCreate \/ IrqRaised \/ InterruptHandler \/ InterruptPacketTaken
           \/ Bind \/ Unbind
  BY <1>1, InterruptCreateStep, IrqRaisedStep, InterruptHandlerStep,
     InterruptPacketTakenStep, BindStep, UnbindStep, Zenon
<1>2. CASE \E now \in {0, irqs + 1} : Trigger(now)
  BY <1>2, TriggerStep, Zenon
<1>3. ASSUME NEW t \in IrqThreads,
             \/ WaitTurn(t) \/ WaitUnmask(t) \/ WaitEvent(t) \/ WaitInterrupted(t)
             \/ WaitCancel(t) \/ Ack(t) \/ AckUnmask(t)
             \/ DestroyMask(t) \/ DestroyUnregister(t) \/ DestroyLocked(t)
      PROVE  InterruptIInv'
  BY <1>3, WaitTurnStep, WaitUnmaskStep, WaitEventStep, WaitInterruptedStep,
     WaitCancelStep, AckStep, AckUnmaskStep, DestroyMaskStep, DestroyUnregisterStep,
     DestroyLockedStep, Zenon
<1>4. CASE UNCHANGED irqVars
  <2> USE <1>4 DEF irqVars, irqHw, irqEvent, irqDefer, InterruptIInv, Flag, BusMasks
  <2>1. InterruptTypeOK' /\ NotCreated' /\ Unregistered' /\ BoundStates' /\ PacketBound'
    BY ZenonT(120) DEF InterruptTypeOK, NotCreated, Created, Unregistered, BoundStates,
       PacketBound
  <2>2. SignaledNoWaiters' /\ TriggeredSignaled' /\ NoLostInterrupt'
    BY Zenon DEF SignaledNoWaiters, TriggeredSignaled, NoLostInterrupt, InLoop
  <2>3. OnlyDeferred' /\ UnmaskPending' /\ EdgeUnmasked'
    BY Zenon DEF OnlyDeferred, UnmaskPending, EdgeUnmasked, Deferred, Created, Destroying
  <2>4. MaskedWhileServiced' /\ NotLeftMasked'
    BY Zenon DEF MaskedWhileServiced, NotLeftMasked, Created, Destroying
  <2> QED
    BY <2>1, <2>2, <2>3, <2>4, Zenon
<1> QED
  BY <1>1, <1>2, <1>3, <1>4, Zenon DEF InterruptNext

\* The invariant holds throughout.
THEOREM InterruptInvariant == InterruptSpec => []InterruptIInv
BY InterruptInitIInv, InterruptNextIInv, PTL DEF InterruptSpec

\* interrupt_dispatcher.cc: whichever threads wait, ack, bind, unbind and
\* destroy, an interrupt stays queued, recorded or signaled until it has been
\* delivered.
THEOREM InterruptsNotLost == InterruptSpec => []NoLostInterrupt
<1>1. InterruptIInv => NoLostInterrupt
  BY Zenon DEF InterruptIInv
<1> QED
  BY <1>1, InterruptInvariant, PTL

\* interrupt_dispatcher.cc: state, event, binding and mask agree for every kind
\* of interrupt and any number of threads: one serviced is masked, and one that
\* can be delivered is not left masked.
THEOREM InterruptConsistentHolds == InterruptSpec => []InterruptConsistent
<1>1. InterruptIInv => InterruptConsistent
  BY Zenon DEF InterruptIInv, InterruptConsistent
<1> QED
  BY <1>1, InterruptInvariant, PTL
=============================================================================
