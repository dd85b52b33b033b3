----------------------------- MODULE Interrupt -----------------------------
(***************************************************************************)
(* InterruptDispatcher (object/interrupt_dispatcher.cc) with its four      *)
(* kinds (virtual, event, MSI, PCI), its event, the one packet it has on   *)
(* the port it is bound to, and the mask of the interrupt line.  A handler *)
(* may wait for spinlock_ while the line is masked.                        *)
(*                                                                         *)
(* Everything under spinlock_ is one action.  The steps outside it are     *)
(* actions of their own: the deferred unmask of WaitForInterrupt and Ack,  *)
(* the wait itself, and the three hardware calls that begin Destroy.       *)
(***************************************************************************)
EXTENDS Integers

CONSTANTS IrqThreads,    \* threads that use the interrupt
          MaxIrqs        \* bound: interrupts that happen

ASSUME IrqBound == MaxIrqs \in Nat

VARIABLES flags,         \* flags_, chosen by Create; {"NEW"} before it
          istate,        \* state_
          timestamp,     \* timestamp_; 0 is none
          bound,         \* port_dispatcher_ is set
          packet,        \* port_packet_ is on the port's list
          wakePending,   \* wake_event_ is pending
          masked,        \* the line is masked
          registered,    \* the handler is registered
          fired,         \* the interrupt is raised, its handler not through yet
          evSignaled, evWaiters,   \* event_
          ipc,           \* each thread's place
          deferUnmask,   \* threads whose wait has set defer_unmask
          irqs,          \* interrupts so far
          owed,          \* history: one came since the last was delivered
          carried        \* history: a wait unmasked for an earlier turn

irqHw == <<masked, registered, fired>>
irqEvent == <<evSignaled, evWaiters>>
irqDefer == <<deferUnmask, carried>>
irqVars == <<flags, istate, timestamp, bound, packet, wakePending, irqHw,
             irqEvent, ipc, irqs, owed, irqDefer>>

Ev == INSTANCE Event WITH AutoUnsignal <- TRUE, signaled <- evSignaled,
                          waiters <- evWaiters

IrqStates == {"WAITING", "DESTROYED", "TRIGGERED", "NEEDACK", "IDLE"}
IrqPcs == {"idle", "wait_unmask", "wait_event", "blocked", "wait_loop",
           "wait_cancel", "ack_unmask", "destroy_unregister", "destroy_lock"}

\* The flags the kinds are created with: a virtual interrupt; an edge or a
\* level interrupt, which may wake the system; MSI is as level; PCI, with
\* NOT_MASKABLE for ~maskable_.
FlagSets ==
  LET level == {"UNMASK_PREWAIT", "MASK_POSTWAIT"}
  IN  {{"VIRTUAL"}, {}, {"WAKE_VECTOR"}, level, level \cup {"WAKE_VECTOR"},
       {"UNMASK_PREWAIT_UNLOCKED"}, {"UNMASK_PREWAIT_UNLOCKED", "NOT_MASKABLE"}}

InterruptTypeOK ==
  /\ flags \in FlagSets \cup {{"NEW"}}
  /\ istate \in IrqStates
  /\ timestamp \in 0..MaxIrqs /\ irqs \in 0..MaxIrqs
  /\ bound \in BOOLEAN /\ packet \in BOOLEAN /\ wakePending \in BOOLEAN
  /\ masked \in BOOLEAN /\ registered \in BOOLEAN /\ fired \in BOOLEAN
  /\ evSignaled \in BOOLEAN
  /\ owed \in BOOLEAN /\ carried \in BOOLEAN
  /\ ipc \in [IrqThreads -> IrqPcs] /\ deferUnmask \subseteq IrqThreads
  /\ evWaiters = {t \in IrqThreads : ipc[t] = "blocked"}

InterruptInit ==
  /\ flags = {"NEW"} /\ istate = "IDLE" /\ timestamp = 0
  /\ bound = FALSE /\ packet = FALSE /\ wakePending = FALSE
  /\ masked = TRUE /\ registered = FALSE /\ fired = FALSE
  /\ evSignaled = FALSE /\ evWaiters = {}
  /\ ipc = [t \in IrqThreads |-> "idle"]
  /\ irqs = 0 /\ owed = FALSE
  /\ deferUnmask = {} /\ carried = FALSE

Flag(f) == f \in flags
IrqGo(t, from, to) == ipc[t] = from /\ ipc' = [ipc EXCEPT ![t] = to]
Created == flags # {"NEW"}

\* Create: flags, handler, unmask.
InterruptCreate ==
  /\ ~Created
  /\ flags' \in FlagSets
  /\ masked' = FALSE
  /\ registered' = ("VIRTUAL" \notin flags')
  /\ UNCHANGED <<istate, timestamp, bound, packet, wakePending, fired, irqEvent,
                 ipc, irqs, owed, irqDefer>>
-----------------------------------------------------------------------------
(* zx_interrupt_wait.                                                      *)

\* One turn of WaitForInterrupt's loop under the lock.  defer_unmask keeps
\* its value from one turn to the next.
WaitTurn(t) ==
  /\ Created
  /\ ipc[t] \in {"idle", "wait_loop"}
  /\ \/ /\ bound \/ istate \in {"DESTROYED", "WAITING"}   \* an error return
        /\ ipc' = [ipc EXCEPT ![t] = "idle"]
        /\ deferUnmask' = deferUnmask \ {t}
        /\ UNCHANGED <<istate, timestamp, wakePending, masked, irqEvent, owed,
                       carried>>
     \/ /\ ~bound /\ istate = "TRIGGERED"
        /\ istate' = "NEEDACK"
        /\ timestamp' = 0
        /\ Ev!Unsignal
        /\ owed' = FALSE
        /\ ipc' = [ipc EXCEPT ![t] = "idle"]
        /\ deferUnmask' = deferUnmask \ {t}
        /\ UNCHANGED <<wakePending, masked, carried>>
     \/ /\ ~bound /\ istate \in {"NEEDACK", "IDLE"}
        /\ istate' = "WAITING"
        /\ wakePending' = (wakePending /\ istate # "NEEDACK")
        /\ masked' = (masked /\ ~(istate = "NEEDACK" /\ Flag("UNMASK_PREWAIT")))
        /\ deferUnmask' = IF istate = "NEEDACK" /\ Flag("UNMASK_PREWAIT_UNLOCKED")
                          THEN deferUnmask \cup {t} ELSE deferUnmask
        /\ carried' = (carried \/ (istate = "IDLE" /\ t \in deferUnmask))
        /\ ipc' = [ipc EXCEPT ![t] =
              IF t \in deferUnmask' THEN "wait_unmask" ELSE "wait_event"]
        /\ UNCHANGED <<timestamp, irqEvent, owed>>
  /\ UNCHANGED <<flags, bound, packet, registered, fired, irqs>>

\* The unmask WaitForInterrupt defers until it has dropped the lock.
WaitUnmask(t) ==
  /\ IrqGo(t, "wait_unmask", "wait_event")
  /\ masked' = FALSE
  /\ UNCHANGED <<flags, istate, timestamp, bound, packet, wakePending,
                 registered, fired, irqEvent, irqs, owed, irqDefer>>

\* event_.Wait.
WaitEvent(t) ==
  /\ \/ Ev!Block(t) /\ IrqGo(t, "wait_event", "blocked")
     \/ Ev!Pass /\ IrqGo(t, "wait_event", "wait_loop")
  /\ UNCHANGED <<flags, istate, timestamp, bound, packet, wakePending, irqHw,
                 irqs, owed, irqDefer>>

\* The wait ends because the thread is suspended or killed.
WaitInterrupted(t) ==
  /\ Ev!Leave(t)
  /\ IrqGo(t, "blocked", "wait_cancel")
  /\ UNCHANGED <<flags, istate, timestamp, bound, packet, wakePending, irqHw,
                 irqs, owed, irqDefer>>

\* WaitForInterrupt puts the state back and returns the error.
WaitCancel(t) ==
  /\ IrqGo(t, "wait_cancel", "idle")
  /\ istate' = IF istate = "WAITING" THEN "IDLE" ELSE istate
  /\ deferUnmask' = deferUnmask \ {t}
  /\ UNCHANGED <<flags, timestamp, bound, packet, wakePending, irqHw,
                 irqEvent, irqs, owed, carried>>
-----------------------------------------------------------------------------
(* An interrupt happens.                                                   *)

\* event_.Signal, with the woken thread back in its loop.
SignalEvent ==
  /\ Ev!Signal
  /\ ipc' = [t \in IrqThreads |->
               IF t \in evWaiters \ evWaiters' THEN "wait_loop" ELSE ipc[t]]

\* SendPacketLocked: one packet at most is queued, and the recorded
\* timestamp is spent either way.
SendPacket ==
  /\ packet' = TRUE
  /\ timestamp' = 0

\* What InterruptHandler and Trigger do once the state allows it.  first is
\* the value timestamp_ has then.
Fire(first) ==
  \/ /\ bound
     /\ SendPacket
     /\ istate' = "NEEDACK"
     /\ UNCHANGED <<irqEvent, ipc>>
  \/ /\ ~bound
     /\ SignalEvent
     /\ istate' = "TRIGGERED"
     /\ timestamp' = first
     /\ UNCHANGED packet

\* Mutant: the timestamp of an earlier interrupt is kept.
FirstOfStale(now) == timestamp

\* timestamp_ of the first interrupt since the last was delivered.
FirstOf(now) == IF timestamp = 0 THEN now ELSE timestamp

\* The PCI bus masks the line itself, if it can, when it runs IrqThunk.
BusMasks == Flag("UNMASK_PREWAIT_UNLOCKED") /\ ~Flag("NOT_MASKABLE")

\* Mutant: an interrupt with MASK_POSTWAIT is not masked.
MaskedByBus == masked \/ BusMasks

\* The mask after InterruptHandler.
MaskedPostWait == masked \/ Flag("MASK_POSTWAIT") \/ BusMasks

\* The hardware raises the interrupt on a line that is not masked.
IrqRaised ==
  /\ registered /\ ~masked /\ ~fired /\ irqs < MaxIrqs
  /\ fired' = TRUE
  /\ UNCHANGED <<flags, istate, timestamp, bound, packet, wakePending, masked,
                 registered, irqEvent, ipc, irqs, owed, irqDefer>>

\* InterruptHandler, run by the platform while the handler is registered.  The
\* line may have been masked since, and a PCI bus looks at the mask again.
InterruptHandler ==
  /\ fired /\ registered /\ irqs < MaxIrqs
  /\ ~(masked /\ BusMasks)
  /\ fired' = FALSE
  /\ irqs' = irqs + 1
  /\ owed' = TRUE
  /\ \/ /\ istate = "NEEDACK" /\ bound
        /\ timestamp' = FirstOf(irqs')
        /\ UNCHANGED <<istate, packet, irqEvent, ipc, wakePending>>
        /\ masked' = (masked \/ BusMasks)
     \/ /\ ~(istate = "NEEDACK" /\ bound)
        /\ Fire(FirstOf(irqs'))
        /\ wakePending' = (wakePending \/ Flag("WAKE_VECTOR"))
        /\ masked' = MaskedPostWait
  /\ UNCHANGED <<flags, bound, registered, irqDefer>>

\* zx_interrupt_trigger with the caller's timestamp, which may be 0.
Trigger(now) ==
  /\ Flag("VIRTUAL") /\ irqs < MaxIrqs
  /\ irqs' = irqs + 1
  /\ \/ /\ istate = "DESTROYED" \/ (istate = "NEEDACK" /\ bound)
        /\ timestamp' = FirstOf(now)
        /\ owed' = (owed \/ (istate = "NEEDACK" /\ now # 0))
        /\ UNCHANGED <<istate, packet, irqEvent, ipc>>
     \/ /\ istate # "DESTROYED" /\ ~(istate = "NEEDACK" /\ bound)
        /\ Fire(FirstOf(now))
        /\ owed' = TRUE
  /\ UNCHANGED <<flags, bound, wakePending, irqHw, irqDefer>>

\* A thread takes the packet off the port (PortDispatcher::Dequeue).
InterruptPacketTaken ==
  /\ packet
  /\ packet' = FALSE
  /\ owed' = (timestamp # 0)
  /\ UNCHANGED <<flags, istate, timestamp, bound, wakePending, irqHw,
                 irqEvent, ipc, irqs, irqDefer>>
-----------------------------------------------------------------------------
(* zx_interrupt_bind, zx_interrupt_ack, zx_interrupt_destroy.              *)

\* The states in which Bind does not fail.
Bindable == istate \notin {"DESTROYED", "WAITING"}

Bind ==
  /\ Created /\ ~bound
  /\ Bindable
  /\ ~(Flag("UNMASK_PREWAIT_UNLOCKED") /\ Flag("MASK_POSTWAIT"))
  /\ bound' = TRUE
  /\ \/ /\ istate = "TRIGGERED"
        /\ SendPacket
        /\ istate' = "NEEDACK"
        /\ masked' = (masked \/ Flag("MASK_POSTWAIT"))
     \/ /\ istate # "TRIGGERED"
        /\ UNCHANGED <<packet, timestamp, istate, masked>>
  /\ UNCHANGED <<flags, wakePending, registered, fired, irqEvent, ipc, irqs, owed,
                 irqDefer>>

\* Unbind; what was queued or recorded for the port is given up.
Unbind ==
  /\ bound /\ istate # "DESTROYED"
  /\ packet' = FALSE
  /\ bound' = FALSE
  /\ owed' = FALSE
  /\ UNCHANGED <<flags, istate, timestamp, wakePending, irqHw, irqEvent, ipc,
                 irqs, irqDefer>>

\* Ack of a bound interrupt that needs one.  With an interrupt recorded
\* since, the next packet is queued and the state stays NEEDACK; if the last
\* packet is still queued Ack returns early, without a deferred unmask.
Ack(t) ==
  /\ bound /\ istate = "NEEDACK" /\ ipc[t] = "idle"
  /\ wakePending' = FALSE
  /\ \/ /\ timestamp # 0
        /\ SendPacket
        /\ UNCHANGED istate
        /\ masked' = IF Flag("MASK_POSTWAIT") THEN TRUE
                     ELSE masked /\ ~Flag("UNMASK_PREWAIT")
     \/ /\ timestamp = 0
        /\ istate' = "IDLE"
        /\ masked' = (masked /\ ~Flag("UNMASK_PREWAIT"))
        /\ UNCHANGED <<packet, timestamp>>
  /\ ipc' = IF Flag("UNMASK_PREWAIT_UNLOCKED") /\ ~(timestamp # 0 /\ packet)
            THEN [ipc EXCEPT ![t] = "ack_unmask"] ELSE ipc
  /\ UNCHANGED <<flags, bound, registered, fired, irqEvent, irqs, owed, irqDefer>>

AckUnmask(t) ==
  /\ IrqGo(t, "ack_unmask", "idle")
  /\ masked' = FALSE
  /\ UNCHANGED <<flags, istate, timestamp, bound, packet, wakePending,
                 registered, fired, irqEvent, irqs, owed, irqDefer>>

\* Destroy, without the lock: mask (and deactivate), unregister.  A handler
\* that the platform has not called by then is not called any more.
DestroyMask(t) ==
  /\ Created
  /\ IrqGo(t, "idle", "destroy_unregister")
  /\ masked' = (masked \/ ~Flag("NOT_MASKABLE"))
  /\ UNCHANGED <<flags, istate, timestamp, bound, packet, wakePending,
                 registered, fired, irqEvent, irqs, owed, irqDefer>>

DestroyUnregister(t) ==
  /\ IrqGo(t, "destroy_unregister", "destroy_lock")
  /\ registered' = FALSE /\ fired' = FALSE
  /\ UNCHANGED <<flags, istate, timestamp, bound, packet, wakePending, masked,
                 irqEvent, irqs, owed, irqDefer>>

\* Destroy, under the lock.  The event of a bound interrupt is not signaled.
DestroyLocked(t) ==
  /\ ipc[t] = "destroy_lock"
  /\ owed' = FALSE
  /\ \/ /\ bound
        /\ istate' = IF istate \in {"IDLE", "NEEDACK"} THEN "DESTROYED" ELSE istate
        /\ packet' = FALSE
        /\ ipc' = [ipc EXCEPT ![t] = "idle"]
        /\ UNCHANGED irqEvent
     \/ /\ ~bound
        /\ istate' = "DESTROYED"
        /\ Ev!Signal
        /\ ipc' = [u \in IrqThreads |->
              CASE u = t -> "idle"
                [] u \in evWaiters \ evWaiters' -> "wait_loop"
                [] OTHER -> ipc[u]]
        /\ UNCHANGED packet
  /\ UNCHANGED <<flags, timestamp, bound, wakePending, irqHw, irqs, irqDefer>>
-----------------------------------------------------------------------------
InterruptNext ==
  \/ InterruptCreate \/ IrqRaised \/ InterruptHandler \/ InterruptPacketTaken
  \/ Bind \/ Unbind
  \/ \E now \in {0, irqs + 1} : Trigger(now)
  \/ \E t \in IrqThreads :
       \/ WaitTurn(t) \/ WaitUnmask(t) \/ WaitEvent(t) \/ WaitInterrupted(t)
       \/ WaitCancel(t) \/ Ack(t) \/ AckUnmask(t)
       \/ DestroyMask(t) \/ DestroyUnregister(t) \/ DestroyLocked(t)

InterruptSpec == InterruptInit /\ [][InterruptNext]_irqVars
-----------------------------------------------------------------------------
Destroying == \E t \in IrqThreads :
                ipc[t] \in {"destroy_unregister", "destroy_lock"}

\* An interrupt is not lost: until it has been delivered, by a packet or to
\* a waiting thread, it is queued, recorded for the next Ack, or the state
\* is TRIGGERED and the event is signaled for the next wait.
NoLostInterrupt ==
  owed /\ istate # "DESTROYED" =>
    \/ packet
    \/ bound /\ istate = "NEEDACK" /\ timestamp # 0
    \/ /\ ~bound /\ istate = "TRIGGERED"
       /\ evSignaled \/ \E t \in IrqThreads : ipc[t] = "wait_loop"

\* The line is masked while a level or maskable PCI interrupt is serviced: no
\* deferred unmask comes after the mask of a later interrupt, as long as no
\* wait unmasks an IDLE interrupt because of an earlier turn of its loop.
MaskedWhileServiced ==
  /\ ~carried
  /\ Flag("MASK_POSTWAIT") \/ BusMasks
  /\ istate \in {"TRIGGERED", "NEEDACK"}
  => masked

\* An interrupt that can be delivered is not left masked: before it is
\* destroyed, in the states IDLE and WAITING the line is unmasked or the
\* thread that will unmask it is on its way.
NotLeftMasked ==
  /\ Created /\ istate \in {"IDLE", "WAITING"} /\ ~Destroying
  => ~masked \/ \E t \in IrqThreads : ipc[t] \in {"wait_unmask", "ack_unmask"}

\* A bound interrupt is in none of the states of a wait: Destroy, which has no
\* case for them, does not return without having destroyed it.
BoundStates == bound => istate \in {"IDLE", "NEEDACK", "DESTROYED"}

\* Event::Signal asserts that a signaled event has no waiters.
SignaledNoWaiters == evSignaled => evWaiters = {}

\* State, event, binding and mask agree, although unmasking and waiting are
\* outside the lock that protects the state.
InterruptConsistent ==
  /\ InterruptTypeOK /\ BoundStates /\ SignaledNoWaiters
  /\ MaskedWhileServiced /\ NotLeftMasked
=============================================================================
