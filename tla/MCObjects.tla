------------------------------ MODULE MCObjects ------------------------------
(* Instances of the kernel's objects for TLC.  They do not interact, so each *)
(* behaviour is one of `part`, the rest staying as it was initially.         *)
EXTENDS PortQueue, Interrupt, Fifo, Socket, Handles, TimerDispatcher, TLC

VARIABLE part

\* Every packet has the same key.
OneKey == [p \in Packets |-> 1]

ObjectsInit ==
  /\ part \in {"port", "interrupt", "fifo", "socket", "handles", "timer"}
  /\ Init /\ InterruptInit /\ FifoInit /\ SocketInit /\ HandlesInit /\ TimerInit

ObjectsNext ==
  /\ \/ /\ part = "port" /\ Next
        /\ UNCHANGED <<irqVars, fifoVars, sockVars, hVars, tmVars>>
     \/ /\ part = "interrupt" /\ InterruptNext
        /\ UNCHANGED <<vars, fifoVars, sockVars, hVars, tmVars>>
     \/ /\ part = "fifo" /\ FifoNext
        /\ UNCHANGED <<vars, irqVars, sockVars, hVars, tmVars>>
     \/ /\ part = "socket" /\ SocketNext
        /\ UNCHANGED <<vars, irqVars, fifoVars, hVars, tmVars>>
     \/ /\ part = "handles" /\ HandlesNext
        /\ UNCHANGED <<vars, irqVars, fifoVars, sockVars, tmVars>>
     \/ /\ part = "timer" /\ TimerNext
        /\ UNCHANGED <<vars, irqVars, fifoVars, sockVars, hVars>>
  /\ UNCHANGED part

\* The threads of the port and of the interrupt and the slots of the handle
\* arena are the same values.
Symmetry == Permutations(HSlots)
=============================================================================
