----------------------------- MODULE MCProgress -----------------------------
(* What must eventually happen, on small instances.  The components do not  *)
(* interact here, so each behaviour is one of `part`, the rest staying as   *)
(* it was initially.                                                        *)
EXTENDS Mutex, BrwLock, Dpc, TimerDispatcher, Suspend, UserThread, Tasks, TLC

CONSTANTS
  Threads, None,
  Observers, Objects, Handles, Keys, Signals, ObjectOf, SizeModulus,
  SerializedCancelKey,                                     \* PortObserver
  UserPackets, KernelPackets, InterruptPackets, KeyOf, BindToInterrupt,
  MaxPackets, MaxPosts, Servers,                           \* PortQueue
  Procs, Client, Server, Callers, ProcOf, FirstHolder, TxidModulus, MaxCalls,
  MaxWrites, MaxMoves                                      \* Channel

VARIABLES
  part,
  signals, dlock, onObject, alive, handles, portOpen, zeroHandles, onPort,
  size, queued, owned, canceled, linked, state, attr, pc, cur, todo, list,
  obj, hnd, key, why, pre, voided,                         \* PortObserver
  packets, ipackets, sema, waiting, ephemeral, queueZeroHandles, plock, alloc,
  abandoned, queuePc, queueCur, queueKey, posts,           \* PortQueue
  holder, owners, peered, peerClosed, channelSignals, msgs, waiters, txid,
  observers, lock, channelPc, ep, req, w, seen, killed, calls, writes \* Channel

PO == INSTANCE PortObserver
PQ == INSTANCE PortQueue WITH zeroHandles <- queueZeroHandles, pc <- queuePc,
                              cur <- queueCur, key <- queueKey
CH == INSTANCE Channel WITH signals <- channelSignals, pc <- channelPc

OneObject == [h \in Handles |-> CHOOSE d \in Objects : TRUE]
OneKey == [p \in UserPackets \cup KernelPackets |-> 1]
MCProcOf == [t \in Threads |-> IF t \in Callers THEN Client ELSE Server]
MCFirstHolder == [e \in {"A", "B"} |-> IF e = "A" THEN Client ELSE Server]
NoJobs == <<>>
JobsAndProcess ==
  [x \in TkTasks |-> CASE x = "j1" -> TkNone [] x = "j2" -> "j1" [] OTHER -> "j2"]
NoneCritical == [p \in TkProcs |-> TkNone]
SamePriority == [t \in BrThreads |-> 0]

ProgressInit ==
  /\ part \in {"observers", "packets", "channel", "mutex", "brwlock", "dpc",
               "timer", "suspend", "thread", "tasks"}
  /\ PO!Init /\ PQ!Init /\ CH!Init
  /\ MutexInit /\ BrwInit /\ DpcInit /\ TimerInit /\ SuspendInit
  /\ UserThreadInit /\ TasksInit

observerVars ==
  <<signals, dlock, onObject, alive, handles, portOpen, zeroHandles, onPort,
    size, queued, owned, canceled, linked, state, attr, pc, cur, todo, list,
    obj, hnd, key, why, pre, voided>>
packetVars ==
  <<packets, ipackets, sema, waiting, ephemeral, queueZeroHandles, plock,
    alloc, abandoned, queuePc, queueCur, queueKey, posts>>
channelVars ==
  <<holder, owners, peered, peerClosed, channelSignals, msgs, waiters, txid,
    observers, lock, channelPc, ep, req, w, seen, killed, calls, writes>>
objectVars == <<observerVars, packetVars, channelVars>>
lockVars == <<mxVars, brVars>>
taskVars == <<utVars, tkVars>>

ProgressNext ==
  /\ \/ /\ part = "observers" /\ PO!Next
        /\ UNCHANGED <<packetVars, channelVars, lockVars, dpcVars, tmVars,
                       suspVars, taskVars>>
     \/ /\ part = "packets" /\ PQ!Next
        /\ UNCHANGED <<observerVars, channelVars, lockVars, dpcVars, tmVars,
                       suspVars, taskVars>>
     \/ /\ part = "channel" /\ CH!Next
        /\ UNCHANGED <<observerVars, packetVars, lockVars, dpcVars, tmVars,
                       suspVars, taskVars>>
     \/ /\ part = "mutex" /\ MutexNext
        /\ UNCHANGED <<objectVars, brVars, dpcVars, tmVars, suspVars, taskVars>>
     \/ /\ part = "brwlock" /\ BrwNext
        /\ UNCHANGED <<objectVars, mxVars, dpcVars, tmVars, suspVars, taskVars>>
     \/ /\ part = "dpc" /\ DpcNext
        /\ UNCHANGED <<objectVars, lockVars, tmVars, suspVars, taskVars>>
     \/ /\ part = "timer" /\ TimerNext
        /\ UNCHANGED <<objectVars, lockVars, dpcVars, suspVars, taskVars>>
     \/ /\ part = "suspend" /\ SuspendNext
        /\ UNCHANGED <<objectVars, lockVars, dpcVars, tmVars, taskVars>>
     \/ /\ part = "thread" /\ UserThreadNext
        /\ UNCHANGED <<objectVars, lockVars, dpcVars, tmVars, suspVars, tkVars>>
     \/ /\ part = "tasks" /\ TasksNext
        /\ UNCHANGED <<objectVars, lockVars, dpcVars, tmVars, suspVars, utVars>>
  /\ UNCHANGED part

partVars ==
  CASE part = "observers" -> observerVars [] part = "packets" -> packetVars
    [] part = "channel" -> channelVars    [] part = "mutex" -> mxVars
    [] part = "brwlock" -> brVars         [] part = "dpc" -> dpcVars
    [] part = "timer" -> tmVars           [] part = "suspend" -> suspVars
    [] part = "thread" -> utVars          [] part = "tasks" -> tkVars

\* The fairness each component states, with what the components ask of one
\* thread put together: only one of them has steps in a behaviour.
ServesPackets(t) ==
  \/ PQ!DequeueInterrupt(t)
  \/ t \in Servers /\ (PQ!DequeueWait(t) \/ PQ!DequeueFree(t))
  \/ /\ t \notin Servers
     /\ \/ PQ!Post(t) \/ PQ!CancelEnd(t)
        \/ \E i \in 1..Len(packets) : PQ!CancelNext(t, i)

Runs(t) ==
  /\ UNCHANGED part
  /\ \/ part = "observers" /\ PO!Continue(t)
     \/ part = "packets" /\ ServesPackets(t)
     \/ part = "channel" /\ (CH!Notify(t) \/ CH!CallWakes(t) \/ CH!CallResumed(t)
                               \/ CH!ThreadExits(t))
     \/ part = "thread" /\ ThreadStep
     \/ part = "tasks" /\ TkStep(t)

GetsLock(t) ==
  /\ UNCHANGED part
  /\ \/ part = "mutex" /\ MutexStep(t)
     \/ part = "brwlock" /\ BrwStep(t)
     \/ /\ t \in Threads
        /\ \/ part = "tasks" /\ TkEnds(t)
           \/ part = "observers" /\ PO!Acquire(t)
           \/ part = "packets" /\ PQ!DequeuePacket(t)
           \/ part = "channel" /\ (CH!CallBadHandle(t) \/ CH!CallPeerClosed(t)
                                     \/ CH!Call(t) \/ CH!CallEnds(t))

ProgressSpec ==
  /\ ProgressInit
  /\ [][ProgressNext]_<<part, objectVars, lockVars, dpcVars, tmVars, suspVars,
              taskVars>>
  /\ \A t \in Threads : WF_partVars(Runs(t))
  /\ \A t \in MxThreads : SF_partVars(GetsLock(t))
  /\ TimerThreadsRun /\ WF_tmVars(part = "timer" /\ TimerClock)
  /\ DpcFairness
  /\ SuspendFairness

\* Calls on ports and channels end: zx_port calls return, packets are served,
\* and calls on a closed channel return.
IpcProgress == PO!CallsReturn /\ PQ!PacketsServed /\ CH!CallsEndOnClose

\* No thread stays blocked on a kernel lock.
LocksGranted == MutexGranted /\ BrwGranted

\* Deferred work is done: queued DPCs are invoked, a deadline that stays set is
\* signaled, and a closed timer is freed.
DeferredWorkRuns == DpcRuns /\ TimerFires /\ TimerFreed

\* Tasks end and resume: none of these lasts, a killed thread in its process
\* (thread_dispatcher.cc:201), a suspended thread that was resumed
\* (thread.cc:1184), a killed job that is not DEAD although no debugger holds
\* a thread that was leaving when its process was killed (job_dispatcher.cc:396).
TasksEnd == []<>(~KilledLeaving /\ ~ResumePending /\ ~JobsDying)
=============================================================================
