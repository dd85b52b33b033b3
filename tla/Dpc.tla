-------------------------------- MODULE Dpc --------------------------------
(***************************************************************************)
(* Deferred procedure calls (kernel/dpc.cc): the queue and the worker      *)
(* thread of each CPU, Dpc::Queue from any thread, and the two phases in   *)
(* which a queue is shut down when its CPU is unplugged (kernel/mp.cc).    *)
(*                                                                         *)
(* What dpc_lock covers is one action.  Signaling the queue's event, the   *)
(* worker's wait and the DPC itself are outside it.  The event has one     *)
(* waiter, the worker, which alone clears it while it runs, so waiting is  *)
(* a guard on the flag.  An unplug may fail, but the wait of               *)
(* TransitionActiveToOffline does not time out: only the halt of the       *)
(* system sets a deadline (platform/halt_helper.cc).                       *)
(***************************************************************************)
EXTENDS Integers, Sequences

CONSTANTS DpcCpus, DpcBoot,   \* CPUs; the one that is never unplugged
          Dpcs,               \* Dpc objects
          DpcCallers,         \* threads that queue them
          MaxDpcQueues,       \* bound: times each Dpc is queued
          MaxUnplugs,         \* bound: CPUs unplugged
          UnplugErrors        \* whether an unplug may fail

ASSUME DpcAssumption ==
  /\ DpcBoot \in DpcCpus /\ "none" \notin DpcCpus
  /\ MaxDpcQueues \in Nat /\ MaxUnplugs \in Nat /\ UnplugErrors \in BOOLEAN

VARIABLES dpcList,       \* list_ of each queue
          dpcSignaled,   \* event_
          dpcStop,       \* stop_
          dpcWorker,     \* thread_: "none", "wait", "check" or "run"
          dpcCaller,     \* the queue each caller is about to signal, or "none"
          dpcUnplug,     \* the unplugging thread's place and its CPU
          dpcOnline,     \* CPUs that run threads
          dpcUnplugs,    \* CPUs unplugged so far
          dpcAccepted, dpcInvoked,   \* history: counts for each Dpc
          dpcMoved       \* history: queues given Dpcs by TransitionOffCpu and
                         \* not signaled since

dpcCounts == <<dpcAccepted, dpcInvoked>>
dpcHotplug == <<dpcUnplug, dpcOnline, dpcUnplugs>>
dpcVars == <<dpcList, dpcSignaled, dpcStop, dpcWorker, dpcCaller, dpcHotplug,
             dpcCounts, dpcMoved>>

InContainer(d) == \E c \in DpcCpus : \E i \in 1..Len(dpcList[c]) : dpcList[c][i] = d

DpcTypeOK ==
  /\ dpcList \in [DpcCpus -> Seq(Dpcs)]
  /\ dpcSignaled \in [DpcCpus -> BOOLEAN] /\ dpcStop \in [DpcCpus -> BOOLEAN]
  /\ dpcWorker \in [DpcCpus -> {"none", "wait", "check", "run"}]
  /\ dpcCaller \in [DpcCallers -> DpcCpus \cup {"none"}]
  /\ dpcUnplug \in {"idle", "signal", "join", "offline", "move"}
                     \X (DpcCpus \ {DpcBoot}) \cup {<<"idle", DpcBoot>>}
  /\ dpcOnline \subseteq DpcCpus /\ DpcBoot \in dpcOnline
  /\ dpcUnplugs \in 0..MaxUnplugs
  /\ dpcAccepted \in [Dpcs -> 0..MaxDpcQueues]
  /\ dpcInvoked \in [Dpcs -> 0..MaxDpcQueues]
  /\ dpcMoved \subseteq DpcCpus

DpcInit ==
  /\ dpcList = [c \in DpcCpus |-> <<>>]
  /\ dpcSignaled = [c \in DpcCpus |-> FALSE]
  /\ dpcStop = [c \in DpcCpus |-> FALSE]
  /\ dpcWorker = [c \in DpcCpus |-> "wait"]
  /\ dpcCaller = [t \in DpcCallers |-> "none"]
  /\ dpcUnplug = <<"idle", DpcBoot>>
  /\ dpcOnline = DpcCpus
  /\ dpcUnplugs = 0
  /\ dpcAccepted = [d \in Dpcs |-> 0] /\ dpcInvoked = [d \in Dpcs |-> 0]
  /\ dpcMoved = {}
-----------------------------------------------------------------------------

\* Dpc::Queue by t, which runs on c, up to the end of the lock.  A Dpc that
\* is on a list is left there (ZX_ERR_ALREADY_EXISTS, no change).
DpcEnqueue(t, d, c) ==
  /\ dpcCaller[t] = "none"
  /\ c \in dpcOnline
  /\ dpcAccepted[d] < MaxDpcQueues
  /\ ~InContainer(d)
  /\ dpcList' = [dpcList EXCEPT ![c] = Append(@, d)]
  /\ dpcAccepted' = [dpcAccepted EXCEPT ![d] = @ + 1]
  /\ dpcCaller' = [dpcCaller EXCEPT ![t] = c]
  /\ UNCHANGED <<dpcSignaled, dpcStop, dpcWorker, dpcHotplug, dpcInvoked,
                 dpcMoved>>

\* Dpc::Queue signals the queue it used, after the lock.
DpcSignal(t) ==
  /\ dpcCaller[t] # "none"
  /\ dpcSignaled' = [dpcSignaled EXCEPT ![dpcCaller[t]] = TRUE]
  /\ dpcMoved' = dpcMoved \ {dpcCaller[t]}
  /\ dpcCaller' = [dpcCaller EXCEPT ![t] = "none"]
  /\ UNCHANGED <<dpcList, dpcStop, dpcWorker, dpcHotplug, dpcCounts>>

\* DpcQueue::Work: the wait returns.
WorkerWake(c) ==
  /\ dpcWorker[c] = "wait" /\ dpcSignaled[c]
  /\ dpcWorker' = [dpcWorker EXCEPT ![c] = "check"]
  /\ UNCHANGED <<dpcList, dpcSignaled, dpcStop, dpcCaller, dpcHotplug,
                 dpcCounts, dpcMoved>>

\* Mutant: the event is reset whether or not DPCs are left.
WorkerCheckUnsignals(c) ==
  /\ dpcWorker[c] = "check" /\ ~dpcStop[c]
  /\ dpcSignaled' = [dpcSignaled EXCEPT ![c] = FALSE]
  /\ dpcList' = [dpcList EXCEPT ![c] = IF @ = <<>> THEN @ ELSE Tail(@)]
  /\ dpcInvoked' = IF dpcList[c] = <<>> THEN dpcInvoked
                   ELSE [dpcInvoked EXCEPT ![Head(dpcList[c])] = @ + 1]
  /\ dpcWorker' = [dpcWorker EXCEPT ![c] = IF dpcList[c] = <<>> THEN "wait" ELSE "run"]
  /\ UNCHANGED <<dpcStop, dpcCaller, dpcHotplug, dpcAccepted, dpcMoved>>

\* DpcQueue::Work under the lock: stop, pop a Dpc, or clear the event.
WorkerCheck(c) ==
  /\ dpcWorker[c] = "check"
  /\ \/ /\ dpcStop[c]
        /\ dpcWorker' = [dpcWorker EXCEPT ![c] = "none"]
        /\ UNCHANGED <<dpcList, dpcSignaled, dpcInvoked>>
     \/ /\ ~dpcStop[c] /\ dpcList[c] # <<>>
        /\ dpcList' = [dpcList EXCEPT ![c] = Tail(@)]
        /\ dpcInvoked' = [dpcInvoked EXCEPT ![Head(dpcList[c])] = @ + 1]
        /\ dpcWorker' = [dpcWorker EXCEPT ![c] = "run"]
        /\ UNCHANGED dpcSignaled
     \/ /\ ~dpcStop[c] /\ dpcList[c] = <<>>
        /\ dpcSignaled' = [dpcSignaled EXCEPT ![c] = FALSE]
        /\ dpcWorker' = [dpcWorker EXCEPT ![c] = "wait"]
        /\ UNCHANGED <<dpcList, dpcInvoked>>
  /\ UNCHANGED <<dpcStop, dpcCaller, dpcHotplug, dpcAccepted, dpcMoved>>

\* The invoked Dpc returns.
WorkerDone(c) ==
  /\ dpcWorker[c] = "run"
  /\ dpcWorker' = [dpcWorker EXCEPT ![c] = "wait"]
  /\ UNCHANGED <<dpcList, dpcSignaled, dpcStop, dpcCaller, dpcHotplug,
                 dpcCounts, dpcMoved>>
-----------------------------------------------------------------------------
(* Hotplug.                                                                *)

\* mp_unplug_cpu_mask_single_locked: DpcQueue::Shutdown under the lock, which
\* asserts that the queue is not shut down already.
DpcShutdown(c) ==
  /\ dpcUnplug[1] = "idle" /\ c \in dpcOnline \ {DpcBoot} /\ ~dpcStop[c]
  /\ dpcUnplugs < MaxUnplugs
  /\ dpcStop' = [dpcStop EXCEPT ![c] = TRUE]
  /\ dpcUnplug' = <<"signal", c>>
  /\ dpcUnplugs' = dpcUnplugs + 1
  /\ UNCHANGED <<dpcList, dpcSignaled, dpcWorker, dpcCaller, dpcOnline,
                 dpcCounts, dpcMoved>>

\* Shutdown wakes the worker and then joins it.
DpcShutdownSignal ==
  LET c == dpcUnplug[2]
  IN  /\ dpcUnplug[1] = "signal"
      /\ dpcUnplug' = <<"join", c>>
      /\ dpcSignaled' = [dpcSignaled EXCEPT ![c] = TRUE]
      /\ UNCHANGED <<dpcList, dpcStop, dpcWorker, dpcCaller, dpcOnline,
                     dpcUnplugs, dpcCounts, dpcMoved>>

DpcJoin ==
  LET c == dpcUnplug[2]
  IN  /\ dpcUnplug[1] = "join" /\ dpcWorker[c] = "none"
      /\ dpcUnplug' = <<"offline", c>>
      /\ UNCHANGED <<dpcList, dpcSignaled, dpcStop, dpcWorker, dpcCaller,
                     dpcOnline, dpcUnplugs, dpcCounts, dpcMoved>>

\* mp_unplug_cpu_mask_single_locked returns an error: the join timed out, or
\* platform_mp_prep_cpu_unplug or TransitionActiveToOffline failed.  The CPU
\* stays online and its queue shut down.
DpcUnplugError ==
  /\ UnplugErrors /\ dpcUnplug[1] \in {"join", "offline"}
  /\ dpcUnplug' = <<"idle", dpcUnplug[2]>>
  /\ UNCHANGED <<dpcList, dpcSignaled, dpcStop, dpcWorker, dpcCaller, dpcOnline,
                 dpcUnplugs, dpcCounts, dpcMoved>>

\* TransitionActiveToOffline: from here on nothing runs on the CPU.
DpcOffline ==
  LET c == dpcUnplug[2]
  IN  /\ dpcUnplug[1] = "offline"
      /\ dpcUnplug' = <<"move", c>>
      /\ dpcOnline' = dpcOnline \ {c}
      /\ UNCHANGED <<dpcList, dpcSignaled, dpcStop, dpcWorker, dpcCaller,
                     dpcUnplugs, dpcCounts, dpcMoved>>

\* Mutant: the DPCs stay on the list of the CPU that left.
DpcTransitionOffCpuKeeps(dst) ==
  LET c == dpcUnplug[2]
  IN  /\ dpcUnplug[1] = "move" /\ dst \in dpcOnline
      /\ dpcUnplug' = <<"idle", c>>
      /\ dpcSignaled' = [dpcSignaled EXCEPT ![c] = FALSE]
      /\ dpcStop' = [dpcStop EXCEPT ![c] = FALSE]
      /\ UNCHANGED <<dpcList, dpcMoved, dpcWorker, dpcCaller, dpcOnline,
                     dpcUnplugs, dpcCounts>>

\* DpcQueue::TransitionOffCpu on the unplugging thread's CPU.
DpcTransitionOffCpu(dst) ==
  LET c == dpcUnplug[2]
  IN  /\ dpcUnplug[1] = "move" /\ dst \in dpcOnline
      /\ dpcUnplug' = <<"idle", c>>
      /\ dpcList' = [dpcList EXCEPT ![dst] = @ \o dpcList[c], ![c] = <<>>]
      /\ dpcMoved' = IF dpcList[c] = <<>> THEN dpcMoved
                                          ELSE dpcMoved \cup {dst}
      /\ dpcSignaled' = [dpcSignaled EXCEPT ![c] = FALSE]
      /\ dpcStop' = [dpcStop EXCEPT ![c] = FALSE]
      /\ UNCHANGED <<dpcWorker, dpcCaller, dpcOnline, dpcUnplugs, dpcCounts>>

\* mp_hotplug_cpu_mask: the CPU comes back and runs InitForCurrentCpu.
DpcInitForCurrentCpu(c) ==
  /\ dpcUnplug[1] = "idle" /\ c \notin dpcOnline
  /\ dpcOnline' = dpcOnline \cup {c}
  /\ dpcWorker' = [dpcWorker EXCEPT ![c] = "wait"]
  /\ UNCHANGED <<dpcList, dpcSignaled, dpcStop, dpcCaller, dpcUnplug,
                 dpcUnplugs, dpcCounts, dpcMoved>>
-----------------------------------------------------------------------------
DpcWork(c) == WorkerWake(c) \/ WorkerCheck(c) \/ WorkerDone(c)
DpcUnplugStep ==
  \/ DpcShutdownSignal \/ DpcJoin \/ DpcOffline
  \/ \E dst \in DpcCpus : DpcTransitionOffCpu(dst)

DpcNext ==
  \/ \E t \in DpcCallers : \/ \E d \in Dpcs, c \in DpcCpus : DpcEnqueue(t, d, c)
                           \/ DpcSignal(t)
  \/ \E c \in DpcCpus : DpcWork(c) \/ DpcShutdown(c) \/ DpcInitForCurrentCpu(c)
  \/ DpcUnplugStep \/ DpcUnplugError

\* Threads that are inside dpc.cc keep running; nobody has to queue a Dpc or
\* to plug or unplug a CPU.
DpcFairness ==
  /\ \A t \in DpcCallers : WF_dpcVars(DpcSignal(t))
  /\ \A c \in DpcCpus : WF_dpcVars(DpcWork(c))
  /\ WF_dpcVars(DpcUnplugStep)

DpcSpec == DpcInit /\ [][DpcNext]_dpcVars /\ DpcFairness
-----------------------------------------------------------------------------
\* Every accepted Dpc is on one list, once, until it is invoked once: across
\* requeueing, two CPUs' workers and the move off a CPU none is lost or run
\* twice.
DpcInvokedOnce ==
  /\ \A c, e \in DpcCpus : \A i \in 1..Len(dpcList[c]), j \in 1..Len(dpcList[e]) :
       dpcList[c][i] = dpcList[e][j] => c = e /\ i = j
  /\ \A d \in Dpcs :
       dpcAccepted[d] = dpcInvoked[d] + (IF InContainer(d) THEN 1 ELSE 0)

\* A worker that waits with Dpcs on its list has been signaled, or the thread
\* that queued one is about to signal it, although both the signal and the
\* wait are outside the lock.  (Dpcs that TransitionOffCpu brought are not
\* signaled.)
DpcWorkerWoken ==
  \A c \in DpcCpus \ dpcMoved :
    dpcList[c] # <<>> /\ dpcWorker[c] = "wait"
      => dpcSignaled[c] \/ \E t \in DpcCallers : dpcCaller[t] = c

\* Once the unplugging is over no Dpc is left on the queue of a CPU that is
\* offline, where nothing would invoke it.
DpcNoneOffline ==
  \A c \in DpcCpus :
    c \notin dpcOnline /\ dpcUnplug # <<"move", c>> => dpcList[c] = <<>>

\* A queued Dpc is invoked, unless a CPU is unplugged meanwhile.
DpcRuns ==
  \A d \in Dpcs : []<>(~InContainer(d) \/ dpcUnplugs > 0)

\* A queued Dpc is invoked, CPUs being unplugged or not: "Queue this object
\* and signal the worker thread to execute it" (dpc.h).
DpcRunsAlways == \A d \in Dpcs : InContainer(d) ~> ~InContainer(d)

\* Through requeueing and hotplug every accepted Dpc is on the list of one CPU
\* that is online, or being unplugged, until it is invoked, once.
DpcConsistent == DpcTypeOK /\ DpcInvokedOnce /\ DpcNoneOffline
=============================================================================
