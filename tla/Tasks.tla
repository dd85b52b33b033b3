------------------------------- MODULE Tasks -------------------------------
(***************************************************************************)
(* The tree of jobs and processes and how it is killed                     *)
(* (object/job_dispatcher.cc, object/process_dispatcher.cc): killing a job *)
(* marks it, gathers its children under its lock and kills them after      *)
(* letting go of it, while other threads create and start tasks, exit,     *)
(* close handles and kill jobs above and below.                            *)
(*                                                                         *)
(* A kernel thread in these functions is an actor with a stack: what it    *)
(* does under one lock is one action, and a frame says how it goes on.     *)
(* The lists of a Kill are sets, no property depends on their order.  The  *)
(* place of a task in the tree is fixed, its creation is not.              *)
(***************************************************************************)
EXTENDS Naturals, Sequences

CONSTANTS TkJobs, TkProcs,
          TkNone,
          TkParent,      \* the job of a process, the parent of a job or TkNone
          TkCritical,    \* critical_to_job_ of a process or TkNone
          TkActors,
          MaxTkThreads   \* bound on the threads of a process

VARIABLES
  tkState,     \* state_, with NONE before the constructor and GONE when its
               \* last reference is dropped
  tkIn,        \* tasks in the jobs_ or procs_ of their parent
  tkHandles,   \* tasks with a handle
  tkThreads,   \* size of thread_list_
  tkExiting,   \* how many of them exit by themselves and may wait for a debugger
  tkDone,      \* processes with completely_dead_
  tkStack      \* an actor's frames, the innermost first

tkVars == <<tkState, tkIn, tkHandles, tkThreads, tkExiting, tkDone, tkStack>>

TkTasks == TkJobs \cup TkProcs
TkRoot == CHOOSE j \in TkJobs : TkParent[j] = TkNone

\* Jobs and processes form a tree below the root job.
ASSUME TkTree ==
  /\ TkJobs \cap TkProcs = {} /\ TkNone \notin TkTasks
  /\ TkRoot \in TkJobs
  /\ TkParent \in [TkTasks -> TkJobs \cup {TkNone}]
  /\ \A x \in TkTasks \ {TkRoot} : TkParent[x] \in TkJobs
  /\ TkCritical \in [TkProcs -> TkJobs \cup {TkNone}]
  /\ MaxTkThreads \in Nat

ChildrenOf(j) == {x \in TkTasks : TkParent[x] = j}
TkExists(x) == tkState[x] \notin {"NONE", "GONE"}

KillFrame(J, P) == [op |-> "kill", jobs |-> J, procs |-> P, x |-> TkNone]
TkFrame(op, x) == [op |-> op, jobs |-> {}, procs |-> {}, x |-> x]

TasksInit ==
  /\ tkState = [x \in TkTasks |-> IF x = TkRoot THEN "READY" ELSE "NONE"]
  /\ tkIn = {} /\ tkHandles = {TkRoot} /\ tkDone = {}
  /\ tkThreads = [p \in TkProcs |-> 0] /\ tkExiting = [p \in TkProcs |-> 0]
  /\ tkStack = [a \in TkActors |-> <<>>]

FramesOf(a) == {tkStack[a][i] : i \in DOMAIN tkStack[a]}
AllFrames == UNION {FramesOf(a) : a \in TkActors}
\* A frame holds a reference to the task; a child holds one to its parent
\* until its destructor is through.
TkHeld(x) == \E f \in AllFrames : x = f.x \/ x \in f.jobs \cup f.procs
Unreferenced(x) ==
  /\ x \notin tkHandles /\ ~TkHeld(x)
  /\ \A y \in ChildrenOf(x) : ~TkExists(y) /\ ~TkHeld(y)

TkIdle(a) == tkStack[a] = <<>>
TkDoing(a, op) == ~TkIdle(a) /\ Head(tkStack[a]).op = op
TkTop(a) == Head(tkStack[a])
TkSet(x, st) == tkState' = [tkState EXCEPT ![x] = st]
\* The actor goes on with the frames fs in place of its innermost one, or
\* starts on them.
TkGoOn(a, fs) == tkStack' = [tkStack EXCEPT ![a] = fs \o Tail(@)]
TkBegin(a, fs) == TkIdle(a) /\ tkStack' = [tkStack EXCEPT ![a] = fs]
TkNextFrames(a, fs) == TkBegin(a, fs) \/ (~TkIdle(a) /\ TkGoOn(a, fs))
-----------------------------------------------------------------------------
(* Creating and starting.                                                  *)

\* Mutant: a child is added to a job that is being killed.
AddChildAnyway(x) ==
  /\ tkState[x] = "NONE" /\ x # TkRoot /\ TkParent[x] \in tkHandles
  /\ TkSet(x, IF x \in TkJobs THEN "READY" ELSE "INITIAL")
  /\ tkIn' = tkIn \cup {x} /\ tkHandles' = tkHandles \cup {x}
  /\ UNCHANGED <<tkThreads, tkExiting, tkDone, tkStack>>

\* JobDispatcher::Create, ProcessDispatcher::Create: AddChildJob and
\* AddChildProcess take children only while READY.
AddChild(x) ==
  /\ tkState[x] = "NONE" /\ x # TkRoot /\ TkParent[x] \in tkHandles
  /\ tkState[TkParent[x]] = "READY"
  /\ TkSet(x, IF x \in TkJobs THEN "READY" ELSE "INITIAL")
  /\ tkIn' = tkIn \cup {x} /\ tkHandles' = tkHandles \cup {x}
  /\ UNCHANGED <<tkThreads, tkExiting, tkDone, tkStack>>

\* zx_object_get_child: a task that is still listed has a handle again.
ObjectGetChild(x) ==
  /\ x \in tkIn \ tkHandles /\ TkExists(x) /\ TkParent[x] \in tkHandles
  /\ tkHandles' = tkHandles \cup {x}
  /\ UNCHANGED <<tkState, tkIn, tkThreads, tkExiting, tkDone, tkStack>>

\* AddInitializedThread: the first thread starts the process.  The caller has
\* the thread's handle and needs none to the process.
AddInitializedThread(p) ==
  /\ tkThreads[p] < MaxTkThreads
  /\ tkState[p] = IF tkThreads[p] = 0 THEN "INITIAL" ELSE "RUNNING"
  /\ tkThreads' = [tkThreads EXCEPT ![p] = @ + 1]
  /\ TkSet(p, "RUNNING")
  /\ UNCHANGED <<tkIn, tkHandles, tkExiting, tkDone, tkStack>>
-----------------------------------------------------------------------------
(* The end of a process.                                                   *)

\* ExitingCurrent of a thread that nobody killed: it is DYING from here on, so
\* that a kill passes it over, and waits for a debugger that takes its
\* ZX_EXCP_THREAD_EXITING.
ExitingCurrent(p) ==
  /\ tkState[p] = "RUNNING" /\ tkExiting[p] < tkThreads[p]
  /\ tkExiting' = [tkExiting EXCEPT ![p] = @ + 1]
  /\ UNCHANGED <<tkState, tkIn, tkHandles, tkThreads, tkDone, tkStack>>

\* ProcessDispatcher::Exit, by a thread that runs: it is killed with the rest.
ProcessExit(p) ==
  /\ tkState[p] = "RUNNING" /\ tkExiting[p] < tkThreads[p]
  /\ TkSet(p, "DYING")
  /\ UNCHANGED <<tkIn, tkHandles, tkThreads, tkExiting, tkDone, tkStack>>

\* RemoveThread, in the thread's context.
RemoveThread(a, p) ==
  /\ tkThreads[p] > 0
  /\ tkThreads' = [tkThreads EXCEPT ![p] = @ - 1]
  /\ \/ /\ tkThreads[p] = 1
        /\ TkSet(p, "DEAD") /\ TkBegin(a, <<TkFrame("finish", p)>>)
     \/ /\ tkThreads[p] > 1 /\ TkIdle(a)
        /\ UNCHANGED <<tkState, tkStack>>
  /\ UNCHANGED <<tkIn, tkHandles, tkDone>>

\* A thread leaves that no debugger holds, or one whose debugger lets it go.
ThreadLeaves(a, p) ==
  /\ RemoveThread(a, p)
  /\ tkThreads[p] > tkExiting[p] /\ UNCHANGED tkExiting
ThreadLetGo(a, p) ==
  /\ RemoveThread(a, p)
  /\ tkExiting[p] > 0 /\ tkExiting' = [tkExiting EXCEPT ![p] = @ - 1]

\* ProcessDispatcher::Kill under its lock; fs is what the actor does next.
KillProcessLocked(a, p, fs) ==
  \/ /\ tkState[p] = "DEAD"
     /\ TkNextFrames(a, fs)
     /\ UNCHANGED tkState
  \/ /\ tkState[p] # "DEAD" /\ tkThreads[p] = 0
     /\ TkSet(p, "DEAD") /\ TkNextFrames(a, <<TkFrame("finish", p)>> \o fs)
  \/ /\ tkState[p] # "DEAD" /\ tkThreads[p] > 0
     /\ TkSet(p, "DYING") /\ TkNextFrames(a, fs)

\* zx_task_kill on a process.
KillProcess(a, p) ==
  /\ p \in tkHandles
  /\ TkIdle(a) /\ KillProcessLocked(a, p, <<>>)
  /\ UNCHANGED <<tkIn, tkHandles, tkThreads, tkExiting, tkDone>>

\* IsReadyForDeadTransitionLocked, when in is what the lists hold.
ReadyForDead(j, st, in) == st = "KILLING" /\ ChildrenOf(j) \cap in = {}

\* FinishDeadTransition up to the end of RemoveChildProcess's critical
\* section, which may leave the job to finish dying.
FinishProcess(a) ==
  /\ TkDoing(a, "finish")
  /\ LET p == TkTop(a).x
         j == TkParent[p]
     IN /\ tkDone' = tkDone \cup {p}
        /\ tkIn' = tkIn \ {p}
        /\ TkGoOn(a, (IF p \in tkIn /\ ReadyForDead(j, tkState[j], tkIn')
                      THEN <<TkFrame("die", j)>> ELSE <<>>)
                 \o <<TkFrame("critical", p)>>)
  /\ UNCHANGED <<tkState, tkHandles, tkThreads, tkExiting>>

\* The rest of it: the job the process is critical to is killed, depending
\* on the return code.
CriticalProcessKill(a) ==
  /\ TkDoing(a, "critical")
  /\ LET j == TkCritical[TkTop(a).x]
     IN \/ j # TkNone /\ TkGoOn(a, <<KillFrame({j}, {})>>)
        \/ TkGoOn(a, <<>>)
  /\ UNCHANGED <<tkState, tkIn, tkHandles, tkThreads, tkExiting, tkDone>>

\* The last handle closes: a process that was never started ends.
CloseLastHandle(a, x) ==
  /\ x \in tkHandles \ {TkRoot} /\ TkIdle(a)
  /\ tkHandles' = tkHandles \ {x}
  /\ IF tkState[x] = "INITIAL"
     THEN TkSet(x, "DEAD") /\ TkBegin(a, <<TkFrame("finish", x)>>)
     ELSE UNCHANGED <<tkState, tkStack>>
  /\ UNCHANGED <<tkIn, tkThreads, tkExiting, tkDone>>

\* The last reference to a process goes: it has left its job by then.
DestroyProcess(p) ==
  /\ tkState[p] = "DEAD" /\ tkThreads[p] = 0 /\ Unreferenced(p)
  /\ TkSet(p, "GONE")
  /\ UNCHANGED <<tkIn, tkHandles, tkThreads, tkExiting, tkDone, tkStack>>
-----------------------------------------------------------------------------
(* The end of a job.                                                       *)

\* zx_task_kill on a job.
KillJob(a, j) ==
  /\ j \in tkHandles
  /\ TkBegin(a, <<KillFrame({j}, {})>>)
  /\ UNCHANGED <<tkState, tkIn, tkHandles, tkThreads, tkExiting, tkDone>>

\* The helper of JobDispatcher::Kill on one of jobs_to_kill, with the actor's
\* lists in the frame.  TakeEachChildLocked passes over children that are
\* being destroyed.
MarkKilling(a) ==
  /\ TkDoing(a, "kill")
  /\ \E j \in TkTop(a).jobs :
       LET rest == [TkTop(a) EXCEPT !.jobs = @ \ {j}]
           taken == {x \in ChildrenOf(j) \cap tkIn : TkExists(x)}
           more == [rest EXCEPT !.jobs = @ \cup (taken \cap TkJobs),
                                !.procs = @ \cup (taken \cap TkProcs)]
       IN \/ /\ tkState[j] = "READY"
             /\ TkSet(j, "KILLING")
             /\ TkGoOn(a, (IF ReadyForDead(j, "KILLING", tkIn)
                           THEN <<TkFrame("die", j)>> ELSE <<>>) \o <<more>>)
          \/ /\ tkState[j] # "READY"
             /\ TkGoOn(a, <<rest>>)
             /\ UNCHANGED tkState
  /\ UNCHANGED <<tkIn, tkHandles, tkThreads, tkExiting, tkDone>>

\* Kill goes on to procs_to_kill when there are no more jobs.
KillProcs(a) ==
  /\ TkDoing(a, "kill") /\ TkTop(a).jobs = {}
  /\ \/ \E p \in TkTop(a).procs :
          KillProcessLocked(a, p, <<[TkTop(a) EXCEPT !.procs = @ \ {p}]>>)
     \/ /\ TkTop(a).procs = {}
        /\ TkGoOn(a, <<>>)
        /\ UNCHANGED tkState
  /\ UNCHANGED <<tkIn, tkHandles, tkThreads, tkExiting, tkDone>>

\* FinishDeadTransitionUnlocked under the job's lock.
FinishDead(a) ==
  /\ TkDoing(a, "die")
  /\ TkSet(TkTop(a).x, "DEAD")
  /\ TkGoOn(a, <<TkFrame("leave", TkTop(a).x)>>)
  /\ UNCHANGED <<tkIn, tkHandles, tkThreads, tkExiting, tkDone>>

\* Mutant: the last child to leave does not finish its parent.
LeaveParentOnly(a) ==
  /\ TkDoing(a, "leave")
  /\ tkIn' = tkIn \ {TkTop(a).x}
  /\ TkGoOn(a, <<>>)
  /\ UNCHANGED <<tkState, tkHandles, tkThreads, tkExiting, tkDone>>

\* RemoveChildJob: the last child to leave a killed parent finishes it.
LeaveParent(a) ==
  /\ TkDoing(a, "leave")
  /\ LET j == TkTop(a).x
         up == TkParent[j]
     IN /\ tkIn' = tkIn \ {j}
        /\ TkGoOn(a, IF j \in tkIn /\ ReadyForDead(up, tkState[up], tkIn')
                     THEN <<TkFrame("die", up)>> ELSE <<>>)
  /\ UNCHANGED <<tkState, tkHandles, tkThreads, tkExiting, tkDone>>

\* The last reference to a job goes and its destructor takes it out of its
\* parent.
DestroyJob(a, j) ==
  /\ TkExists(j) /\ Unreferenced(j)
  /\ TkSet(j, "GONE")
  /\ TkBegin(a, <<TkFrame("leave", j)>>)
  /\ UNCHANGED <<tkIn, tkHandles, tkThreads, tkExiting, tkDone>>

TkStep(a) ==
  \/ FinishProcess(a) \/ CriticalProcessKill(a)
  \/ MarkKilling(a) \/ KillProcs(a) \/ FinishDead(a) \/ LeaveParent(a)

TasksNext ==
  \/ \E x \in TkTasks : AddChild(x) \/ ObjectGetChild(x)
  \/ \E p \in TkProcs :
       \/ AddInitializedThread(p) \/ ExitingCurrent(p) \/ ProcessExit(p)
       \/ DestroyProcess(p)
  \/ \E a \in TkActors :
       \/ TkStep(a)
       \/ \E p \in TkProcs :
            ThreadLeaves(a, p) \/ ThreadLetGo(a, p) \/ KillProcess(a, p)
       \/ \E j \in TkJobs : KillJob(a, j) \/ DestroyJob(a, j)
       \/ \E x \in TkTasks : CloseLastHandle(a, x)

\* A killed thread exits, an object without references is destroyed.  A thread
\* that was leaving when the kill came goes when its debugger says so.
TkEnds(a) ==
  \/ \E p \in TkProcs : tkState[p] = "DYING" /\ ThreadLeaves(a, p)
  \/ \E j \in TkJobs : DestroyJob(a, j)

\* Kernel threads run.  An exit and a destruction have a thread of their own
\* in the code, so other calls do not keep them from starting.
TasksFairness == \A a \in TkActors : WF_tkVars(TkStep(a)) /\ SF_tkVars(TkEnds(a))

TasksSpec == TasksInit /\ [][TasksNext]_tkVars /\ TasksFairness
-----------------------------------------------------------------------------
(* Properties.                                                             *)

\* The types of the variables.
TasksTypeOK ==
  /\ \A j \in TkJobs : tkState[j] \in {"NONE", "READY", "KILLING", "DEAD", "GONE"}
  /\ \A p \in TkProcs : tkState[p] \in
       {"NONE", "INITIAL", "RUNNING", "DYING", "DEAD", "GONE"}
  /\ tkIn \subseteq TkTasks \ {TkRoot}
  /\ tkHandles \subseteq TkTasks /\ tkDone \subseteq TkProcs
  /\ tkThreads \in [TkProcs -> 0..MaxTkThreads]

TkPositions == UNION {{a} \X DOMAIN tkStack[a] : a \in TkActors}
InFrames(op, x) ==
  {ai \in TkPositions : tkStack[ai[1]][ai[2]].op = op /\ tkStack[ai[1]][ai[2]].x = x}
AtMostOneIn(S) == \A u, v \in S : u = v

\* job_dispatcher.cc:299, process_dispatcher.cc:538.  What the code asserts
\* of the two dead transitions: a process makes its own once, whichever of its
\* threads, killers and handles ends it; a job makes its own once, after it was
\* marked and has no children, and before its parent does.
DeadTransitionsOnce ==
  /\ \A p \in TkProcs :
       /\ AtMostOneIn(InFrames("finish", p))
       /\ p \in tkDone => InFrames("finish", p) = {}
  /\ \A j \in TkJobs :
       LET dying == InFrames("die", j)
       IN /\ AtMostOneIn(dying)
          /\ dying # {} => tkState[j] = "KILLING" /\ ChildrenOf(j) \cap tkIn = {}
          /\ dying # {} /\ j # TkRoot => tkState[TkParent[j]] # "DEAD"

\* job_dispatcher.cc:396.  Nobody survives the kill of a job: a task of a job
\* that is no longer READY is dying itself or on the list of a killer, however
\* it was created, started or killed in the meantime; and a killed job
\* without children is being finished.
NoSurvivor ==
  /\ \A p \in TkProcs :
       tkState[p] \in {"INITIAL", "RUNNING"} /\ tkState[TkParent[p]] # "READY"
       => \E f \in AllFrames : p \in f.procs
  /\ \A j \in TkJobs \ {TkRoot} :
       tkState[j] = "READY" /\ tkState[TkParent[j]] # "READY"
       => \E f \in AllFrames : j \in f.jobs
  /\ \A j \in TkJobs :
       ReadyForDead(j, tkState[j], tkIn) => InFrames("die", j) # {}

\* process_dispatcher.cc:203, job_dispatcher.cc:187.  An object in a list
\* exists: a destroyed process has left its job, and a destroyed job is in
\* its parent's list only until the destructor takes it out.
ListedTasksExist ==
  \A x \in tkIn : TkExists(x) \/ (x \in TkJobs /\ InFrames("leave", x) # {})

\* thread_dispatcher.cc:345.  A thread that exits by itself stays on the list
\* of its process, and the process short of DEAD, until its debugger lets it go.
ExitingThreadsStay ==
  \A p \in TkProcs :
    /\ tkExiting[p] \in 0..tkThreads[p]
    /\ tkExiting[p] > 0 => tkState[p] \in {"RUNNING", "DYING"} /\ p \in tkIn

\* job_dispatcher.cc, process_dispatcher.cc: a task dies once, a killed job
\* leaves no child behind, the lists hold only objects that exist, and a process
\* does not end before a thread that a debugger holds.
TasksConsistent ==
  /\ TasksTypeOK /\ DeadTransitionsOnce /\ NoSurvivor /\ ListedTasksExist
  /\ ExitingThreadsStay

\* A killed job that is not DEAD yet (and has not signaled ZX_JOB_TERMINATED)
\* although no debugger holds a thread of a killed process.
JobsDying ==
  /\ \E j \in TkJobs : tkState[j] = "KILLING"
  /\ \A p \in TkProcs : tkState[p] = "DYING" => tkExiting[p] = 0
=============================================================================
