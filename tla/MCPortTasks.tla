----------------------------- MODULE MCPortTasks -----------------------------
(* Instances of PortObserver and Tasks for TLC.  They do not interact, so    *)
(* each behaviour is one of `part`, the rest staying as it was initially.    *)
(* The actors of the tasks and the observers are the same values, for the    *)
(* symmetry.  One of the two processes has one thread at most.               *)
EXTENDS MCPortObserver, Tasks

VARIABLE part

\* A chain of jobs with a process in each of the two below the root, the
\* lower one critical to the upper one's job.
ChainOfJobs ==
  [x \in TkTasks |->
     CASE x = "j1" -> TkNone [] x \in {"j2"} -> "j1" [] x \in {"j3", "p1"} -> "j2"
       [] OTHER -> "j3"]
CriticalToMiddle == [p \in TkProcs |-> IF p = "p2" THEN "j2" ELSE TkNone]

PortOrTasksInit == part \in {"port", "tasks"} /\ Init /\ TasksInit

PortOrTasksNext ==
  /\ \/ part = "port" /\ Next /\ UNCHANGED tkVars
     \/ part = "tasks" /\ TasksNext /\ UNCHANGED vars
  /\ UNCHANGED part

OneSingleThreaded == tkThreads["p1"] <= 1
=============================================================================
