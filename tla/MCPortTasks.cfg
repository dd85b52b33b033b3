CONSTANTS
  \* PortObserver
  t1 = t1
  t2 = t2
  t3 = t3
  o1 = o1
  o2 = o2
  d1 = d1
  h1 = h1
  k1 = k1
  s1 = s1
  Threads = {t1, t2, t3}
  Observers = {o1, o2}
  Objects = {d1}
  Handles = {h1}
  Keys = {k1}
  Signals = {s1}
  None = None
  ObjectOf <- OneObject
  SizeModulus = 8
  SerializedCancelKey = TRUE
  \* Tasks
  TkJobs = {"j1", "j2", "j3"}
  TkProcs = {"p1", "p2"}
  TkNone = "none"
  TkParent <- ChainOfJobs
  TkCritical <- CriticalToMiddle
  TkActors = {o1, o2}
  MaxTkThreads = 2
INIT PortOrTasksInit
NEXT PortOrTasksNext
CONSTRAINT OneSingleThreaded
SYMMETRY Symmetry
CHECK_DEADLOCK FALSE
INVARIANTS
  ObserverConsistent ObserverHears CanceledStaysCanceled
  TasksConsistent
