CONSTANTS
  t1 = t1
  t2 = t2
  t3 = t3
  None = None
  Threads = {t1, t2}
  o1 = o1
  d1 = d1
  h1 = h1
  k1 = k1
  s1 = s1
  Observers = {o1}
  Objects = {d1}
  Handles = {h1}
  Keys = {k1}
  Signals = {s1}
  ObjectOf <- OneObject
  SizeModulus = 8
  SerializedCancelKey = TRUE
  u1 = u1
  i1 = i1
  UserPackets = {u1}
  KernelPackets = {k1}
  InterruptPackets = {i1}
  KeyOf <- OneKey
  BindToInterrupt = TRUE
  MaxPackets = 1
  MaxPosts = 3
  Servers = {t2}
  p1 = p1
  p2 = p2
  Procs = {p1, p2}
  Client = p1
  Server = p2
  Callers = {t1}
  ProcOf <- MCProcOf
  FirstHolder <- MCFirstHolder
  TxidModulus = 8
  MaxCalls = 1
  MaxWrites = 1
  MaxMoves = 0
  MxThreads = {t1, t2, t3}
  MxNone = None
  BrThreads = {t1, t2, t3}
  BrNone = None
  BrPriority <- SamePriority
  MaxBrBackOffs = 1
  c1 = c1
  c2 = c2
  q1 = q1
  q2 = q2
  DpcCpus = {c1, c2}
  DpcBoot = c1
  d2 = d2
  Dpcs = {d1, d2}
  DpcCallers = {q1}
  MaxDpcQueues = 1
  MaxUnplugs = 1
  UnplugErrors = TRUE
  TmCpus = {c1}
  TmCallers = {q1, q2}
  MaxTmOps = 2
  MaxTmTime = 2
  TmOptions = "center"
  MaxTmSlack = 1
  Secondary = {c2}
  Boot = c1
  w1 = w1
  Wakers = {w1}
  RemoteWakers = {}
  MaxSuspends = 2
  MaxWakes = 1
  UtJobs <- NoJobs
  UtExcs = {1, 2}
  UtCalls = 1
  UtRaises = 1
  TkJobs = {"j1", "j2"}
  TkProcs = {"p1"}
  TkNone = "none"
  TkParent <- JobsAndProcess
  TkCritical <- NoneCritical
  TkActors = {t1, t2}
  MaxTkThreads = 1
SPECIFICATION ProgressSpec
CHECK_DEADLOCK FALSE
PROPERTIES
  IpcProgress LocksGranted DeferredWorkRuns WakeResumes TasksEnd
