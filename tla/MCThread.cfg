CONSTANTS
  \* Channel
  t1 = t1
  t2 = t2
  t3 = t3
  Callers = {t1, t2}
  p1 = p1
  p2 = p2
  Client = p1
  Server = p2
  Threads = {t1, t2, t3}
  Procs = {p1, p2}
  None = None
  ProcOf <- MCProcOf
  FirstHolder <- MCFirstHolder
  TxidModulus = 3
  MaxCalls = 4
  MaxWrites = 2
  MaxMoves = 2
  \* UserThread
  UtJobs <- OneJob
  UtExcs = {1, 2}
  UtCalls = 3
  UtRaises = 1
  \* Suspend
  Secondary = {c1, c2}
  Boot = c0
  Wakers = {t1, t2}
  RemoteWakers = {}
  MaxSuspends = 2
  MaxWakes = 2
INIT MCThreadInit
NEXT MCThreadNext
CONSTRAINT Scenario
SYMMETRY Symmetry
VIEW MCThreadView
CHECK_DEADLOCK FALSE
INVARIANTS
  ChannelMessages ChannelCalls
  UserThreadConsistent UserThreadSuspended
  SuspendConsistent NoMissedWake
