CONSTANTS
  t1 = t1
  t2 = t2
  t3 = t3
  Callers = {t1, t2}
  p1 = p1
  p2 = p2
  Client = p1
  Server = p2
  Threads = {t1, t2, t3}
  Procs = {p1, p2}
  None = None
  ProcOf <- MCProcOf
  FirstHolder <- MCFirstHolder
  TxidModulus = 8
  MaxCalls = 1
  MaxWrites = 0
  MaxMoves = 1
SPECIFICATION Spec
INVARIANT
  MovedCallsCanceled
CHECK_DEADLOCK FALSE
