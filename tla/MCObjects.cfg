CONSTANTS
  \* PortQueue
  Threads = {a1, a2, a3}
  None = None
  UserPackets = {u1, u2}
  KernelPackets = {k1}
  InterruptPackets = {i1}
  KeyOf <- OneKey
  BindToInterrupt = TRUE
  MaxPackets = 0
  MaxPosts = 4
  Servers = {}
  \* Interrupt
  IrqThreads = {a1, a2, a3}
  MaxIrqs = 3
  \* Fifo
  FifoEnds = {e0, e1}
  FifoCount = 2
  FifoModulus = 4
  FifoValues = {0, 1}
  \* Socket
  SockEnds = {e0, e1}
  SockWriters = {e0}
  Payload = 2
  SizeMax = 3
  Thresholds = {2}
  \* Handles
  HSlots = {a1, a2, a3}
  HProcs = {p0, p1}
  HObjects = {o0}
  HTasks = {o0}
  HGenerations = 2
  HWatched = {p0}
  MaxHAllocs = 3
  \* TimerDispatcher
  TmCpus = {c0, c1}
  TmCallers = {q1, q2}
  MaxTmOps = 3
  MaxTmTime = 2
  TmOptions = "center"
  MaxTmSlack = 1
INIT ObjectsInit
NEXT ObjectsNext
SYMMETRY Symmetry
CHECK_DEADLOCK FALSE
INVARIANTS
  PortConsistent NoStrandedPacket
  InterruptConsistent NoLostInterrupt
  FifoConsistent
  SocketConsistent SocketSignals
  HandlesConsistent
  TimerConsistent TimerSignalIsLatest
