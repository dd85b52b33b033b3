CONSTANTS
  \* Semaphore
  Threads = {a1, a2, a3}
  NoThread = NoThread
  InitialCount = 1
  MaxCalls = 6
  \* Mutex
  MxThreads = {a1, a2, a3}
  MxNone = none
  \* BrwLock
  BrThreads = {b1, b2, b3}
  BrNone = none
  Hi = b1
  BrPriority <- MCPriority
  MaxBrBackOffs = 2
  \* Futex
  FxThreads = {a1, a2, a3}
  FxIds = {f1, f2}
  FxNone = none
  MaxFxOps = 3
  MaxFxValue = 1
  \* Dpc
  DpcCpus = {c0, c1}
  DpcBoot = c0
  Dpcs = {d1, d2}
  DpcCallers = {q1, q2}
  MaxDpcQueues = 2
  MaxUnplugs = 2
  UnplugErrors = TRUE
  \* TimerQueue
  TqCpus = {c0, c1}
  TqBoot = c0
  TqTimers = {a1, a2, a3}
  TqDeadlines <- MCDeadlines
  MaxTqTime = 3
  MaxTqSets = 3
INIT KernelInit
NEXT KernelNext
SYMMETRY Symmetry
CHECK_DEADLOCK FALSE
INVARIANTS
  NoLostWakeup SemaphoreCounts
  MutexConsistent MutexNotFreedInUse
  BrwConsistent
  FutexConsistent FutexNoCycle FutexNoMissedWake
  DpcConsistent DpcWorkerWoken
  TqConsistent TqHardwareArmed
PROPERTIES
  Refinement MutexImplements BrwImplements
