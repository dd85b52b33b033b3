CONSTANTS
  c1 = c1
  c2 = c2
  d1 = d1
  q1 = q1
  DpcCpus = {c1, c2}
  DpcBoot = c1
  Dpcs = {d1}
  DpcCallers = {q1}
  MaxDpcQueues = 1
  MaxUnplugs = 1
  UnplugErrors = FALSE
SPECIFICATION DpcSpec
PROPERTY
  DpcRunsAlways
CHECK_DEADLOCK FALSE
