CONSTANTS
  c0 = c0
  c1 = c1
  w1 = w1
  Boot = c0
  Secondary = {c1}
  Wakers = {w1}
  RemoteWakers = {w1}
  MaxSuspends = 1
  MaxWakes = 1
SPECIFICATION SuspendSpec
INVARIANT
  NoMissedWake
CHECK_DEADLOCK FALSE
