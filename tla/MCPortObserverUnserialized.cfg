CONSTANTS
  t1 = t1
  t2 = t2
  o1 = o1
  d1 = d1
  h1 = h1
  k1 = k1
  s1 = s1
  Threads = {t1, t2}
  Observers = {o1}
  Objects = {d1}
  Handles = {h1}
  Keys = {k1}
  Signals = {s1}
  None = None
  ObjectOf <- OneObject
  SizeModulus = 8
  SerializedCancelKey = FALSE
SPECIFICATION Spec
INVARIANTS
  NoDanglingObserver
CHECK_DEADLOCK FALSE
