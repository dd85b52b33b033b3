CONSTANTS
  e0 = e0
  e1 = e1
  FifoEnds = {e0, e1}
  FifoCount = 3
  FifoModulus = 8
  FifoValues = {0, 1}
SPECIFICATION FifoSpec
INVARIANT
  FifoInOrder
CHECK_DEADLOCK FALSE
