SPECIFICATION Spec
CONSTANTS
  w1 = w1
  w2 = w2
  w3 = w3
  w4 = w4
  Workers = {w1, w2, w3, w4}
  Count = 2
  None = None
CHECK_DEADLOCK FALSE
INVARIANTS
  FailureIsReported
