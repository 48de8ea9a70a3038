SPECIFICATION Spec
CONSTANTS
  t1 = t1
  t2 = t2
  a = a
  b = b
  Threads <- TwoThreads
  Names <- OneName
  MaxEntries = 1
  MaxCuts = 1
  ErrorPages = FALSE
INVARIANTS Reassembled
CHECK_DEADLOCK FALSE
