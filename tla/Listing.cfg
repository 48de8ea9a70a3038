SPECIFICATION Spec
CONSTANTS
  t1 = t1
  t2 = t2
  a = a
  b = b
  Threads <- OneThread
  Names <- TwoNames
  MaxEntries = 3
  MaxCuts = 3
  ErrorPages = TRUE
INVARIANTS TypeOK Reassembled NothingLeftOver WholeScopesListed
CHECK_DEADLOCK FALSE
