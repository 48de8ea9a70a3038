SPECIFICATION Spec
CONSTANTS
  t1 = t1
  t2 = t2
  Threads <- TwoThreads
  DiDs <- ThreeDids
  Type <- ThreeTypes
  Bytes <- ThreeSizes
  Dirs <- OneDir
  Contents <- OneContent
  IntMax = 3
  unset = unset
  Garbage <- Unset
  chache_duration = 1
  MaxCall = 1
  MaxTime = 2
  Failures = TRUE
  Refusals = TRUE
CHECK_DEADLOCK FALSE
INVARIANTS TypeOK AnswersAreFresh ListedIsKnown KindsAreGiven SizesAreGiven
SYMMETRY Symmetric
