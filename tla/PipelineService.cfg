SPECIFICATION FairSpec
CONSTANTS
  t1 = t1
  t2 = t2
  w1 = w1
  w2 = w2
  n1 = n1
  f1 = f1
  f2 = f2
  g = g
  j1 = j1
  j2 = j2
  None = None
  Readers <- OneReader
  Downloaders <- TwoDownloaders
  Notifiers <- OneNotifier
  Paths <- SomePaths
  Loaded <- LoadedPaths
  Jobs <- TwoJobs
  NullFclose <- EitherOutcome
INVARIANT OneJobPerPath
PROPERTIES EveryJobEnds ImplementsService
CHECK_DEADLOCK FALSE
