SPECIFICATION Spec
CONSTANTS
  t1 = t1
  t2 = t2
  l1 = l1
  l2 = l2
  alice = alice
  bob = bob
  carol = carol
  Users <- OnlyAlice
  Threads <- TwoThreads
  Logins <- NoLogins
  auth_mode <- Modes
  Lifetimes <- TwoLifetimes
  Omissions <- Nothing
  MaxTime = 3
INVARIANT ExpiryIsTheTokens
