SPECIFICATION Spec
CONSTANTS
  t1 = t1
  t2 = t2
  l1 = l1
  l2 = l2
  alice = alice
  bob = bob
  carol = carol
  Users <- Everyone
  Threads <- OneThread
  Logins <- TwoLogins
  auth_mode <- Modes
  Lifetimes <- ThisSecond
  Omissions <- Either
  MaxTime = 2
INVARIANTS TypeOK OwnTokenUnlessOidc OidcOkMeansToken
SYMMETRY LoginSymmetry
