CONSTANTS
  u1 = u1
  u2 = u2
  UserSeq <- MCUserSeq
  Owner = u1
  Admins = {u2}
  Op <- LiveOps
  Kind <- MCKind
  UserOf <- MCUserOf
  Repo = Repo
  Deploy = Deploy
  Nobody = Nobody
  MaxAttempts = 2
  MaxFaults = 1
SPECIFICATION FairSpec
CHECK_DEADLOCK FALSE
PROPERTIES RemovalEnds OperationsEnd
