CONSTANTS
  u1 = u1
  u2 = u2
  UserSeq <- MCUserSeq
  Owner = u1
  Admins = {}
  Op <- EditOps
  Kind <- MCKind
  UserOf <- MCUserOf
  Repo = Repo
  Deploy = Deploy
  Nobody = Nobody
  MaxAttempts = 2
  MaxFaults = 1
SPECIFICATION Spec
CHECK_DEADLOCK FALSE
INVARIANTS TypeOK RemovalExcludesWriters WritersHaveTree NoUntrackedFiles
