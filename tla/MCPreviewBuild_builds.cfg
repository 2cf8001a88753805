CONSTANTS
  b1 = b1
  b2 = b2
  s1 = s1
  user = user
  None = None
  Worker = Worker
  Build = {b1, b2}
  Request = {q1, q2}
  SessionOf <- MCSessionOf
  ScopesOf <- MCScopesOf
  Limit <- MCLimit
  Happens = {"stop", "cancel", "error", "lost", "crash", "worker_crash"}
  MaxEvents = 1
SPECIFICATION FairSpec
CHECK_DEADLOCK FALSE
INVARIANTS TypeOK NoOversell
PROPERTY BuildEnds
