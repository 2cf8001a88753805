CONSTANTS
  t1 = t1
  t2 = t2
  t3 = t3
  r1 = r1
  r2 = r2
  c1 = c1
  c2 = c2
  s1 = s1
  s2 = s2
  user = user
  team = team
  None = None
  Task = {t1, t3}
  Runner = {r1, r2}
  Call = {c1, c2}
  SessionOf <- MCSessionOf
  ScopesOf <- MCScopesOf
  Limit <- MCLimit
  Attempts = 2
  MaxStalls = 1
  Happens = {"timeout", "crash", "replay", "remove"}
  MaxEvents = 3
SPECIFICATION FairSpec
CHECK_DEADLOCK FALSE
PROPERTIES TasksEnd
