SPECIFICATION FairSpec
CONSTANTS
  u1 = u1
  u2 = u2
  w1 = w1
  w2 = w2
  d1 = d1
  d2 = d2
  nodept = nodept
  Users = {u1, u2}
  Spaces = {w1, w2}
  Departments = {d1, d2}
  Sysadmins = {u2}
  NoDepartment = nodept
  Watched = {u1}
  NewSpace = w2
  Calls = 2
  Ops <- AllOps
CHECK_DEADLOCK FALSE
INVARIANT StaleOnlyByRace
PROPERTY RevokedIsForgotten
