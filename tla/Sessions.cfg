SPECIFICATION FairSpec
CONSTANTS
  b1 = b1
  b2 = b2
  Requests = {b1, b2}
  Acts = 1
  Ops = {"disable", "enable", "approve", "logoutAll"}
  MaxPairs = 3
  MaxCrashes = 1
CHECK_DEADLOCK FALSE
INVARIANTS DisabledHasNoSessions StoreIsLive
PROPERTY LockedOut
