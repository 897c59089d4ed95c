SPECIFICATION FairSpec
CONSTANTS
  Docs = {d1}
  Workers = {w1}
  NoWorker = NoWorker
  Reqs = {r1}
  NoDoc = NoDoc
  NoJobDoc = NoJobDoc
  Attempts = 3
  MaxStalled = 1
  Others = TRUE
  Gens = {1, 2, 3, 4}
  Parts = {p1}
  MaxFaults = 2
  Faulty = {"api", "worker"}
  MaxCrashes = 1
  GraphUp = TRUE
  Ops = {"upload", "approve", "reject", "index", "graph", "remove"}
  Content <- OwnContent
  Copied = {d1}
CHECK_DEADLOCK FALSE
INVARIANTS
  InFlightHasJob
PROPERTIES
  Settles
  LifecycleSpec
