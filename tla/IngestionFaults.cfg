SPECIFICATION Spec
CONSTANTS
  Docs = {d1}
  Workers = {w1, w2}
  NoWorker = NoWorker
  Reqs = {r1}
  NoDoc = NoDoc
  NoJobDoc = NoJobDoc
  Attempts = 2
  MaxStalled = 1
  Others = TRUE
  Gens = {1, 2, 3, 4}
  Parts = {p1, p2}
  MaxFaults = 2
  Faulty = {"api", "worker"}
  MaxCrashes = 1
  GraphUp = TRUE
  Ops = {"upload", "approve", "index", "remove", "publish", "withdraw"}
  Content <- OwnContent
  Copied = {d1}
SYMMETRY Slots
CHECK_DEADLOCK FALSE
INVARIANTS
  ReadyIsSearchable
  GraphMatchesChunks
