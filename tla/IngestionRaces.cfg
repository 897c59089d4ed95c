SPECIFICATION Spec
CONSTANTS
  Docs = {d1}
  Workers = {w1, w2}
  NoWorker = NoWorker
  Reqs = {r1, r2}
  NoDoc = NoDoc
  NoJobDoc = NoJobDoc
  Attempts = 2
  MaxStalled = 1
  Others = TRUE
  Gens = {1, 2}
  Parts = {p1}
  MaxFaults = 0
  Faulty = {}
  MaxCrashes = 2
  GraphUp = TRUE
  Ops = {"upload", "approve", "reject", "index", "graph", "remove"}
  Content <- OwnContent
  Copied = {}
SYMMETRY Slots
CHECK_DEADLOCK FALSE
INVARIANTS
  OneWorkerPerDocument
  InsertFindsNoRows
  PurgedStaysPurged
  NoStaleHits
