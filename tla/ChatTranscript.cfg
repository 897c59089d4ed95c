SPECIFICATION Spec
CONSTANTS
  Runs = {r1, r2}
  NoRun = NoRun
  Procs = {p1}
  NoProc = NoProc
  Tails = {t1}
  MaxFaults = 1
  Failing = {"agent", "db", "redis"}
  MaxFrames = 2
  MaxCrashes = 1
  EmptyRounds = 1
  StuckRounds = 2
CHECK_DEADLOCK FALSE
SYMMETRY Same
INVARIANTS
  ListIsOneRun
  NoGhostRun
  StoppedKeepsProgress
  BusyMeansRunning
