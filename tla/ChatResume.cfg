SPECIFICATION FairSpec
CONSTANTS
  Runs = {r1}
  NoRun = NoRun
  Procs = {p1}
  NoProc = NoProc
  Tails = {t1}
  MaxFaults = 2
  Failing = {"agent", "db", "redis"}
  MaxFrames = 3
  MaxCrashes = 1
  EmptyRounds = 1
  StuckRounds = 2
CHECK_DEADLOCK FALSE
INVARIANTS
  ResumeIsComplete
PROPERTIES
  ResumeEnds
