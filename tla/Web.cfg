SPECIFICATION WebSpec
CONSTANTS
  Sentences = 3
  MaxGen = 2
  MaxFails = 1
  MaxDocs = 2
  Matching = {1}
  Slots = 2
  Events = 2
  Threads = {a, b}
  NoThread = NoThread
  Frames = 2
  MaxSessions = 3
  Moves = 4
CHECK_DEADLOCK FALSE
INVARIANTS OnlyLatestPlays InOrder NoEmptyPage EveryFrameOnce
PROPERTIES SpeakEndsUnlessKilled DoneIsShown GeneratingEnds
