SPECIFICATION KnowledgeSpec
CONSTANTS
  MaxChanges = 3
  MaxGen = 2
  WindowSize = 3
  MaxRounds = 3
  MaxFaults = 1
  ParentMax = 9
  ChildMax = 5
  Overlap = 2
  MaxItems = 3
  MaxLines = 5
  Workspaces = {"w1", "w2"}
  Files = {1, 2, 3}
  Home <- HomeOf
  Names = {"a", "b"}
  RelationTypes = {"MANAGES", "RELATED_TO"}
  MaxHops = 2
  MaxParts = 1
  MaxBuilds = 3
CHECK_DEADLOCK FALSE
INVARIANTS FoundCanBeOpened OfferedIsPermitted AnswerWasAllowed EmptyOnlyByRace Remembered TextIsKept GraphFollowsFiles HitsCanBeOpened
