SPECIFICATION FairSpec
CONSTANTS
  w1 = w1
  w2 = w2
  nows = nows
  company = company
  Workspaces <- MCWorkspaces
  NoWorkspace = nows
  CompanyWorkspace = company
  Chunks <- MCChunks
  Requests <- MCRequests
  MaxIterations = 4
  WebEnabled = TRUE
  LoopEnabled = TRUE
  FastPath = TRUE
  RecursionLimit = 25
  MaxFaults = 1
CHECK_DEADLOCK FALSE
INVARIANTS ScopeRespected PrivateStaysInside NoStrayCallback StepsRecorded
PROPERTY Answered
