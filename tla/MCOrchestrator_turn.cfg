SPECIFICATION FairSpec
CONSTANTS
  g = g  t = t  x = x  e = e  s = s  w = w
  CallIds = {g, t, x, e, s, w}
  NoCall = NoCall
  Tools = {"get_content", "plain", "unknown", "client", "quiet"}
  ToolOf <- MCToolOf
  RegisteredTools = {"get_content", "plain", "quiet"}
  ExternalTools = {"client"}
  SuppressedTools = {"quiet"}
  DeferCloseTools = {"get_content"}
  GetContentTools = {"get_content"}
  MalformedArgs = {w}
  Urls = {"u1"}
  MaxIterations = 2
  MaxBatch = 3
  MaxBrought = 1
  NumHooks = 1
  NumClosers = 1
  MayCancel = TRUE
  MayHardStop = TRUE
INVARIANTS
  TypeOK NoToolDuringModelCall StagesClosedOnSuccess StageShowsTheMessage
  ReplayableHistory ModelCallsBounded
  StateSaved
PROPERTIES
  ImplementsAgentTurn RequestEnds
