SPECIFICATION FairSpec
CONSTANTS
  g = g  t = t  x = x  e = e  s = s  w = w
  CallIds = {g, w}
  NoCall = NoCall
  Tools = {"get_content", "plain", "unknown", "client", "quiet"}
  ToolOf <- MCToolOf
  RegisteredTools = {"get_content", "plain", "quiet"}
  ExternalTools = {"client"}
  SuppressedTools = {"quiet"}
  DeferCloseTools = {"get_content"}
  GetContentTools = {"get_content"}
  MalformedArgs = {w}
  Urls = {}
  MaxIterations = 2
  MaxBatch = 2
  MaxBrought = 1
  NumHooks = 1
  NumClosers = 1
  MayCancel = FALSE
  MayHardStop = FALSE
INVARIANTS
  ToolChoiceOnFirstIteration StagesClosedOnExit
