SPECIFICATION FairTools
CONSTANTS
  a = a  r = r
  Calls = {a, r}
  Reads = {r}
  NoCall = NoCall
  Toolsets = {"dial", "plain"}
  ToolsetOf <- SameToolset
  NoHandle = NoHandle
  DialToolsets = {"dial"}
  MayTimeOut = TRUE
  MayOutlive = FALSE
  Uris = {"u", "v"}
  Registries <- MCRegistries
  MaxBlocks = 1
  Parts <- MCParts
  DialHost = "core"
INVARIANTS
  RunsOnceUnlessSignedIn SharedBeforeRun ResultIsOfLastRun
PROPERTIES
  ToolCallsEnd
