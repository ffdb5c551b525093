SPECIFICATION FairSpec
CONSTANTS
  a = a  b = b  c3 = c3
  Calls = {a, b}
  Reads = {}
  NoCall = NoCall
  Toolsets = {"dial", "plain"}
  ToolsetOf <- OneToolset
  NoHandle = NoHandle
  DialToolsets = {"dial"}
  MayTimeOut = TRUE
  MayOutlive = FALSE
INVARIANTS
  SessionsClosedAtEnd
