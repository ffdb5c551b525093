SPECIFICATION Spec
CONSTANTS
  t = t  u = u  v = v  d = d
  s1 = s1  s2 = s2
  Toolsets = {t, u, v}
  Deployments = {d}
  Searches = {s1, s2}
  MaxCalls = 3
  Invented = 0
  MaxFound = 2
  MaxPages = 2
  Scripts <- MCScripts
  BuiltIn = "builtin"
  Directories <- MCDirectories
  Blank = Blank
  Unset = Unset
  Null = Null
  Unreadable = Unreadable
  Invalid = Invalid
  Toolset <- MCToolset
  Tool <- MCTool
INVARIANTS
  IssueOrTools OfferMatchesToolsets
PROPERTIES
  BlockGrowsAtEnd
