SPECIFICATION Spec
CONSTANTS
  a = a  b = b
  NoKey = NoKey
  KeyConfig <- MCKeyConfig
  Calls = {a, b}
  Unknown = Unknown
  FunctionNames = {"python", "mcp", "web", "quiet"}
  SuppressedNames = {"quiet"}
  Presentation <- MCPresentation
  Scripts <- MCScripts
  StageIndexes = {0}
INVARIANTS
  OpenStagesOwned ShowsTheRequest StreamedIsHonest
