SPECIFICATION Spec
CONSTANTS
  a = a  b = b
  Calls = {a, b}
  NoOne = NoOne
  Errors <- MCErrors
INVARIANTS
  ReferenceFindsFailure AdviceMayHelp
