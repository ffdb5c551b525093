SPECIFICATION Spec
CONSTANTS
  i1 = i1  i2 = i2  e1 = e1  e2 = e2  h1 = h1  h2 = h2  f1 = f1
  k1 = k1  k2 = k2  r1 = r1  t1 = t1  t2 = t2  t3 = t3
  OwnCalls = {i1, i2}
  ClientCalls = {e1, e2}
  HookCalls = {h1, h2}
  FileCalls = {f1}
  Picks <- TwoSkills
  Eager <- OneResource
  StampCalls = {t1, t2, t3}
  NoCall = NoCall
  MaxBatch = 2
  MaxResults = 3
  MaxMessages = 6
INVARIANTS
  PromptWellPaired OwnResultsKept
SYMMETRY Alike
