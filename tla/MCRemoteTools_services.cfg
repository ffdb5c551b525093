SPECIFICATION Spec
CONSTANTS
  a = a  b = b  z = z  old = old
  x = x  y = y  doc = doc
  far = far  near = near  inner = inner  off = off
  Calls = {a, b, z}
  Urls = {x, y}
  Workspace = {doc}
  Hosts = {far, near, inner, off}
  Public = {far, near, off}
  MaxRedirects = 2
  MaxSessions = 3
  NoSession = NoSession
  Site <- MCSite
  Scripts <- MCScripts
INVARIANTS
  ThreadContinues CodeSeesItsInputs AloneKeepsItsClient
