SPECIFICATION FairSpec
CONSTANTS
  a = a  b = b  z = z
  r = r  g = g  h = h
  x = x  y = y  w = w
  Calls = {a, b, z}
  Files = {r, g, h}
  Blank = {g}
  Large = {h}
  Open = {r}
  Urls = {x, y}
  Hosts = {w}  Public = {w}  MaxRedirects = 0
  Site <- MCSite
  NoSession = NoSession
  Scripts <- MCScripts
INVARIANTS
  ReadsSeeOwnWrites OneUploadPerUrl
PROPERTIES
  OnlyWhatWasSeen CallsEnd
