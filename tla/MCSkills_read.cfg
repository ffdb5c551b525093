SPECIFICATION Spec

CONSTANTS
  a = a
  b = b
  c = c
  p = p
  n1 = n1
  n2 = n2
  n3 = n3
  md = md
  csv = csv
  txt = txt
  dot = dot
  t1 = t1
  t2 = t2
  Malformed = Malformed
  NoToken = NoToken
  NoUrl = NoUrl
  NoFile = NoFile
  Nothing = Nothing
  Urls = {a, b, c, p}
  NamedBy <- MCNamedBy
  Odd = {n2}
  Predefined = {n1}
  Chats <- MCChats
  Configs <- MCConfigs
  Hidden = {dot}
  Files = {md, csv, txt, dot}
  Listings <- MCListings
  PerMessage = 3
  MaxSkills = 2
  MaxFiles = 2
  MaxPages = 2
  Calls = {1, 2}

INVARIANTS
  NoSilentLoss
  BudgetKept
  ListedCanBeRead

CHECK_DEADLOCK FALSE
