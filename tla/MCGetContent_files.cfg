SPECIFICATION Spec

CONSTANTS
  pic = pic
  note = note
  web = web
  rel = rel
  host = host
  folder = folder
  about1 = about1
  image = image
  doc = doc
  Plain = Plain
  Unlisted = Unlisted
  NoType = NoType
  Folders = {folder}
  Files <- MCFiles
  Refs <- MCRefs
  Kind <- MCKind
  HomeUrl <- MCHomeUrl
  Guess <- MCGuess
  Served <- MCServed
  Declared = {image, doc}
  Narrowed = {image}
  Images = {image}
  Holdings <- MCHoldings
  ContextLists <- MCContextLists
  Uploads <- MCUploads
  MaxTurns = 2
  MaxCalls = 1

INVARIANTS
  ContextTold
  ListedCanBeLoaded
  AttachedIsDelivered
  HistoryIsLight

CHECK_DEADLOCK FALSE
