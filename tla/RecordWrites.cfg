CONSTANTS
  x = x
  y = y
  s1 = s1
  s2 = s2
  socket = socket
  stream = stream
  NoRecord = NoRecord
  posts = posts
  notes = notes
  Sessions = {s1, s2}
  Records = {x, y}
  Changes <- MCChanges
  a = a
  b = b
  NoContent = NoContent
  Contents = {a, b}
  MaxEntries = 8
  Clients = {socket, stream}
  Streams = {stream}
  Events <- MCEvents
  Watched = posts
  Collections = {posts, notes}
  MaxMoves = 4
  Dialects = {"postgresql", "sqlite"}
  MaxBatch = 2
  MaxWrites = 4
  MaxBefore = 1
  MaxSteps = 6
  MaxSkips = 1
SPECIFICATION Spec
SYMMETRY MCSymmetry
INVARIANTS
  ChainVerifies
  LinksAreKept
  LastEntryIsCurrent
  OldIsPrevious
  HeardIsAudited
  SteadyHears
CHECK_DEADLOCK FALSE
