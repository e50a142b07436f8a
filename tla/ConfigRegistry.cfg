CONSTANTS
  acme = acme
  p = p
  q = q
  a1 = a1
  a2 = a2
  r1 = r1
  v1 = v1
  v2 = v2
  System = System
  Off = Off
  NoRow = NoRow
  NoEntry = NoEntry
  Masked = Masked
  Accounts = {acme}
  Providers = {p, q}
  Values = {v1, v2}
  Admins = {a1, a2}
  Readers = {r1}
  Builtin <- MCBuiltin
  InitialRows <- MCInitialRows
  Requests <- MCRequests
  TTL = 2
  Queries <- MCQueries
  MaxRequests = 2
SPECIFICATION Spec
INVARIANTS
  AnswersAreRecent
  OwnChangeIsSeen
  DefaultsAreSound
SYMMETRY Symmetry
CHECK_DEADLOCK FALSE
