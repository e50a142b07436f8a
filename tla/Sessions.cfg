CONSTANTS
  u1 = u1
  r1 = r1
  r2 = r2
  a = a
  b = b
  NoUser = NoUser
  NoEmail = NoEmail
  Users = {u1}
  Emails = {a, b}
  Requests = {r1, r2}
  MaxTokens = 3
  MaxLinks = 2
  MaxStarts = 4
SPECIFICATION Spec
SYMMETRY MCSymmetry
INVARIANTS
  TokensFormChains
  LiveTokensAreRecent
  LinksWorkOnce
CHECK_DEADLOCK FALSE
