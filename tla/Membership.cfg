CONSTANTS
  r1 = r1
  r2 = r2
  p = p
  q = q
  x = x
  y = y
  NoEmail = NoEmail
  Emails = {p, q}
  Names = {x, y}
  Requests = {r1, r2}
  Scenes = {"invite", "sso", "register", "groups", "roles", "keys"}
  Edits <- MCEdits
  KeyLimit = 1
  MaxMade = 5
  MaxStarts = 4
SPECIFICATION Spec
SYMMETRY MCSymmetry
INVARIANTS
  AcceptedHasUser
  OneUserPerPerson
  AccountHasAdmin
CHECK_DEADLOCK FALSE
