CONSTANTS
  o1 = o1
  o2 = o2
  h1 = h1
  h2 = h2
  w1 = w1
  w2 = w2
  Ops = {o1}
  Webhooks = {h1}
  Workers = {w1, w2}
  Jobs <- MCJobs
  MaxAttempts = 2
  MaxMishaps = 3
  MaxAdmin = 2
SPECIFICATION FairSpec
INVARIANTS
  DeliveredWasAccepted
  PendingIsUnderway
PROPERTIES
  EveryDeliveryEnds
CHECK_DEADLOCK FALSE
