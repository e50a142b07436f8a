CONSTANTS
  s1 = s1
  s2 = s2
  h1 = h1
  h2 = h2
  r1 = r1
  r2 = r2
  each = each
  odd = odd
  never = never
  leap = leap
  Event = Event
  Keep = Keep
  Schedulers = {s1}
  Hooks = {h1}
  Requests = {r1}
  Crons = {each, odd, never, leap}
  Matches <- MCMatches
  Horizon = 2
  Limit = 1
  Operations = {"create", "toggle", "update", "delete", "trigger"}
  MaxTime = 4
  MaxBreakdowns = 2
  MaxRequests = 3
SPECIFICATION SchedulerFairSpec
INVARIANTS
  EnabledHasNextRun
PROPERTIES
  NoDoubleFire
  DueIsServed
CHECK_DEADLOCK FALSE
