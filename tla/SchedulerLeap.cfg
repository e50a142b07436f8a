CONSTANTS
  s1 = s1
  s2 = s2
  h1 = h1
  h2 = h2
  r1 = r1
  r2 = r2
  each = each
  odd = odd
  never = never
  leap = leap
  Event = Event
  Keep = Keep
  Schedulers = {s1}
  Hooks = {h1}
  Requests = {r1}
  Crons = {leap}
  Matches <- MCMatches
  Horizon = 2
  Limit = 1
  Operations = {"toggle"}
  MaxTime = 4
  MaxBreakdowns = 0
  MaxRequests = 0
SPECIFICATION SchedulerSpec
PROPERTIES
  TickServesAllDue
CHECK_DEADLOCK FALSE
