\* The callbacks of the hook registry, API-defined hooks and custom endpoints.
SPECIFICATION MCSpec
CONSTANTS
    Writers <- McWriters
    Managers <- McManagers
    Callers <- McCallers
    Rows <- McRows
    Customs <- McCustoms
    CustomHook <- McCustomHook
    Events <- McEvents
    Collections <- McCollections
    AnyCollection = any
    NoRow = NoRow
    NoRun = NoRun
    Ended = Ended
    Ids <- McIds
    Editors <- McEditors
    Routes <- McRoutes
    Fits <- McFits
    Incoming <- McIncoming
    Lists <- McLists
    MaxEndpoints = 1
    MaxRegistrations = 3
    NoEndpoint = NoEndpoint
    w1 = w1  m1 = m1  c1 = c1  r1 = r1  r2 = r2
    i1 = i1  i2 = i2  e1 = e1  e2 = e2
    posts = posts  users = users  any = any
INVARIANTS
    AuditedUnlessStopped
    SteadyHookRuns
    LogsAreTrue
    LimitIsKept
CHECK_DEADLOCK FALSE
