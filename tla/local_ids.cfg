SPECIFICATION MCSpec
CONSTANTS
  Parts = {"local"}
  Callers = {c1, c2, c3}
  MaxInFlight = 1
  MaxAttempts = 1
  MinDelay = 2
  MaxExp = 1
  MaxDelay = 4
  RetryAfters = {0, 3, 5}
  Second = 2
  MaxCalls = 4
  CacheCallers = {"c1", "c2"}
  Wants <- MCWants
  Edits = {"save_album"}
  Contents <- MCContents
  Limit = 2
  Paginated = 3
  ImageCache = 1
  MaxLoads = 2
  MaxKills = 0
INVARIANT OnePathOneId
CHECK_DEADLOCK FALSE
