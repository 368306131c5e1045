SPECIFICATION MCSpec
CONSTANTS
  Parts = {"service", "connect", "mercury"}
  Callers = {c1, c2}
  Updaters = {u1}
  Nobody = Nobody
  MaxSessions = 2
  MaxConfigs = 2
  Malformed = TRUE
  Aps = {"a1", "a2"}
  Fallback = "fallback"
  Proxies = {"none", "socks", "bad"}
  MayBeSilent = TRUE
  MaxEncoded = 3
  MaxFaults = 1
  Symbols = {1, 2}
  MaxParts = 2
  MaxLength = 1
  MaxMessages = 3
  MaxRequests = 2
  SeqSize = 2
INVARIANTS NoSessionLeaks InStep ResponseIsWhole
PROPERTIES CallerReturns OpenEnds
CHECK_DEADLOCK FALSE
