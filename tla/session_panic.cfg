SPECIFICATION MCSpec
CONSTANTS
  Parts = {"service"}
  Callers = {c1}
  Updaters = {u1}
  Nobody = Nobody
  MaxSessions = 2
  MaxConfigs = 2
  Malformed = TRUE
  Aps = {"a1", "a2"}
  Fallback = "fallback"
  Proxies = {"none", "socks", "bad"}
  MayBeSilent = TRUE
  MaxEncoded = 3
  MaxFaults = 1
  Symbols = {1, 2}
  MaxParts = 2
  MaxLength = 1
  MaxMessages = 3
  MaxRequests = 2
  SeqSize = 2
INVARIANT ConnectedIsServiced
CHECK_DEADLOCK FALSE
