SPECIFICATION MCSpec
CONSTANTS
  Parts = {"tokens", "accounts"}
  Callers = {"c1", "c2"}
  Kinds <- KindsOfCalls
  MaxGrants = 3
  MaxSessions = 3
  Users = {"ann", "bob"}
  Keys = {"k"}
  Services = {{"spotify"}, {"lastfm"}}
  MaxLogins = 2
  MaxWindows = 3
  MaxDeaths = 1
INVARIANTS LoginIsKept OneLibrespotSession AccountAgrees
CHECK_DEADLOCK FALSE
