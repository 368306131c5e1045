SPECIFICATION MCSpec
CONSTANTS
  Picked = {"pages", "library", "playlists"}
  Navs <- MCNavs
  LastRoutes <- MCLastRoutes
  Queries = {"q", "l"}
  Links = {"l"}
  LinkNav <- MCLinkNav
  Topics = {"albums"}
  Params = {"loud"}
  Songs = {"x", "y"}
  MaxActs = 3
  MaxFails = 1
  LibraryKinds = {"tracks", "shows"}
  Savable = {"x", "y"}
  LibraryPageSize = 1
  LibraryLimit = 4
  Threads = {"t1", "t2"}
  MaxEdits = 4
INVARIANTS DeferredIsAsked PageIsOfNav LibraryIsServers EditsReachServer
CHECK_DEADLOCK FALSE
