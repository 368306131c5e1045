SPECIFICATION MCSpec
CONSTANTS
  Picked = {"playlists"}
  Navs <- MCNavs
  LastRoutes <- MCLastRoutes
  Queries = {"q", "l"}
  Links = {"l"}
  LinkNav <- MCLinkNav
  Topics = {"albums"}
  Params = {"loud"}
  Songs = {"x", "y"}
  MaxActs = 3
  MaxFails = 1
  LibraryKinds = {"tracks", "shows"}
  Savable = {"x", "y"}
  LibraryPageSize = 1
  LibraryLimit = 4
  Threads = {"t1", "t2"}
  MaxEdits = 4
INVARIANT RenamedAsTold
CHECK_DEADLOCK FALSE
