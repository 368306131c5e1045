SPECIFICATION MCSpec
CONSTANTS
  Parts = {"load"}
  Loaders = {"l1"}
  Items = {"track", "alternative"}
  Metadata <- TrackAndAlternative
  Home = "home"
  MaxAttempts = 5
  Bitrates = {160}
  MaxCrashes = 0
  MaxTime = 3
  Limit = 5
  MaxReaderSeeks = 1
  MaxFailures = 1
  NoCopy = NoCopy
  Samples = 9
  PacketSize = 3
  RingSize = 4
  Chunk = 2
  MailboxSize = 4
  MaxSeeks = 2
  SeeksFail = FALSE
  PacketsFail = TRUE
  Unknown = Unknown
INVARIANT UrlIsLive
CHECK_DEADLOCK FALSE
