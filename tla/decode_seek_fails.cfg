SPECIFICATION MCSpec
CONSTANTS
  Parts = {"decode"}
  Loaders = {"l1"}
  Items = {"track", "alternative"}
  Metadata <- TrackAndAlternative
  Home = "home"
  MaxAttempts = 5
  Bitrates = {160, 320}
  MaxCrashes = 1
  MaxTime = 0
  Limit = 5
  MaxReaderSeeks = 1
  MaxFailures = 1
  NoCopy = NoCopy
  Samples = 6
  PacketSize = 3
  RingSize = 2
  Chunk = 2
  MailboxSize = 4
  MaxSeeks = 1
  SeeksFail = TRUE
  PacketsFail = FALSE
  Unknown = Unknown
INVARIANT DecodeGoesOn
CHECK_DEADLOCK FALSE
