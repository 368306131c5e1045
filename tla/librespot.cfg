SPECIFICATION MCSpec
CONSTANTS
  Parts = {"librespot", "engine"}
  itemA = itemA
  itemB = itemB
  NoItem = NoItem
  Item <- TwoItems
  Lists <- PairOnly
  Duration = 1
  PreviousThreshold = 1
  PreloadWindow = 1
  Crossfades = {0}
  Behaviors = {"LoopTrack"}
  MaxFailures = 2
  MaxCommands = 3
  MaxEvents = 1
  MaxTracks = 3
  Outputs = {"cpal", "cubeb"}
  Cap = 2
  Period = 2
  Block = 2
  Frames = 3
  Volumes = {2}
  Chains = {"direct", "mono", "resampled"}
  MaxCalls = 3
  MaxRefusals = 1
  Local = {}
  Queued <- OnlyB
  trackR = trackR
  trackD = trackD
  Remote = {trackR}
  OnDisk = {trackD}
  Suggested = 1
  Offers <- MCOffers
  MaxEngineCommands = 2
  MaxFaults = 1
INVARIANTS SaysWhatItDoes BeginsWhereAsked StopIsFinal
PROPERTIES LoadEnds StopIsShown
CHECK_DEADLOCK FALSE
