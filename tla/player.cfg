SPECIFICATION MCSpec
CONSTANTS
  Parts = {"player", "output"}
  itemA = itemA
  itemB = itemB
  NoItem = NoItem
  Item <- TwoItems
  Lists <- PairOnly
  Duration = 2
  PreviousThreshold = 1
  PreloadWindow = 1
  Crossfades = {0, 1}
  Behaviors = {"LoopAll"}
  MaxFailures = 2
  MaxCommands = 4
  MaxEvents = 2
  MaxTracks = 3
  Outputs = {"cpal", "cubeb"}
  Cap = 2
  Period = 2
  Block = 2
  Frames = 3
  Volumes = {2}
  Chains = {"direct", "mono", "resampled"}
  MaxCalls = 3
  MaxRefusals = 1
  Local = {}
  Queued <- OnlyB
  trackR = trackR
  trackD = trackD
  Remote = {trackR}
  OnDisk = {trackD}
  Suggested = 1
  Offers <- MCOffers
  MaxEngineCommands = 2
  MaxFaults = 1
INVARIANTS SinkPlaysState HeardInOrder
PROPERTIES FadesIntoQueueCurrent LoadingEnds QueueRunsOut SoundsAsAsked
CHECK_DEADLOCK FALSE
