SPECIFICATION MCSpec
CONSTANTS
  Parts = {"queue", "view"}
  NoItem = NoItem
  Item = {"a", "b", "c"}
  Lists <- SomeLists
  MaxTracks = 3
  MaxUserItems = 1
  ViewItems = {"a", "b", "c", "d", "s"}
  Episodes = {"b"}
  Locals = {"a"}
  ViewLists <- ThreeTracks
  QueuedLists <- TwoQueued
  Suggested <- MCSuggested
  ViewBehaviors = {"Sequential", "LoopTrack"}
  MaxCommands = 2
  MaxEnds = 1
  MaxLaunches = 1
INVARIANTS PlayOrderIsPermutation MirrorKnowsPlayer UpcomingAgrees SnapshotIsShown
PROPERTIES ImplementsPlayOrder SuggestionsAreForWhatPlays AutoplayGoesOn
CHECK_DEADLOCK FALSE
