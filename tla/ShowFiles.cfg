SPECIFICATION FairSpec
CONSTANTS
  Path = {"p", "q"}
  MaxWork = 2
  MaxShows = 2
  Sessions = 2
INVARIANTS SnapshotSafety
PROPERTIES SavesAreWhole SnapshotFollows
CHECK_DEADLOCK FALSE
