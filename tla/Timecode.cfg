SPECIFICATION FairSpec
CONSTANTS
  Cue = {"late"}
  Day = 3
  Base = 2
  Pieces = 2
  Step = 1
  Sources = {"mtc", "ltc"}
  Starts = {1}
  Trigs <- OneTrig
  Keyed = {"late"}
  QueueMax = 1
  MaxEvents = 1
INVARIANTS TimecodeSafety TriggersKept
PROPERTIES RoundsFire
CHECK_DEADLOCK FALSE
