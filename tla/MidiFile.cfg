SPECIFICATION FairSpec
CONSTANTS
  Thread = {t1, t2}
  Key = {"c", "e"}
  Files = {"song", "jingle"}
  Score <- MCScore
  Rates = {1, 2}
  Cues <- MCCues
  Positions = {1}
  Calling = {"go", "stop", "pause", "resume", "seek", "update", "set_file", "unplug"}
  MaxCalls = 3
  Horizon = 3
INVARIANTS NothingHangs PlayerIsTheCues TempoMapKept
PROPERTIES FallsSilent
CHECK_DEADLOCK FALSE
