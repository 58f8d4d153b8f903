SPECIFICATION FairSpec
CONSTANTS
  N = 3
  Cue <- List
  Voice <- List
  NoVoice = NoVoice
  Groups <- MixedGroups
  Operator = {"go", "stop", "hard_stop", "pause", "resume", "park"}
  MaxPresses = 4
INVARIANTS GroupSafety PlayheadMovesOn
PROPERTIES TickCutsNothing GroupEnds
