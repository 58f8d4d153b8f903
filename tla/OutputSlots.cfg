SPECIFICATION FairSpec
CONSTANTS
  Cue <- MCCue
  Extra = {"side"}
  SlotsPer = 1
  LastVoice = 2
  Trials <- MCTrials
INVARIANTS OutputSafety
PROPERTIES PictureComes StopFreesRevealed
CHECK_DEADLOCK FALSE
