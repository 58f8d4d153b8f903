SPECIFICATION FairSpec
CONSTANTS
  N = 2
  Cue <- List
  Voice = {v1, v2}
  NoVoice = NoVoice
  Shows <- LiveShows
  Operator = {"go_cue", "set_playhead", "stop_all", "stop_cue", "hard_stop_cue"}
  DeviceLoss = FALSE
  MaxChain = 3
  MaxCount = 2
PROPERTIES ChainReturns FiniteCueEnds FollowFires
