SPECIFICATION Spec
CONSTANTS
  N = 3
  Cue <- List
  Voice = {v1, v2, v3}
  NoVoice = NoVoice
  Shows <- TransportShows
  Operator = {"go", "hard_stop_all", "pause_cue", "resume_cue"}
  DeviceLoss = TRUE
  MaxChain = 4
  MaxCount = 3
SYMMETRY VoiceSymmetry
INVARIANTS TypeOK VoiceOwnership LoopReachable AutoContinueOnce PanicHolds
