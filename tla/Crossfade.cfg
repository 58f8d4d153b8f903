SPECIFICATION FairFadeSpec
CONSTANTS
  Fade <- MCFade
  Picture <- MCPicture
  Plan <- MCPlan
  Screen <- MCScreen
  Slow = {"b"}
  Span = 2
  LastVoice = 2
  MaxCalls = 2
INVARIANTS FadeSafety SoundComes
PROPERTIES FadeEnds
CHECK_DEADLOCK FALSE
