SPECIFICATION FairLights
CONSTANTS
  Fixture <- Rig
  Layout <- MCLayout
  Address = {1, 2, 3, 4}
  Slots = 4
  Levels = 3
  Cue <- MCCue
  LightCue <- Looks
  Members <- Wash
  Shows <- MCRigs
  Firing = {"go", "loop"}
  Requests = {"param", "test", "clear", "channel", "blackout", "capture", "patch", "outputs", "open", "network"}
  MaxRequests = 2
  Keepalive = 1
  Numbers = 4
  Window = 2
INVARIANTS LightingSafety
PROPERTIES LampsFollow
