CONSTANTS
  Sounds = {clip}
  Tracks = {tune}
  NoObject = nobody
  MaxVoices = 2
  MaxIds = 3
SPECIFICATION AudioSpec
INVARIANTS
  VoicesAccounted
  PlaybackTruthful
  EndDeliveredOnce
PROPERTY CommandsSettled
CHECK_DEADLOCK FALSE
