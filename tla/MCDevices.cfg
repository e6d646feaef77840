SPECIFICATION Spec
CONSTANTS
  Devices = {d1, d2}
  NoDevice = nodev
  Keyboards = {d1, d2}
  Pointers = {d2}
  EiKeys = {k}
  EiMods = {m}
  EiButtons = {b}
  EiCaps = caps
  MaxCmds = 2
  MaxOffers = 4
  Backends = {"wasapi", "mac", "pulse", "mic", "camera"}
  MaxStarts = 3
  SlotCap = 3
  FrameLen = 2
  AudioFormats = {f48, f44}
  OpusFormats = {f48}
  SameFormat = TRUE
  Frame = 2
  MaxChunk = 3
  QueueDepth = 2
  MaxPackets = 3
  MaxConns = 2
  MaxRestarts = 1
  MaxTransports = 2
  MaxMediaCmds = 4
  Codecs = {"h264"}
  Sizes = {s1, s2}
  NoSize = NoSize
  LowRate = 2
  HighRate = 3
  Floor = 1
  Ceiling = 4
  Bandwidths = {1, 3, 9}
  Losses = {0, 10}
  ScreenBackends = {"scap", "sck"}
  Displays = {1, 2}
  MaxPictures = 3
  MaxShares = 2
  MaxLosses = 1
  Dims = {small, large}
  MaxAttempts = 2
  MaxTroubles = 1
  MAX_DEC_RETRIES = 1
  DECODE_QUEUE_MAX = 0
  Mishaps = {}
INVARIANTS
  NothingLeftOn ReadsAreCurrent BoundIsTracked
PROPERTIES
  ToldToEndEnds Recovers
CHECK_DEADLOCK FALSE
