SPECIFICATION Spec
CONSTANTS
  Backends = {"x11", "uinput", "windows", "mac"}
  Plain = {ka, kr}
  ka = ka
  kr = kr
  left = left
  NMods = 3
  PointerButtons = {left}
  MaxFailures = 1
  MaxToggles = 1
  Right = kr
  MaxWire = 2
  MaxEvents = 3
  MaxRequests = 2
  InOrder = TRUE
  Inside = FALSE
  Swaps = TRUE
  SoundFormats = {f48, f44}
  NoFormat = nofmt
  Decodable = {f48}
  MaxRetries = 2
  MaxSessions = 2
  MaxProbes = 2
  Observers = {"x11", "mac"}
  Pixels = {arrow, beam, hand}
  HotSpots = {tip}
  Places = {here}
  CacheCap = 2
  QueueDepth = 1
  WireDepth = 1
  MaxCursorLosses = 1
  NoShape = NoShape
  NoPlace = NoPlace
  Codecs = {"vp9", "h264", "vt"}
  Sizes = {s1, s2}
  NoSize = NoSize
  LowRate = 2
  HighRate = 3
  Floor = 1
  Ceiling = 4
  Bandwidths = {1, 3, 9}
  Losses = {0, 10}
  Signals = {1, 2}
  Conns = {1, 2}
  MaxAge = 1
  Capacity = 1
  Skew = 1
  SlowRead = 1
  MaxRestarts = 1
  MaxNow = 3
INVARIANTS
  InputIsReleased TypedAsHeld ViewerFollows
  ShowingsBounded
PROPERTIES
  StreamStaysGood
CHECK_DEADLOCK FALSE
