SPECIFICATION BooksSpec
CONSTANTS
  GrantCaps <- MCGrantCaps
  Requests <- MCRequests
  Consents <- MCConsents
  Times <- MCTimes
  Ttls <- MCTtls
  Seqs <- MCSeqs
  Layouts <- MCLayouts
  GrantExpiry = 3
  MinTtl = 1
  MaxTtl = 2
  GenMod = 3
  InitGen = 1
  MaxLeases = 3
  MaxInjected = 3
  Peers = {p}
  Tasks = {t1, t2, t3}
  MaxBadWrites = 1
  Events = {started, granted}
  MaxEntries = 3
  MaxTorn = 1
  MaxDamage = 2
  MaxOffers = 2
  MaxSize = 2
  MaxQueue = 3
  Refused = Refused
  U8 = 4
  U16 = 8
  Rgb = 4
  Fixed = 2
  MAX_CONTROL_FRAME = 3
  MAX_CLIPBOARD_BYTES = 2
  MAX_CHAT_BYTES = 1
  MAX_FILE_CHUNK = 2
  MAX_FILE_NAME = 2
  MAX_FILE_TARGET = 1
  MAX_CAPABILITIES = 1
  MAX_TEXT_INPUT = 2
  MAX_ANNOT_POINTS = 2
  MAX_CURSOR_DIM = 2
  MAX_DISPLAY_NAME = 2
  MaxRead = 5
  Pages = {"main", "shell"}
  Prompts = {1, 2}
  MaxEvents = 1
  Panels = {"main", "shell"}
  Sends = {1, 2, 3}
  MaxSlices = 1
  MaxSessions = 2
  Callers = {k1, k2}
  MaxCalls = 3
  Apps = {a1, a2}
  Writers = {a1}
  ContactIds = {1, 2}
  Exclusive = TRUE
INVARIANTS
  TypeOK TenuresDisjoint WithinGrant
  DecidedHolds ScreenIsTrue ReadIsWritten KeptIsWhole NothingLeftBehind
PROPERTIES ImplementsSingleController PromptsStayUp
CHECK_DEADLOCK FALSE
