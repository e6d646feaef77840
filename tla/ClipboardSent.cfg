SPECIFICATION WireSpec
CONSTANTS
  Refused = Refused
  U8 = 4
  U16 = 8
  Rgb = 4
  Fixed = 2
  MAX_CONTROL_FRAME = 3
  MAX_CLIPBOARD_BYTES = 2
  MAX_CHAT_BYTES = 1
  MAX_FILE_CHUNK = 2
  MAX_FILE_NAME = 2
  MAX_FILE_TARGET = 1
  MAX_CAPABILITIES = 1
  MAX_TEXT_INPUT = 2
  MAX_ANNOT_POINTS = 2
  MAX_CURSOR_DIM = 2
  MAX_DISPLAY_NAME = 2
  MaxRead = 5
INVARIANT SentIsReadable
CHECK_DEADLOCK FALSE
