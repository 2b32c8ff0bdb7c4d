SPECIFICATION HSpec
CONSTANTS
  EB_EVENT_QUEUE_LEN = 2
  AS_Q_LENGTH = 1
  UI_Q_LENGTH = 1
  SidRegs = {r1}
  KeyCells = {}
  OtherCells = {}
  TELETEXT_CRTA = crta
  TELETEXT_CRTB = crtb
  TELETEXT_REG_COUNT = 1
  SidValues = {0, 1}
  PortValues = {0, 1}
  MaxUnread = 3
INVARIANT TypeOK
INVARIANT SidSettles
INVARIANT CrtcAgrees
