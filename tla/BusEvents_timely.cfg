SPECIFICATION FairTimelySpec
CONSTANTS
  EB_EVENT_QUEUE_LEN = 4
  AS_Q_LENGTH = 1
  UI_Q_LENGTH = 1
  SidRegs = {}
  KeyCells = {k1}
  OtherCells = {o1}
  TELETEXT_CRTA = crta
  TELETEXT_CRTB = crtb
  TELETEXT_REG_COUNT = 1
  SidValues = {0}
  PortValues = {0}
PROPERTY ImplementsEventQueue
PROPERTY OldestEventFetched
PROPERTY NoLostWakeup
