SPECIFICATION FairPromptSpec
CONSTANTS
  TextHeight = 10
  TextWidth = 5
  TextWords = 3
  PIN_NRST = nrst
  PIN_CAPTURE_BUTTON = capture
  DEBOUNCE_TIME = 2
  DOUBLE_CLICK_TIME = 8
  UI_Q_LENGTH = 4
  BounceTime = 2
  HoldTime = 3
INVARIANT RestingKeyReported
INVARIANT NormalScreenRestored
INVARIANT DoubleClickIsReal
INVARIANT LicenceReadable
PROPERTY ReportsAlternate
PROPERTY LicenceEnds
