SPECIFICATION Spec
CONSTANTS
  TextHeight = 10
  TextWidth = 5
  TextWords = 1
  PIN_NRST = nrst
  PIN_CAPTURE_BUTTON = capture
  DEBOUNCE_TIME = 2
  DOUBLE_CLICK_TIME = 8
  UI_Q_LENGTH = 2
  BounceTime = 2
  HoldTime = 3
INVARIANT NoiseIgnored
