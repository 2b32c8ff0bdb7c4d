SPECIFICATION Spec
CONSTANTS
  MODE_V_ACTIVE_LINES = 14
  TELETEXT_LINES = 10
  TELETEXT_ROW_HEIGHT = 2
  Columns = 4
  MaxChanges = 2
INVARIANT RowsAgree
INVARIANT HalvesMatch
PROPERTY GlitchesEnd
PROPERTY FlashesForever
