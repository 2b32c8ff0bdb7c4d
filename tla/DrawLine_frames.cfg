SPECIFICATION Spec
CONSTANTS
  MODE_V_ACTIVE_LINES = 56
  max_height = 48
  MODE_H_ACTIVE_PIXELS = 640
  XSCALE = 2
  YSCALE = 2
  VID_MEM_SIZE = 832
  Modes = {0, 7, 13}
  MaxCuts = 4
  MaxStale = 200
INVARIANT TypeOK
INVARIANT RowsInOrder
INVARIANT CharactersWhole
INVARIANT InVideoMemory
INVARIANT LineFilled
PROPERTY GlitchesEnd
