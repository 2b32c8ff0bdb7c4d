SPECIFICATION Spec
CONSTANTS
  Screen = {fb}
  SidRegs = {reg}
  SidOutputs = {osc}
  Unmapped = {rom}
  Bytes = {0, 1}
  EB_EVENT_QUEUE_LEN = 2
INVARIANT NoContention
INVARIANT ReadsAnswered
INVARIANT WritesStored
PROPERTY ImplementsBus
