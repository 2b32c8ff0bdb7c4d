SPECIFICATION Spec
CONSTANTS
  Drives = {d1, d2}
  Silent = {d2}
  NoDrive = NoDrive
  Unread = Unread
  MaxPlugs = 3
  MaxIO = 2
  MaxFile = 3
  MaxTaken = 1
  Chunks = 2
INVARIANT TransferIsAwaited
PROPERTY UndisturbedIsBlocking
PROPERTY NothingOverwritten
PROPERTY CaptureLeavesImage
PROPERTY MainLoopReturns
CHECK_DEADLOCK FALSE
