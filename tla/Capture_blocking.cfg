SPECIFICATION Spec
CONSTANTS
  Drives = {d1}
  Silent = {}
  NoDrive = NoDrive
  Unread = Unread
  MaxPlugs = 2
  MaxIO = 1
  MaxFile = 2
  MaxTaken = 1
  Chunks = 2
PROPERTY BlockingIO
CHECK_DEADLOCK FALSE
