SPECIFICATION FairTimelySpec
CONSTANTS
  MODE_V_FRONT_PORCH = 10
  MODE_V_SYNC_WIDTH = 2
  MODE_V_BACK_PORCH = 33
  MODE_V_ACTIVE_LINES = 480
  LINE_BUFFER_POOL_COUNT = 2
  VSYNC_ON = 432
  FS_SETPOINT = 476
INVARIANT LineIsItsOwn
INVARIANT VsyncTracksBeam
INVARIANT FsMeasurementBounded
PROPERTY FrameSyncForever
PROPERTY ImplementsLiveRaster
