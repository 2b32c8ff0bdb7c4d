SPECIFICATION Spec
CONSTANTS
  MODE_V_FRONT_PORCH = 2
  MODE_V_SYNC_WIDTH = 1
  MODE_V_BACK_PORCH = 1
  MODE_V_ACTIVE_LINES = 6
  LINE_BUFFER_POOL_COUNT = 2
  VSYNC_ON = 3
  FS_SETPOINT = 6
INVARIANT TypeOK
INVARIANT ChannelsInStep
PROPERTY ImplementsRaster
PROPERTY CompleteLineStable
