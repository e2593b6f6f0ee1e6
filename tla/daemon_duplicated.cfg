SPECIFICATION FairSpec
CONSTANTS
  Interval = 3
  Timeout = 4
  Heartbeat = 2
  NotifyTime = 1
  MaxAge = 5
  Day = 1
  Windows = {}
  Throttle = 3
  Channels = {"discord"}
  PostTime = 1
  MaxRetries = 3
  BaseDelay = 1
  MaxBack = 0
  Deaths = {"duplicated"}
  MayHang = FALSE
PROPERTIES
  DeadSessionReported
