SPECIFICATION FairSpec
CONSTANTS
  Interval = 2
  Timeout = 3
  Heartbeat = 4
  NotifyTime = 4
  MaxAge = 8
  Day = 5
  Windows <- MCWindows
  Throttle = 2
  Channels = {"discord", "webhook"}
  PostTime = 1
  MaxRetries = 2
  BaseDelay = 1
  MaxBack = 1
  Deaths = {"revoked", "duplicated"}
  MayHang = TRUE
INVARIANTS
  TypeOK
  NoFalseAlarm
  EndsOnRequestOnly
  FailuresNotified
PROPERTIES
  StoppedIsFinal
  ChecksInHours
  HungCheckDetected
  ShutdownCompletes
  RevocationReported
