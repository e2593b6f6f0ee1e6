SPECIFICATION FairSpec
CONSTANTS
  t1 = t1
  t2 = t2
  t3 = t3
  Tasks = {t1, t2, t3}
  Base <- MCBase
  SizeOf <- MCSizeOf
  Received = {0, 99, 200}
  MaxRetries = 2
  BaseDelay = 1
  MaxDelay = 2
  Margin = 1
  Floods = {0, 1}
  MaxSuffix = 2
  MaxFloods = 2
  MaxCrashes = 1
INVARIANTS
  TypeOK
  FilesWhole
  NothingLeftBehind
  FailsAfterAllRetries
PROPERTIES
  NoClobber
  KeepsStorePromise
  OwnWaitRespected
  EveryDownloadReturns
