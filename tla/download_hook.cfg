SPECIFICATION Spec
CONSTANTS
  t1 = t1
  t2 = t2
  t3 = t3
  Tasks = {t1, t2}
  Base <- MCBase
  SizeOf <- MCSizeOf
  Received = {0, 99, 100, 200}
  MaxRetries = 2
  BaseDelay = 1
  MaxDelay = 2
  Margin = 1
  Floods = {0, 1}
  MaxSuffix = 3
  MaxFloods = 0
  MaxCrashes = 0
INVARIANTS
  HookGetsOwnFile
