SPECIFICATION FairSpec
CONSTANTS
  Leader = leader
  Descendants = {child, grandchild}
  Timeout = 2
  CleanupTime = 1
  MaxCancels = 2
INVARIANTS
  NoSurvivors
  CancellationPropagates
  ReapedFirst
PROPERTIES
  HookReturns
CHECK_DEADLOCK FALSE
