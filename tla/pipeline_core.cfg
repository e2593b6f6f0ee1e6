SPECIFICATION Spec
CONSTANTS
  k1 = k1
  f1 = f1
  f2 = f2
  n1 = n1
  NumSources = 1
  Keys = {k1}
  KeyOf <- MCKeyOf
  MaxMsg = 3
  Wanted <- MCAll
  Files = {f1, f2}
  FileOf <- MCFileOf
  SizeOf <- MCSizeOf
  Names = {n1}
  NoFile = NoFile
  Crowded = {}
  NameOf <- MCNameOf
  BadPath <- MCNone
  Poison <- MCNone
  Broken = {}
  Yaml <- MCYaml
  MaxDownloads = 0
  FullBatch = 2
  MaxAttempts = 2
  MaxConcurrent = 2
  TrackDownloads = TRUE
  HookEnabled = TRUE
  MaxFaults = 1
INVARIANTS
  NoLoss
  HistorySound
  AttemptsInBudget
  IInv
  SecondCopiesBounded
PROPERTIES
  CursorFollowsFile
  AttemptsAreFailures
