SPECIFICATION FairSpec
CONSTANTS
  k1 = k1
  k2 = k2
  f1 = f1
  f2 = f2
  f3 = f3
  n1 = n1
  n2 = n2
  n3 = n3
  NumSources = 3
  Keys = {k1, k2}
  KeyOf <- MCKeyOf
  MaxMsg = 2
  Wanted <- MCWanted
  Files = {f1, f2, f3}
  FileOf <- MCFileOf
  SizeOf <- MCSizeOf
  Names = {n1, n2, n3}
  NoFile = NoFile
  Crowded = {n1}
  NameOf <- MCNameOf
  BadPath <- MCLast
  Poison <- MCNone
  Broken = {1}
  Yaml <- MCYaml
  MaxDownloads = 1
  FullBatch = 2
  MaxAttempts = 2
  MaxConcurrent = 1
  TrackDownloads = TRUE
  HookEnabled = FALSE
  MaxFaults = 1
PROPERTIES
  WorksOffBacklog
  EventuallyConcluded
