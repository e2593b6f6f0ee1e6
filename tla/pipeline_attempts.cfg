SPECIFICATION Spec
CONSTANTS
  k1 = k1
  f1 = f1
  f2 = f2
  n1 = n1
  NumSources = 1
  Keys = {k1}
  KeyOf <- MCKeyOf
  MaxMsg = 1
  Wanted <- MCAll
  Files = {f1, f2}
  FileOf <- MCFileOf
  SizeOf <- MCSizeOf
  Names = {n1}
  NoFile = NoFile
  Crowded = {}
  NameOf <- MCNameOf
  BadPath <- MCNone
  Poison <- MCNone
  Broken = {}
  Yaml <- MCYaml
  MaxDownloads = 0
  FullBatch = 2
  MaxAttempts = 2
  MaxConcurrent = 2
  TrackDownloads = TRUE
  HookEnabled = FALSE
  MaxFaults = 0
PROPERTIES
  OneAttemptPerCheck
