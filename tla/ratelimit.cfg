SPECIFICATION Spec
CONSTANTS
  Tasks = {t1, t2, t3}
  Burst = 3
  Chunks = {1, 2, 5}
  MaxChunk = 5
  MaxCancels = 1
SYMMETRY Symmetry
INVARIANTS
  CapHolds
  NoNeedlessSleep
