SPECIFICATION Spec
CONSTANTS
  Dates = {1, 2}
  None = None
  Options = {"extensions", "min_size", "allow_archives", "only_after"}
  MaxIndex = 3
  Unset = Unset
  NoBlock = NoBlock
  Environments <- MCEnvironments
  Files <- MCFiles
INVARIANTS
  TypeOK
  OrderKept
  
PROPERTIES
  FailsForAReason
