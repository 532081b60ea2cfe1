CONSTANTS
  SeedSize = 32
  Pool = 1024
  Number = 16
  BlockBytes = 32
  LastAddress = 255
  RestartAt = 255
SPECIFICATION Spec
INVARIANTS
  TypeOK
  FilledWhole
  KeyedByState
PROPERTIES
  NeverAgain
  ReseedsKeepComing
