CONSTANTS
  RawSize = 3
  Words = 2
  Top = 20
  MaxFails = 2
SPECIFICATION Spec
INVARIANTS
  TypeOK
  EachSampleOnce
  NoUpdateLost
  WordsLoggedWhole
PROPERTIES
  ImplementsLog
  SeedsRenewed
