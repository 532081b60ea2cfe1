CONSTANTS
  Rows = 2
  Columns = 2
  Rounds = 3
  Value <- MCValue
  Zero = {}
  Xor <- MCXor
  Sub <- MCSub
  MixColumn <- MCMixColumn
  Key <- MCKey
  Inputs <- MCInputs
  Builds <- OneVariant
  Rands <- MCRands
  Num <- MCNum
SPECIFICATION Spec
INVARIANTS
  TypeOK
  EachPositionOnce
  DecryptsAsStandard
PROPERTIES
  ImplementsInvCipher
