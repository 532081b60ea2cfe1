CONSTANTS
  Plains <- MCPlains
  Rands <- MCRands
SPECIFICATION Spec
INVARIANTS
  TypeOK
  DecryptsEncrypted
  DummiesInFirstCall
PROPERTIES
  ImplementsInvCipher
