CONSTANTS
  Data <- MCData
  Zero = "a"
  Size = 3
SPECIFICATION Spec
INVARIANTS
  TypeOK
  CountersAgree
PROPERTY
  ImplementsQueue
