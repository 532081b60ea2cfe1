CONSTANTS
  Etu = 372
  FirstEtu = 350
  FifoSize = 5
  AtrBytes <- MCAtr
  HeaderLen = 5
  BlockLen = 4
  Aes <- MCAes
  Coded <- MCCoded
  HeaderBytes <- MCHeader
  DataBytes <- MCData
  Stale <- MCStale
  Prompt = TRUE
  MaxNoise = 2
  MaxNoisy = 1
  MaxReject = 2
  RejectAt <- MCTolerant
SPECIFICATION Spec
INVARIANTS
  TypeOK
  MainAlone
  SeedQuiet
  NoMutualWait
  NothingLeftBehind
PROPERTIES
  ImplementsSession
  CommandsComplete
