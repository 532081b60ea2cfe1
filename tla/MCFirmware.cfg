CONSTANTS
  Etu = 372
  FirstEtu = 350
  FifoSize = 5
  AtrBytes <- MCAtr
  HeaderLen = 2
  BlockLen = 1
  Aes <- MCAes
  Coded <- MCCoded
  HeaderBytes <- MCHeader
  DataBytes <- MCData
  Stale <- MCStale
  Prompt = TRUE
  MaxNoise = 4
  MaxNoisy = 1
  MaxReject = 0
  RejectAt <- MCNowhere
  RawSize = 2
  Words = 1
  Top = 2
  MaxFails = 1
SPECIFICATION FirmwareSpec
CHECK_DEADLOCK FALSE
INVARIANTS
  AcceptedAsSent
  OneDirection
  TimerHasOwner
  NoContention
PROPERTIES
  ImplementsSeed
  ImplementsSessions
  SeedsCompleted
