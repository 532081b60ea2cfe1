CONSTANTS
  Etu = 372
  FirstEtu = 350
  FifoSize = 5
  AtrBytes <- MCAtr
  HeaderLen = 5
  BlockLen = 3
  Aes <- MCAes
  Coded <- MCCoded
  HeaderBytes <- MCHeader
  DataBytes <- MCData
  Stale <- MCStale
  Prompt = TRUE
  MaxNoise = 0
  MaxNoisy = 0
  MaxReject = 1
  RejectAt <- MCStatus61
SPECIFICATION Spec
CHECK_DEADLOCK FALSE
INVARIANT
  NoMutualWait
