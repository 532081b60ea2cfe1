CONSTANTS
  Etu = 372
  FirstEtu = 350
  FifoSize = 5
  AtrBytes <- MCAtr
  HeaderLen = 5
  BlockLen = 3
  Aes <- MCAes
  Coded <- MCCoded
  HeaderBytes <- MCHeader
  DataBytes <- MCData
  Stale <- MCStale
  Prompt = TRUE
  MaxNoise = 3
  MaxNoisy = 1
  MaxReject = 0
  RejectAt <- MCNowhere
SPECIFICATION Spec
CHECK_DEADLOCK FALSE
INVARIANT
  TakesWhatWasDelivered
