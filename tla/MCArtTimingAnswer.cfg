CONSTANTS
  Etu = 372
  FirstEtu = 350
  FifoSize = 5
  EntryDelay <- MCEntryDelay
  StartDelay <- MCStartDelay
  IsrDelay <- MCIsrDelay
  StaleIdx <- MCStale
  Sent <- MCSent
SPECIFICATION Spec
INVARIANT
  AnswerOnTime
