--------------------------------- MODULE Art ---------------------------------
(***************************************************************************)
(* The asynchronous receiver/transmitter of Art.c over the registers of    *)
(* Dev.c: one operator per function or interrupt handler, each an action   *)
(* on the variables below.  Card.tla and ArtTiming.tla schedule them.      *)
(*                                                                         *)
(* A byte is the set of its bits that are 1, and statusReg the set of the  *)
(* names of its flags.  The FIFO is the queue of ByteQueue.tla, which      *)
(* Fifo.tla implements.                                                    *)
(***************************************************************************)
EXTENDS Naturals, Sequences, FiniteSets

CONSTANTS
  Etu,       \* artPtr->etu, the CTC period of a bit
  FirstEtu,  \* the shorter period Art.c loads for a start bit
  FifoSize   \* artPtr->txFifo->sz

ASSUME PeriodAssumption == Etu \in Nat /\ FirstEtu \in Nat
ASSUME FifoAssumption == FifoSize \in Nat \ {0}

ART_BYTE == 8
Bit == 0 .. ART_BYTE - 1
Byte == SUBSET Bit
Flag == {"MODE", "RX", "TX", "PARITY_ERR", "RX_COMP"}

VARIABLES
  statusReg, rxBuffer, rxBitIdx, txBuffer, txBitIdx,  \* struct art_config
  txFifo, fifoRet,  \* the transmit queue and the code of its last call
  cs10, ocr1a,      \* timer 1: counting, and its period
  ddrb, portb,      \* the I/O pin: direction, and level driven when "out"
  gpioInt,          \* PCIE1 and PCINT14: the pin change interrupt is enabled
  wdie              \* WDIE: the watchdog interrupt of Seed.c is enabled

artVars == <<statusReg, rxBuffer, rxBitIdx, txBuffer, txBitIdx>>
fifoVars == <<txFifo, fifoRet>>
devVars == <<cs10, ocr1a, ddrb, portb, gpioInt>>

Tx == INSTANCE ByteQueue
        WITH Data <- Byte, Size <- FifoSize,
             queue <- txFifo, out <- txBuffer, ret <- fifoRet

\* parity_even_bit of avr-libc: the bit that makes the number of 1s even.
Parity(b) == Cardinality(b) % 2

BitOf(b, i) == IF i \in b THEN 1 ELSE 0

\* The level seen on the pin when nobody else drives it.
Line == IF ddrb = "out" THEN portb ELSE 1
-----------------------------------------------------------------------------
\* Dev_setGpioIn leaves the pull-up on, Dev_setGpioOut drives the idle level.
Dev_setGpioIn == ddrb' = "in" /\ portb' = 1
Dev_setGpioOut == ddrb' = "out" /\ portb' = 1

Dev_setPin(level) == portb' = level

Dev_enGpioInterrupt == gpioInt' = TRUE
Dev_denGpioInterrupt_Dropped == UNCHANGED gpioInt  \* mutant
Dev_denGpioInterrupt == gpioInt' = FALSE

\* The receiver and the transmitter have a copy each of these three.
Dev_enTimer == cs10' = TRUE
Dev_denTimer == cs10' = FALSE
Dev_updateTimerValue(period) == ocr1a' = period

\* The pin is read five times in a row: the level of most of them, when so
\* many are 1.
Samples == 5
Dev_getPinAvg_Two(ones) == IF ones >= 2 THEN 1 ELSE 0  \* mutant
Dev_getPinAvg(ones) == IF ones > Samples - ones THEN 1 ELSE 0

\* Dev_calcParity says NOK, and Dev_sendParity sends the bit.
ParityIsWrong(pin) == pin # Parity(rxBuffer)
ParityToSend == Parity(txBuffer)

Seed_pause_Dropped == UNCHANGED wdie  \* mutant
Seed_pause == wdie' = FALSE

Art_duplexMode(mode) ==
  /\ Dev_denTimer
  /\ \/ /\ mode = "RECEIVER"
        /\ Dev_setGpioIn
        /\ statusReg' = statusReg \cup {"MODE"}
        /\ UNCHANGED gpioInt
     \/ /\ mode = "TRANSMITTER"
        /\ Dev_setGpioOut
        /\ Dev_denGpioInterrupt
        /\ statusReg' = statusReg \ {"MODE"}
  /\ UNCHANGED <<rxBuffer, rxBitIdx, txBuffer, txBitIdx, fifoVars, ocr1a,
                 wdie>>

\* PCINT14 follows each change of the level; pin is what the handler reads.
Art_gpioInterrupt(pin) ==
  \/ /\ pin = 0
     /\ Seed_pause
     /\ Dev_enTimer
     /\ statusReg' = statusReg \cup {"RX"}
     /\ Dev_updateTimerValue(FirstEtu)
     /\ Dev_denGpioInterrupt
     /\ rxBuffer' = {}
     /\ UNCHANGED <<rxBitIdx, txBuffer, txBitIdx, fifoVars, ddrb, portb>>
  \/ /\ pin # 0
     /\ UNCHANGED <<artVars, fifoVars, devVars, wdie>>
-----------------------------------------------------------------------------
RxEnds_Late == rxBitIdx + 1 = ART_BYTE + 4  \* mutant

Period_Kept == ocr1a  \* mutant

\* Both timer handlers load the period of a bit when rxBitIdx, the receiver's
\* index, is 0.
Period == IF rxBitIdx = 0 THEN Etu ELSE ocr1a

\* The handler that leaves rxBitIdx at 11 ends the character.
RxEnds == rxBitIdx + 1 = ART_BYTE + 3

RxErrorSlot_Early == rxBitIdx = ART_BYTE  \* mutant
RxErrorSlot == rxBitIdx = ART_BYTE + 1

\* Mutants: RX is not cleared at the end; parity is not checked.
RxStatus_KeepsRx(pin) ==
  IF RxEnds THEN statusReg \cup {"RX_COMP"} ELSE statusReg
RxStatus_NoParity(pin) ==
  IF RxEnds THEN (statusReg \ {"RX"}) \cup {"RX_COMP"} ELSE statusReg

\* The flags after one receive interrupt that reads pin.
RxStatus(pin) ==
  IF RxEnds THEN (statusReg \ {"RX"}) \cup {"RX_COMP"}
  ELSE IF rxBitIdx = ART_BYTE /\ ParityIsWrong(pin)
       THEN statusReg \cup {"PARITY_ERR"}
       ELSE statusReg

\* The pin: released at the end, pulled low in the slot after a bad parity.
RxPin ==
  IF RxEnds THEN Dev_setGpioIn
  ELSE IF RxErrorSlot /\ "PARITY_ERR" \in statusReg
       THEN ddrb' = "out" /\ Dev_setPin(0)
       ELSE UNCHANGED <<ddrb, portb>>

Art_rxTimerInterrupt(pin) ==
  /\ Dev_updateTimerValue(Period)
  /\ rxBuffer' = IF rxBitIdx < ART_BYTE /\ pin = 1
                 THEN rxBuffer \cup {rxBitIdx} ELSE rxBuffer
  /\ rxBitIdx' = IF RxEnds THEN 0 ELSE rxBitIdx + 1
  /\ statusReg' = RxStatus(pin)
  /\ RxPin
  /\ IF RxEnds THEN Dev_enGpioInterrupt /\ Dev_denTimer
     ELSE UNCHANGED <<gpioInt, cs10>>
  /\ UNCHANGED <<txBuffer, txBitIdx, fifoVars, wdie>>
-----------------------------------------------------------------------------
TxEnds == txBitIdx + 1 > ART_BYTE + 1

\* The flags after one transmit interrupt that reads pin in the last slot.
TxStatus(pin) ==
  (IF TxEnds THEN statusReg \ {"TX"} ELSE statusReg)
    \cup (IF txBitIdx = ART_BYTE + 1 /\ pin = 0 THEN {"PARITY_ERR"} ELSE {})

\* Mutant: the highest bit goes first.
TxLevel_MsbFirst ==
  IF txBitIdx = ART_BYTE THEN ParityToSend
  ELSE IF txBitIdx < ART_BYTE THEN BitOf(txBuffer, ART_BYTE - 1 - txBitIdx)
  ELSE portb

\* The level of a slot: the bits from the lowest on, then the parity.
TxLevel ==
  IF txBitIdx = ART_BYTE THEN ParityToSend
  ELSE IF txBitIdx < ART_BYTE THEN BitOf(txBuffer, txBitIdx) ELSE portb

\* The last slot turns the pin round, samples it and drives it again.
TxPin ==
  IF txBitIdx = ART_BYTE + 1 THEN Dev_setGpioOut
  ELSE Dev_setPin(TxLevel) /\ UNCHANGED ddrb

Art_txTimerInterrupt(pin) ==
  /\ Dev_updateTimerValue(Period)
  /\ statusReg' = TxStatus(pin)
  /\ TxPin
  /\ txBitIdx' = IF TxEnds THEN 0 ELSE txBitIdx + 1
  /\ IF TxEnds THEN Dev_denTimer ELSE UNCHANGED cs10
  /\ UNCHANGED <<rxBuffer, rxBitIdx, txBuffer, fifoVars, gpioInt, wdie>>
-----------------------------------------------------------------------------
TxReady == statusReg = {}           \* ART_STATUS_TX_READY
RxReady == statusReg = {"MODE"}     \* ART_STATUS_RX_READY

\* Both callers ignore the result, ART_NOK when the guard fails.
Art_txByteStart ==
  \/ /\ TxReady
     /\ statusReg' = {"TX"}
     /\ Tx!Get
     /\ txBitIdx' = 0
     /\ Dev_enTimer
     /\ Dev_setPin(0)
     /\ Dev_updateTimerValue(FirstEtu)
     /\ UNCHANGED <<rxBuffer, rxBitIdx, ddrb, gpioInt, wdie>>
  \/ /\ ~TxReady
     /\ UNCHANGED <<artVars, fifoVars, devVars, wdie>>

Art_rxByteStart ==
  \/ /\ RxReady
     /\ rxBuffer' = {}
     /\ rxBitIdx' = 0
     /\ Dev_enGpioInterrupt
     /\ UNCHANGED <<statusReg, txBuffer, txBitIdx, fifoVars, cs10, ocr1a,
                    ddrb, portb, wdie>>
  \/ /\ ~RxReady
     /\ UNCHANGED <<artVars, fifoVars, devVars, wdie>>
=============================================================================
