------------------------------ MODULE ArtTiming ------------------------------
(***************************************************************************)
(* When the transceiver of Art.tla acts.  Time is counted in cycles of the *)
(* I/O clock, 372 to an etu, from the leading edge of the character in     *)
(* progress; timer 1 runs in CTC mode, so that a compare match follows the *)
(* previous one by OCR1A + 1 cycles, and a handler acts on the pin some    *)
(* cycles after the match.  The moments are those the comments of Art.c    *)
(* and clauses 7.2 and 7.3 of ISO 7816-3 (docs/) give, with a tolerance of *)
(* 0.2 etu.                                                                *)
(***************************************************************************)
EXTENDS Art, Integers

CONSTANTS
  EntryDelay,  \* cycles from a start bit to TCNT1 = 0 in Art_gpioInterrupt
  StartDelay,  \* cycles from TCNT1 = 0 to the pin low in Art_txByteStart
  IsrDelay,    \* cycles from a compare match to the handler's use of the pin
  StaleIdx,    \* values of an index that nothing has initialised
  Sent         \* the bytes sent

ASSUME ClockAssumption == Etu = 372 /\ FirstEtu = 350

\* The range of delays of which the periods 350 and 372 of Art.c make a
\* working transceiver: it is computed from the tolerance, not measured.  The
\* compiled handlers take some hundred cycles.
ASSUME DelayAssumption ==
  /\ EntryDelay \subseteq Nat /\ StartDelay \subseteq Nat
  /\ IsrDelay \subseteq Nat
  /\ \A e \in EntryDelay, j \in IsrDelay : e + j \in 133..271
  /\ \A s \in StartDelay, j \in IsrDelay : s <= j + 53 /\ j <= s + 87
ASSUME SentAssumption == Sent \subseteq Byte
ASSUME StaleIdxAssumption == StaleIdx \subseteq 0..255

VARIABLES
  role,   \* "answer" until the card has listened for the first time, then
          \* "receiver" or "transmitter"
  next,   \* when the next compare match is due
  slot,   \* the index the last handler found, NoSlot before the first
  at      \* when that handler acted

timeVars == <<role, next, slot, at>>
vars == <<timeVars, artVars, fifoVars, devVars, wdie>>

NoSlot == 99

\* As the answer to reset begins: see Init of Card.tla.
Init ==
  /\ role = "answer"
  /\ statusReg = {}
  /\ ddrb = "out" /\ portb = 1 /\ gpioInt = FALSE
  /\ rxBitIdx \in StaleIdx /\ txBitIdx \in StaleIdx
  /\ rxBuffer = {} /\ txBuffer = {}
  /\ txFifo = << >> /\ fifoRet = "OK"
  /\ cs10 = FALSE /\ ocr1a = Etu
  /\ wdie = TRUE
  /\ next = 0 /\ slot = NoSlot /\ at = 0
-----------------------------------------------------------------------------
(* What Atr.c does before a character.                                     *)

\* No character is on the line, none is due, and a receiver has had one.
Idle == ~cs10 /\ txFifo = << >> /\ (role = "receiver" => slot = ART_BYTE + 2)

\* statusReg = 0 before a change of direction.
Clear ==
  /\ Idle
  /\ statusReg # {}
  /\ statusReg' = {}
  /\ UNCHANGED <<rxBuffer, rxBitIdx, txBuffer, txBitIdx, fifoVars, devVars,
                 wdie, timeVars>>

Turn ==
  /\ Idle
  /\ statusReg = {}
  /\ \/ /\ role = "receiver"
        /\ Art_duplexMode("TRANSMITTER")
        /\ role' = "transmitter"
     \/ /\ role # "receiver"
        /\ Art_duplexMode("RECEIVER")
        /\ role' = "receiver"
  /\ slot' = NoSlot /\ at' = 0
  /\ UNCHANGED next

Listen ==
  /\ role = "receiver" /\ ~cs10 /\ ~gpioInt
  /\ Art_rxByteStart
  /\ UNCHANGED timeVars

\* statusReg = 0 and Fifo_write, as Atr.c does before it starts a byte.
Load(b) ==
  /\ role # "receiver" /\ ~cs10 /\ txFifo = << >>
  /\ statusReg' = {}
  /\ Tx!Put(b)
  /\ UNCHANGED <<rxBuffer, rxBitIdx, txBitIdx, devVars, wdie, timeVars>>

(* The handlers, and what starts them.                                     *)

StartTx(s) ==
  /\ role # "receiver" /\ ~cs10 /\ txFifo # << >>
  /\ Art_txByteStart
  /\ next' = FirstEtu + 1 - s
  /\ slot' = NoSlot /\ at' = 0
  /\ UNCHANGED role

TxTick(j, pin) ==
  /\ cs10 /\ "RX" \notin statusReg /\ "TX" \in statusReg
  /\ Art_txTimerInterrupt(pin)
  /\ slot' = txBitIdx /\ at' = next + j
  /\ next' = next + ocr1a' + 1
  /\ UNCHANGED role

StartRx(e) ==
  /\ gpioInt /\ "MODE" \in statusReg
  /\ Art_gpioInterrupt(0)
  /\ next' = e + FirstEtu + 1
  /\ slot' = NoSlot /\ at' = 0
  /\ UNCHANGED role

RxTick(j, pin) ==
  /\ cs10 /\ "RX" \in statusReg
  /\ Art_rxTimerInterrupt(pin)
  /\ slot' = rxBitIdx /\ at' = next + j
  /\ next' = next + ocr1a' + 1
  /\ UNCHANGED role

\* The polling loops of Atr.c, between two characters.
Take ==
  /\ "RX_COMP" \in statusReg /\ ~cs10
  /\ statusReg' = statusReg \ {"RX_COMP"}
  /\ UNCHANGED <<rxBuffer, rxBitIdx, txBuffer, txBitIdx, fifoVars, devVars,
                 wdie, timeVars>>

Next ==
  \/ Clear \/ Turn \/ Listen
  \/ \E b \in Sent : Load(b)
  \/ \E s \in StartDelay : StartTx(s)
  \/ \E e \in EntryDelay : StartRx(e)
  \/ \E j \in IsrDelay, pin \in {0, 1} : TxTick(j, pin) \/ RxTick(j, pin)
  \/ Take

Spec == Init /\ [][Next]_vars
-----------------------------------------------------------------------------
TypeOK ==
  /\ role \in {"answer", "transmitter", "receiver"}
  /\ next \in Int /\ at \in Int
  /\ slot \in 0 .. ART_BYTE + 2 \cup {NoSlot}
  /\ statusReg \subseteq Flag
  /\ rxBitIdx \in StaleIdx \cup 0 .. ART_BYTE + 2
  /\ txBitIdx \in StaleIdx \cup 0 .. ART_BYTE + 1
  /\ ocr1a \in {Etu, FirstEtu}
  /\ cs10 \in BOOLEAN /\ gpioInt \in BOOLEAN

\* t lies within 0.2 etu of n half etus.
Near(t, n) == /\ 10 * t - 5 * n * Etu <= 2 * Etu
              /\ 5 * n * Etu - 10 * t <= 2 * Etu

\* Once the card has received, each moment of a character it sends ends within
\* 0.2 etu of its place, whatever the handler's delays: the shorter first
\* period makes up for them, and the 373rd cycle of each later period never
\* adds up to a fifth of an etu.  The transmit handler loads the period of a
\* bit only if the receiver's index is 0 (Art_txByteStart,
\* Art_txTimerInterrupt, Art_rxByteStart; ISO 7816-3, 7.2).
EdgesOnTime ==
  role = "transmitter" /\ slot \in 0..ART_BYTE => Near(at, 2 * slot + 2)

\* The same of the characters of the answer to reset, as ISO 7816-3 (docs/)
\* asks: "the delay from the character leading edge to the trailing edge of
\* moment n shall be (n +/- 0,2) etu" (7.2), in the answer to reset too (8.1).
AnswerOnTime ==
  role = "answer" /\ slot \in 0..ART_BYTE => Near(at, 2 * slot + 2)

\* Each moment of a character received is sampled within 0.2 etu of its
\* middle, the error signal begins at 10.5 etu and the line is released at
\* 11.5 etu, the times Art.c gives at lines 96 and 116.
SamplesOnTime ==
  role = "receiver" /\ slot \in 0 .. ART_BYTE + 2 => Near(at, 2 * slot + 3)
=============================================================================
