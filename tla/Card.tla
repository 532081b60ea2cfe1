-------------------------------- MODULE Card --------------------------------
(***************************************************************************)
(* The firmware's main thread (main.c, Atr.c) with the interrupt handlers  *)
(* of Art.c that preempt it, and the reader at the other end of the wire.  *)
(*                                                                         *)
(* main() runs through a cycle of sites, each a stretch of Atr.c that      *)
(* sends or receives characters, and at every site through the same steps: *)
(*   clear     statusReg = 0          poll   read RX_COMP and load the     *)
(*   duplex    Art_duplexMode                register to clear it          *)
(*   write     Fifo_write             store  write the register back       *)
(*   start     Art_txByteStart        take   stateText[] = rxBuffer        *)
(*   wait      until TX is clear                                           *)
(*   listen    Art_rxByteStart        work   aes_dec_128, Seed_resume      *)
(*   bkgnd     BkrndTask                                                   *)
(*                                                                         *)
(* The reader's part is what Session.tla says of it; on the wire it may    *)
(* suffer noise, in the start bit too, so that the card notices it late or *)
(* not at all; it may signal a transmission error, and it repeats a        *)
(* character that the card signals to be wrong.                            *)
(***************************************************************************)
EXTENDS Art

CONSTANTS
  AtrBytes, HeaderLen, BlockLen, Aes(_), Coded,   \* see Session.tla
  HeaderBytes,  \* the bytes of a header that are told apart
  DataBytes,    \* the bytes of a block that are told apart
  Stale,        \* values of the indices main() leaves uninitialised
  Prompt,       \* main() takes a character, and reaches the loop that waits
                \* for the next one, before the reader starts it
  MaxNoise,     \* samples of a character of the reader that noise may flip
  MaxNoisy,     \* characters it may fall on
  MaxReject,    \* error signals the reader may send
  RejectAt      \* the parts of the session in which it sends them

ASSUME LengthAssumption ==
  /\ HeaderLen \in Nat \ {0}
  /\ BlockLen \in Nat \ {0}
  /\ AtrBytes \in Seq(Byte) /\ AtrBytes # << >>
ASSUME ByteAssumption ==
  /\ HeaderBytes \subseteq Byte
  /\ DataBytes \subseteq Byte
  /\ Coded \in [{"ins", "sw61", "sw10", "c0", "sw9d", "sw00"} -> Byte]
ASSUME AesAssumption ==
  \A b \in [1..BlockLen -> DataBytes] : Aes(b) \in [1..BlockLen -> Byte]
ASSUME StaleAssumption == Stale \subseteq 0..255
ASSUME EnvironmentAssumption ==
  /\ Prompt \in BOOLEAN
  /\ MaxNoise \in Nat /\ MaxNoisy \in Nat /\ MaxReject \in Nat

VARIABLES
  site, step,   \* where main() is
  byteSent,     \* the counter of its loops
  loaded,       \* the register's value between the load and the store
  stateText,    \* the block
  phase, count, block, wire,  \* the session as the reader follows it
  sending,      \* the reader's characters not yet accepted: one or none
  heard,        \* the bits (and parity, bit 8) of the card's character
  late,         \* the moment of the reader's character in which the card
                \* began to receive it, or the present one if it has not
  unnoticed,    \* the card has not noticed the character on the wire
  noises,       \* samples flipped in the reader's last character
  noisy, rejects

mainVars == <<site, step, byteSent, loaded, stateText>>
sessionVars == <<phase, count, block, wire>>
readerVars == <<sessionVars, sending, heard, late, unnoticed, noises, noisy,
                rejects>>
artAllVars == <<artVars, fifoVars, devVars, wdie>>
vars == <<mainVars, readerVars, artAllVars>>

Session == INSTANCE Session WITH Byte <- HeaderBytes \cup DataBytes

Sends == {"atr", "ins", "sw61", "sw10", "c0", "resp", "sw9d", "sw00"}
Receives == {"hdr1", "data", "hdr2"}
Works == {"aes", "resume"}
Site == Sends \cup Receives \cup Works
Step == {"clear", "duplex", "write", "start", "wait",
         "listen", "bkgnd", "poll", "store", "take", "work"}

\* main() as Atr_main finds it, once Dev_init, Seed_init, Art_duplexMode, sei
\* and Rng_init have run and the reader has released the reset line: an
\* automatic struct whose buffers and indices nothing has initialised.
Init ==
  /\ site = "atr" /\ step = "clear" /\ byteSent = 0
  /\ loaded = {}
  /\ stateText = [i \in 1..BlockLen |-> {}]
  /\ statusReg = {}
  /\ rxBuffer = {} /\ txBuffer = {}
  /\ rxBitIdx \in Stale /\ txBitIdx \in Stale
  /\ txFifo = << >> /\ fifoRet = "OK"
  /\ cs10 = FALSE /\ ocr1a = Etu
  /\ ddrb = "out" /\ portb = 1
  /\ gpioInt = FALSE
  /\ wdie = TRUE
  /\ Session!Init
  /\ sending = {} /\ heard = {}
  /\ late = 0 /\ unnoticed = FALSE
  /\ noises = 0 /\ noisy = 0 /\ rejects = 0
-----------------------------------------------------------------------------
(* The main thread.                                                        *)

\* 0x10 and 0x00 are started on the status register as it was left.
KeepsStatus == {"sw10", "sw00"}
KeepsMode == {"atr", "resp"}

\* Mutants: the status is not cleared before a reception, before a response.
FirstStep_Receive(s) == IF s \in Works THEN "work"
                        ELSE IF s \in KeepsStatus THEN "write"
                        ELSE IF s = "hdr2" THEN "duplex" ELSE "clear"
FirstStep_Response(s) == IF s \in Works THEN "work"
                         ELSE IF s \in KeepsStatus \cup {"resp"} THEN "write"
                         ELSE "clear"

FirstStep(s) == IF s \in Works THEN "work"
                ELSE IF s \in KeepsStatus THEN "write" ELSE "clear"

LoopLength == [s \in Site |->
                 CASE s = "atr" -> Len(AtrBytes)
                   [] s \in {"hdr1", "hdr2"} -> HeaderLen
                   [] s \in {"ins", "data", "resp"} -> BlockLen
                   [] OTHER -> 1]

NextSite == [atr |-> "hdr1", hdr1 |-> "ins", data |-> "aes", aes |-> "sw61",
             sw61 |-> "sw10", sw10 |-> "hdr2", hdr2 |-> "c0", c0 |-> "resp",
             resp |-> "sw9d", sw9d |-> "sw00", sw00 |-> "resume",
             resume |-> "hdr1"]

\* Mutant: the counter is not advanced.
GoTo_NoCount(s, n) == site' = s /\ step' = FirstStep(s) /\ byteSent' = 0

GoTo(s, n) == site' = s /\ step' = FirstStep(s) /\ byteSent' = n

\* One character or one piece of work is over.
Proceed ==
  \/ site = "ins" /\ GoTo("data", byteSent)
  \/ /\ site # "ins"
     /\ byteSent + 1 < LoopLength[site]
     /\ \/ site = "data" /\ GoTo("ins", byteSent + 1)
        \/ site \in {"hdr1", "hdr2"} /\ step' = "poll"
             /\ byteSent' = byteSent + 1 /\ UNCHANGED site
        \/ site \in KeepsMode /\ GoTo(site, byteSent + 1)
  \/ /\ site # "ins"
     /\ byteSent + 1 = LoopLength[site]
     /\ GoTo(NextSite[site], 0)

At(s) == step = s
Then(s) == step' = s /\ UNCHANGED <<site, byteSent>>

\* The byte a site sends.
ByteToSend ==
  CASE site = "atr" -> AtrBytes[byteSent + 1]
    [] site = "resp" -> stateText[byteSent + 1]
    [] OTHER -> Coded[site]

ClearStatus ==
  /\ At("clear")
  /\ statusReg' = {}
  /\ Then(IF site \in KeepsMode THEN "write" ELSE "duplex")
  /\ UNCHANGED <<loaded, stateText, readerVars, rxBuffer, rxBitIdx, txBuffer,
                 txBitIdx, fifoVars, devVars, wdie>>

SetDirection ==
  /\ At("duplex")
  /\ \/ site \in Receives /\ Art_duplexMode("RECEIVER") /\ Then("listen")
     \/ site \in Sends /\ Art_duplexMode("TRANSMITTER") /\ Then("write")
  /\ UNCHANGED <<loaded, stateText, readerVars>>

WriteByte ==
  /\ At("write")
  /\ Tx!Put(ByteToSend)
  /\ Then("start")
  /\ UNCHANGED <<loaded, stateText, readerVars, statusReg, rxBuffer, rxBitIdx,
                 txBitIdx, devVars, wdie>>

StartByte ==
  /\ At("start")
  /\ Art_txByteStart
  /\ Then("wait")
  /\ UNCHANGED <<loaded, stateText, readerVars>>

Sent_NotAwaited == TRUE  \* mutant
Sent == "TX" \notin statusReg

AwaitSent ==
  /\ At("wait")
  /\ Sent
  /\ Proceed
  /\ UNCHANGED <<loaded, stateText, readerVars, artAllVars>>

Listen ==
  /\ At("listen")
  /\ Art_rxByteStart
  /\ Then(IF site = "hdr1" THEN "bkgnd" ELSE "poll")
  /\ UNCHANGED <<loaded, stateText, readerVars>>

\* BkrndTask: its effects are on the seed alone; here it takes its time.
Background ==
  /\ At("bkgnd")
  /\ Then("poll")
  /\ UNCHANGED <<loaded, stateText, readerVars, artAllVars>>

\* CLR_BIT of a volatile field loads, masks and stores: a handler may run
\* between the load and the store.
Poll ==
  /\ At("poll")
  /\ "RX_COMP" \in statusReg
  /\ loaded' = statusReg \ {"RX_COMP"}
  /\ Then("store")
  /\ UNCHANGED <<stateText, readerVars, artAllVars>>

Store ==
  /\ At("store")
  /\ statusReg' = loaded
  /\ loaded' = {}
  /\ \/ site = "data" /\ Then("take")
     \/ site # "data" /\ Proceed
  /\ UNCHANGED <<stateText, readerVars, rxBuffer, rxBitIdx, txBuffer,
                 txBitIdx, fifoVars, devVars, wdie>>

Take ==
  /\ At("take")
  /\ stateText' = [stateText EXCEPT ![byteSent + 1] = rxBuffer]
  /\ Proceed
  /\ UNCHANGED <<loaded, readerVars, artAllVars>>

\* Rng_fill, aes_dec_128 and Rng_reseed: the block is decrypted in place.
Decrypt ==
  /\ At("work") /\ site = "aes"
  /\ stateText' = Aes(stateText)
  /\ Proceed
  /\ UNCHANGED <<loaded, readerVars, artAllVars>>

Seed_resume ==
  /\ At("work") /\ site = "resume"
  /\ wdie' = TRUE
  /\ Proceed
  /\ UNCHANGED <<loaded, stateText, readerVars, artVars, fifoVars, devVars>>

Main ==
  \/ ClearStatus \/ SetDirection \/ WriteByte \/ StartByte \/ AwaitSent
  \/ Listen \/ Background \/ Poll \/ Store \/ Take \/ Decrypt \/ Seed_resume
-----------------------------------------------------------------------------
(* The reader and the interrupt handlers.                                  *)

Waiting == step \in {"poll", "bkgnd", "wait"}

\* The level of the moment the receiver samples with index i when it began
\* with the start bit.
ReaderLevel(b, i) == IF i < ART_BYTE THEN BitOf(b, i)
                     ELSE IF i = ART_BYTE THEN Parity(b) ELSE 1

\* The moments of a character, counted from the start bit.
Level(b, m) == IF m = 0 THEN 0 ELSE ReaderLevel(b, m - 1)

\* The line idles at 1 when the reader's character is over.
WireLevel(i) == IF \E b \in sending : ReaderLevel(b, i) = 0 THEN 0 ELSE 1

\* How many of the samples of a level are wrong when so many read 1.
Flipped(ones, level) == IF level = 1 THEN Samples - ones ELSE ones

\* so many of the samples of this character have been wrong before.
Noise(so_many, ones, level) ==
  /\ noises' = so_many + Flipped(ones, level)
  /\ noises' <= MaxNoise
  /\ noisy' = IF so_many = 0 /\ noises' > 0 THEN noisy + 1 ELSE noisy
  /\ noisy' <= MaxNoisy

\* The reader takes its character for delivered.
Delivers == /\ \E b \in sending : Session!ReaderSends(b)
            /\ sending' = {}

\* ISR(PCINT1_vect) in moment m of the character.  The handler ignores a
\* change after which most samples read 1.
PinChanges(b, m, so_many) ==
  /\ gpioInt
  /\ \E ones \in 0..Samples :
       /\ Art_gpioInterrupt(Dev_getPinAvg(ones))
       /\ unnoticed' = (Dev_getPinAvg(ones) = 1)
       /\ Noise(so_many, ones, Level(b, m))

\* The reader pulls the line low to start a character, or to repeat the one
\* the card signalled to be wrong, and the pin change interrupt follows.
ReaderStarts(b) ==
  /\ phase \in Session!ReaderTurn
  /\ ~unnoticed
  /\ Prompt => Waiting /\ "RX_COMP" \notin statusReg
  /\ sending \subseteq {b}
  /\ sending' = {b} /\ late' = 0
  /\ PinChanges(b, 0, 0)
  /\ UNCHANGED <<mainVars, sessionVars>>

\* A character whose start bit the handler took for noise goes on: the level
\* changes again within a moment, as the disturbance ends; the next moment
\* comes, with a change of the level if it is another one; or the character
\* is over without having been noticed.
ReaderGoesOn(b) ==
  /\ unnoticed /\ sending = {b}
  /\ \/ /\ PinChanges(b, late, noises)
        /\ UNCHANGED <<late, sending, sessionVars>>
     \/ /\ late < ART_BYTE + 2
        /\ late' = late + 1
        /\ IF Level(b, late + 1) # Level(b, late)
           THEN PinChanges(b, late + 1, noises)
           ELSE UNCHANGED <<unnoticed, noises, noisy, artAllVars>>
        /\ UNCHANGED <<sending, sessionVars>>
     \/ /\ late = ART_BYTE + 2
        /\ unnoticed' = FALSE
        /\ Delivers
        /\ UNCHANGED <<late, noises, noisy, artAllVars>>
  /\ UNCHANGED mainVars

\* ISR(TIMER1_COMPA_vect) during a reception.  When the reader's character is
\* over it is accepted, unless the card is signalling an error; a card that
\* began late is then still in the middle of what it takes for a character.
ReceiveTick ==
  /\ cs10 /\ "RX" \in statusReg
  /\ \E ones \in 0..Samples :
       /\ Art_rxTimerInterrupt(Dev_getPinAvg(ones))
       /\ Noise(noises, ones, WireLevel(rxBitIdx + late))
       /\ rxBitIdx > ART_BYTE => noises' = noises
  /\ IF rxBitIdx + late = ART_BYTE + 2 /\ Line # 0
     THEN Delivers ELSE UNCHANGED <<sending, sessionVars>>
  /\ UNCHANGED <<mainVars, heard, late, unnoticed, rejects>>

\* The reader adds the moment that ends to the bits it has heard.
Hears == heard' = IF txBitIdx = 0 THEN {}
                  ELSE IF Line = 1 THEN heard \cup {txBitIdx - 1} ELSE heard

Garbled == {ART_BYTE}  \* no byte

\* A character ends on the wire: the reader has its bits, and its parity.  A
\* reader that signals an error takes it all the same: Atr.c never repeats a
\* character, and one that waits for the repetition gets the next instead.
CharacterHeard ==
  LET bits == heard' \cap Bit
      good == BitOf(heard', ART_BYTE) = Parity(bits)
  IN  /\ wire' = <<"card", IF good THEN bits ELSE Garbled>>
      /\ IF phase \in Session!ReaderTurn
         THEN UNCHANGED <<phase, count, block>>
         ELSE Session!Advance /\ UNCHANGED block

\* ISR(TIMER1_COMPA_vect) during a transmission; in the last slot the reader
\* may be signalling an error.
TransmitTick ==
  /\ cs10 /\ "RX" \notin statusReg /\ "TX" \in statusReg
  /\ Hears
  /\ \/ /\ txBitIdx < ART_BYTE + 1
        /\ Art_txTimerInterrupt(Line)
        /\ UNCHANGED <<sessionVars, rejects>>
     \/ /\ txBitIdx = ART_BYTE + 1
        /\ \/ Art_txTimerInterrupt(1) /\ UNCHANGED rejects
           \/ /\ rejects < MaxReject /\ phase \in RejectAt
              /\ Art_txTimerInterrupt(0)
              /\ rejects' = rejects + 1
        /\ CharacterHeard
  /\ UNCHANGED <<mainVars, sending, late, unnoticed, noises, noisy>>

Timer == TransmitTick \/ ReceiveTick

\* While it sends, the reader hears nothing and refuses nothing.
Reader ==
  /\ \/ phase = "data" /\ \E b \in DataBytes : ReaderStarts(b)
     \/ phase # "data" /\ \E b \in HeaderBytes : ReaderStarts(b)
     \/ \E b \in HeaderBytes \cup DataBytes : ReaderGoesOn(b)
  /\ UNCHANGED <<heard, rejects>>

Next == Main \/ Timer \/ Reader

\* main() keeps running between interrupts, the timer keeps counting while
\* CS10 is set, and the reader goes on with a session it has begun.
Spec ==
  /\ Init /\ [][Next]_vars
  /\ WF_vars(Main) /\ WF_vars(Timer) /\ WF_vars(Reader)
-----------------------------------------------------------------------------
TypeOK ==
  /\ site \in Site /\ step \in Step
  /\ byteSent \in 0 .. LoopLength[site] - 1
  /\ loaded \subseteq Flag /\ statusReg \subseteq Flag
  /\ stateText \in [1..BlockLen -> Byte]
  /\ rxBuffer \in Byte /\ txBuffer \in Byte
  /\ rxBitIdx \in Stale \cup 0 .. ART_BYTE + 2
  /\ txBitIdx \in Stale \cup 0 .. ART_BYTE + 1
  /\ txFifo \in Seq(Byte) /\ Len(txFifo) <= FifoSize
  /\ fifoRet \in {"OK", "NOK"}
  /\ cs10 \in BOOLEAN /\ gpioInt \in BOOLEAN /\ wdie \in BOOLEAN
  /\ ocr1a \in {Etu, FirstEtu}
  /\ ddrb \in {"in", "out"} /\ portb \in {0, 1}
  /\ phase \in Session!Phase /\ count \in 0 .. Session!Length[phase] - 1
  /\ block \in [1..BlockLen -> Byte]
  /\ sending \subseteq Byte /\ Cardinality(sending) <= 1
  /\ heard \subseteq 0 .. ART_BYTE
  /\ late \in 0 .. ART_BYTE + 2 /\ unnoticed \in BOOLEAN
  /\ noises \in 0..MaxNoise /\ noisy \in 0..MaxNoisy /\ rejects \in 0..MaxReject

\* The bit timer counts exactly while a character is in progress: handlers
\* and main() each change one of the two, and a flag that main() overwrote
\* would leave the timer running for nobody (statusReg in Art.h: "Rx in
\* progress", "Tx in progress"; CS10 in Dev.c).
TimerHasOwner == cs10 <=> {"RX", "TX"} \cap statusReg # {}

\* A character is received or sent, never both.
OneDirection == ~ ({"RX", "TX"} \subseteq statusReg)

\* main() reads, changes and writes back statusReg, TCCR1B and PCICR in
\* several instructions; at every such step neither handler can run, or one
\* of the two updates would be lost (Atr.c, Art_duplexMode, Art_txByteStart,
\* Art_rxByteStart).
MainAlone ==
  /\ step \in {"clear", "duplex", "write", "start", "listen"} =>
       ~cs10 /\ (gpioInt => phase \notin Session!ReaderTurn)
  /\ step = "store" => ~cs10

\* The card leaves the line to the reader until all moments of the reader's
\* character have passed, whether it has noticed the character in time, late
\* or not at all (Art_gpioInterrupt, Art_rxTimerInterrupt, Art_duplexMode).
NoContention ==
  unnoticed \/ ("RX" \in statusReg /\ rxBitIdx < ART_BYTE + 2) => ddrb = "in"

\* From a command's first start bit to Seed_resume no watchdog interrupt can
\* delay a bit (Art_gpioInterrupt pauses the seed, main() resumes it).
SeedQuiet == wdie => \/ phase = "atr"
                     \/ phase = "hdr1" /\ count = 0 /\ "RX" \notin statusReg

\* When the card waits for a character that has not begun it is the reader's
\* turn, and the start bit will be noticed: card and reader never wait for
\* each other (the polling loops of Atr.c have no timeout).
NoMutualWait ==
  step = "poll" /\ {"RX", "RX_COMP"} \cap statusReg = {} =>
    gpioInt /\ phase \in Session!ReaderTurn

\* No byte stays in the FIFO once its transmission was due: a byte left
\* behind by a refused Art_txByteStart would delay every later one.
NothingLeftBehind == step # "start" => txFifo = << >>

\* A character that the card began to receive with its start bit, and that the
\* reader takes for delivered, is the one the card has: two samples of each
\* moment, the start bit's included, may be wrong without harm, and the bit
\* that three turn over is always signalled (Dev_getPinAvg and Dev_calcParity
\* in Dev.c, the error slot of Art_rxTimerInterrupt).  One whose start bit it
\* ignored may be lost, or be taken for another from a later moment on.
AcceptedAsSent ==
  "RX_COMP" \in statusReg /\ sending = {} /\ late = 0 =>
    wire = <<"reader", rxBuffer>>

\* A byte main() puts into the block is one the reader delivered, not one that
\* the card has signalled to be wrong (ISO 7816-3, 7.3: "Then the receiver shall
\* expect a repetition of the character").
TakesWhatWasDelivered == step = "take" => sending = {}

\* The characters on the wire, with their values, parity and order, are those
\* of a session: what the card returns is the decryption of what it was sent.
ImplementsSession == Session!Spec

\* Commands are completed again and again.
CommandsComplete == []<>(phase = "sw00") /\ []<>(phase = "hdr1")
=============================================================================
