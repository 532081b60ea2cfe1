------------------------------ MODULE Firmware ------------------------------
(***************************************************************************)
(* The whole firmware: the session of Card.tla with the entropy source of  *)
(* Seed.tla behind it.  They meet at three places: Apdu_decryptKey calls   *)
(* BkrndTask, which runs one background task to its end while the reader's *)
(* header may already be coming in; the start bit of a character pauses    *)
(* the watchdog from within Art_gpioInterrupt; and main() resumes it when  *)
(* the command is over.  Power may fail at any step of either.             *)
(***************************************************************************)
EXTENDS Card

CONSTANTS RawSize, Words, Top, MaxFails  \* see Seed.tla

ASSUME FirmwareAssumption ==
  /\ RawSize \in Nat \ {0} /\ Words \in Nat \ {0} /\ Top \in Nat \ {0, 1}
  /\ MaxFails \in Nat

VARIABLES
  status, wdtIdx, fresh, val, task, held, changed, dataIdx, seedCount,
  eepromCount, byteCount, seedAddr, written, start, settled, fails

Seed == INSTANCE Seed WITH step <- task, loaded <- changed

cardVars == vars
seedOwnVars == <<status, wdtIdx, fresh, val, task, held, changed, dataIdx,
                 seedCount, eepromCount, byteCount, seedAddr, written, start,
                 settled, fails>>
allVars == <<cardVars, seedOwnVars>>

FirmwareInit == Init /\ Seed!Init
-----------------------------------------------------------------------------
\* main() outside BkrndTask and Seed_resume.
Session_main == Main /\ ~At("bkgnd") /\ site # "resume" /\ UNCHANGED seedOwnVars

\* One step of the task that BkrndTask calls.
Task == At("bkgnd") /\ task # "command" /\ Seed!Main /\ UNCHANGED cardVars

TaskReturns_Early == Background /\ UNCHANGED seedOwnVars  \* mutant
TaskReturns == task = "command" /\ Background /\ UNCHANGED seedOwnVars

\* The next call of BkrndTask is that of the next command.
Resume ==
  /\ Seed_resume
  /\ task' = "task"
  /\ UNCHANGED <<status, wdtIdx, fresh, val, held, changed, dataIdx, seedCount,
                 eepromCount, byteCount, seedAddr, written, start, settled,
                 fails>>

\* The start bit pauses the watchdog within Art_gpioInterrupt.
StartBit == Reader /\ UNCHANGED seedOwnVars

BitTimer == Timer /\ UNCHANGED seedOwnVars

Watchdog == Seed!WDT_vect /\ UNCHANGED cardVars

EepromSettles == Seed!Settle /\ UNCHANGED cardVars

\* The card starts as in Init, and so does the reader, who resets it; what
\* noise and refusals there may be is for the whole behaviour.
CardRestarts ==
  /\ site' = "atr" /\ step' = "clear" /\ byteSent' = 0
  /\ loaded' = {}
  /\ stateText' = [i \in 1..BlockLen |-> {}]
  /\ statusReg' = {}
  /\ rxBuffer' = {} /\ txBuffer' = {}
  /\ rxBitIdx' \in Stale /\ txBitIdx' \in Stale
  /\ txFifo' = << >> /\ fifoRet' = "OK"
  /\ cs10' = FALSE /\ ocr1a' = Etu
  /\ ddrb' = "out" /\ portb' = 1
  /\ gpioInt' = FALSE
  /\ phase' = "atr" /\ count' = 0 /\ wire' = << >>
  /\ block' = [i \in 1..BlockLen |-> {}]
  /\ sending' = {} /\ heard' = {}
  /\ late' = 0 /\ unnoticed' = FALSE
  /\ UNCHANGED <<noises, noisy, rejects>>

PowerFails == Seed!PowerFails /\ CardRestarts

FirmwareMain == Session_main \/ Task \/ TaskReturns \/ Resume

FirmwareNext ==
  \/ FirmwareMain \/ StartBit \/ BitTimer \/ Watchdog \/ EepromSettles
  \/ PowerFails

\* The fairness of Card.tla, and of Seed.tla for the watchdog and the EEPROM.
FirmwareSpec ==
  /\ FirmwareInit /\ [][FirmwareNext]_allVars
  /\ WF_allVars(FirmwareMain) /\ WF_allVars(BitTimer) /\ WF_allVars(StartBit)
  /\ WF_allVars(EepromSettles) /\ SF_allVars(Watchdog)
-----------------------------------------------------------------------------
\* What Seed.tla takes for granted of its caller and of the reader is what the
\* session does: the watchdog is paused by a command's first start bit, even in
\* the middle of a background task, one task is run for each command, to its
\* end, and the watchdog is resumed only after it (Apdu_decryptKey,
\* Art_gpioInterrupt, main()).
ImplementsSeed == Seed!Init /\ [][Seed!Next]_(Seed!vars)

\* As long as no bit is turned over, seeds are completed again and again: each
\* command runs one of the three tasks, and between two commands the watchdog
\* gets to fill its buffer (BkrndTask, main(), Seed_pause and Seed_resume).
SeedsCompleted == []<>(task = "save") \/ <>(noises > Samples \div 2)

\* Between two failures of power the reader sees one session, and with each it
\* starts another with the answer to reset, whatever background task, watchdog
\* interrupt or EEPROM write comes between the characters (Dev_init to
\* Atr_main, main()).  Where noise may turn a bit over, until there is any.
ImplementsSessions ==
  /\ Session!Init
  /\ [][(MaxNoise > Samples \div 2 => noisy' = 0) =>
        IF fails' = fails THEN Session!Next ELSE Session!Init']_
          <<Session!vars, fails>>
=============================================================================
