---------------------------- MODULE FirmwareProofs ----------------------------
(***************************************************************************)
(* The session drives the entropy source as Seed.tla assumes, for every    *)
(* length, byte, amount of noise and number of error signals, whether or   *)
(* not main() waits for a character when it starts, and through power      *)
(* failures at any step.  So what SeedProofs.tla proves of the entropy     *)
(* source holds of the firmware.                                           *)
(*                                                                         *)
(* And each step of the firmware is one of Card.tla, or changes nothing of *)
(* it, or starts it again (FirmwareInStep), so that what CardProofs.tla    *)
(* proves of the line holds while background tasks, watchdog interrupts    *)
(* and power failures come between.                                        *)
(***************************************************************************)
EXTENDS Firmware, CardProofs

\* From Seed_resume, or the start, to the end of the background task.
BeforePoll ==
  \/ site = "atr"
  \/ site = "hdr1" /\ step \in {"clear", "duplex", "listen", "bkgnd"}

\* Until the first start bit of a command main() gets no farther than the
\* loop that waits for its first character.
FirstWaited ==
  \/ site = "atr"
  \/ site = "hdr1" /\ step = "clear"
  \/ /\ site = "hdr1" /\ step \in {"duplex", "listen", "bkgnd", "poll"}
     /\ {"RX", "RX_COMP"} \cap statusReg = {}

CallerInv ==
  /\ wdie \in BOOLEAN
  /\ wdie => FirstWaited
  /\ task # "command" => BeforePoll

LEMMA ProceedFrom ==
  ASSUME site \in {"atr", "resume"}, Proceed
  PROVE  site' = "atr" \/ (site' = "hdr1" /\ step' = "clear")
<1>1. FirstStep("hdr1") = "clear"
  BY DEF FirstStep, Works, KeepsStatus
<1>2. NextSite["atr"] = "hdr1" /\ NextSite["resume"] = "hdr1"
  BY DEF NextSite
<1>. QED
  BY <1>1, <1>2 DEF Proceed, GoTo, KeepsMode

\* main() outside BkrndTask and Seed_resume.
LEMMA MainCaller ==
  ASSUME CallerInv, Session_main
  PROVE  CallerInv' /\ UNCHANGED wdie
<1>0. Main /\ step # "bkgnd" /\ site # "resume" /\ task' = task
  BY DEF Session_main, At, seedOwnVars
<1>1. wdie' = wdie
  <2>1. ~Seed_resume /\ ~Background
    BY <1>0 DEF Seed_resume, Background, At
  <2>. QED
    BY <1>0, <2>1
    DEF Main, ClearStatus, SetDirection, WriteByte, StartByte, AwaitSent,
        Listen, Poll, Store, Take, Decrypt, Art_duplexMode, Art_txByteStart,
        Art_rxByteStart, artAllVars
<1>2. CASE site = "atr"
  <2>1. site' = site \/ Proceed
    BY <1>0 DEF Main, ClearStatus, SetDirection, WriteByte, StartByte,
        AwaitSent, Listen, Background, Poll, Store, Take, Decrypt,
        Seed_resume, Then
  <2>2. site' = "atr" \/ (site' = "hdr1" /\ step' = "clear")
    BY <1>2, <2>1, ProceedFrom
  <2>. QED
    BY <1>0, <1>1, <2>2 DEF CallerInv, FirstWaited, BeforePoll
<1>3. CASE site = "hdr1" /\ step = "clear"
  <2>1. ClearStatus
    BY <1>0, <1>3 DEF Main, SetDirection, WriteByte, StartByte, AwaitSent,
        Listen, Background, Poll, Store, Take, Decrypt, Seed_resume, At
  <2>2. site' = "hdr1" /\ step' = "duplex" /\ statusReg' = {}
    BY <1>3, <2>1 DEF ClearStatus, Then, KeepsMode
  <2>. QED
    BY <1>0, <1>1, <2>2 DEF CallerInv, FirstWaited, BeforePoll
<1>4. CASE site = "hdr1" /\ step = "duplex"
  <2>1. SetDirection
    BY <1>0, <1>4 DEF Main, ClearStatus, WriteByte, StartByte, AwaitSent,
        Listen, Background, Poll, Store, Take, Decrypt, Seed_resume, At
  <2>2. site' = "hdr1" /\ step' = "listen"
        /\ statusReg' \subseteq statusReg \cup {"MODE"}
    BY <1>4, <2>1 DEF SetDirection, Then, Sends, Art_duplexMode
  <2>. QED
    BY <1>0, <1>1, <1>4, <2>2 DEF CallerInv, FirstWaited, BeforePoll
<1>5. CASE site = "hdr1" /\ step = "listen"
  <2>1. Listen
    BY <1>0, <1>5 DEF Main, ClearStatus, SetDirection, WriteByte, StartByte,
        AwaitSent, Background, Poll, Store, Take, Decrypt, Seed_resume, At
  <2>2. site' = "hdr1" /\ step' = "bkgnd" /\ statusReg' = statusReg
    BY <1>5, <2>1 DEF Listen, Then, Art_rxByteStart, artVars
  <2>. QED
    BY <1>0, <1>1, <1>5, <2>2 DEF CallerInv, FirstWaited, BeforePoll
<1>6. CASE site = "hdr1" /\ step = "poll"
  <2>1. Poll
    BY <1>0, <1>6 DEF Main, ClearStatus, SetDirection, WriteByte, StartByte,
        AwaitSent, Listen, Background, Store, Take, Decrypt, Seed_resume, At
  <2>2. ~wdie /\ task = "command"
    BY <1>6, <2>1 DEF Poll, CallerInv, FirstWaited, BeforePoll
  <2>. QED
    BY <1>0, <1>1, <2>2 DEF CallerInv
<1>7. CASE ~FirstWaited /\ ~BeforePoll
  BY <1>0, <1>1, <1>7 DEF CallerInv
<1>. QED
  BY <1>0, <1>2, <1>3, <1>4, <1>5, <1>6, <1>7 DEF FirstWaited, BeforePoll

LEMMA StepCaller ==
  ASSUME CallerInv, FirmwareNext
  PROVE  CallerInv' /\ [Seed!Next]_(Seed!vars)
<1>. USE DEF seedOwnVars
<1>1. CASE Session_main
  <2>1. CallerInv' /\ UNCHANGED <<wdie, seedOwnVars>>
    BY <1>1, MainCaller DEF Session_main
  <2>. QED
    BY <2>1 DEF Seed!vars, Seed!wdtVars, Seed!statusVars, Seed!countVars,
                Seed!eepromVars
<1>2. CASE Task
  <2>1. step = "bkgnd" /\ task # "command" /\ Seed!Main /\ UNCHANGED cardVars
    BY <1>2 DEF Task, At
  <2>2. UNCHANGED <<site, step, statusReg, wdie>>
    BY <2>1 DEF cardVars, vars, mainVars, artAllVars, artVars
  <2>3. BeforePoll
    BY <2>1 DEF CallerInv
  <2>. QED
    BY <2>1, <2>2, <2>3 DEF CallerInv, FirstWaited, BeforePoll, Seed!Next
<1>3. CASE TaskReturns
  <2>1. /\ task = "command" /\ step = "bkgnd" /\ step' = "poll"
        /\ UNCHANGED <<site, statusReg, wdie, seedOwnVars>>
    BY <1>3 DEF TaskReturns, Background, At, Then, artAllVars, artVars
  <2>2. CallerInv'
    BY <2>1 DEF CallerInv, FirstWaited
  <2>. QED
    BY <2>1, <2>2 DEF Seed!vars, Seed!wdtVars, Seed!statusVars,
                      Seed!countVars, Seed!eepromVars
<1>4. CASE Resume
  <2>1. site = "resume" /\ Proceed /\ wdie' = TRUE /\ task' = "task"
    BY <1>4 DEF Resume, Seed_resume
  <2>2. task = "command" /\ ~wdie
    BY <2>1 DEF CallerInv, FirstWaited, BeforePoll
  <2>3. site' = "atr" \/ (site' = "hdr1" /\ step' = "clear")
    BY <2>1, ProceedFrom
  <2>4. Seed!Seed_resume
    BY <1>4, <2>1, <2>2 DEF Resume, Seed!Seed_resume, Seed!statusVars,
                            Seed!countVars, Seed!eepromVars
  <2>. QED
    BY <2>1, <2>3, <2>4 DEF CallerInv, FirstWaited, BeforePoll, Seed!Next,
                            Seed!Main
<1>5. CASE StartBit
  <2>1. /\ UNCHANGED <<site, step, seedOwnVars>>
        /\ \/ wdie' = FALSE
           \/ UNCHANGED <<wdie, statusReg>>
    <3>1. UNCHANGED <<site, step, seedOwnVars>>
      <4>1. ASSUME NEW b, ReaderStarts(b) \/ ReaderGoesOn(b)
            PROVE  UNCHANGED mainVars
        BY <4>1 DEF ReaderStarts, ReaderGoesOn
      <4>. QED
        BY <1>5, <4>1 DEF StartBit, Reader, mainVars
    <3>2. ASSUME NEW b, NEW m, NEW so_many, PinChanges(b, m, so_many)
          PROVE  wdie' = FALSE \/ UNCHANGED <<wdie, statusReg>>
      BY <3>2, PinEffect DEF Begins, artAllVars, artVars
    <3>3. UNCHANGED artAllVars => UNCHANGED <<wdie, statusReg>>
      BY DEF artAllVars, artVars
    <3>4. ASSUME NEW b, ReaderStarts(b) \/ ReaderGoesOn(b)
          PROVE  wdie' = FALSE \/ UNCHANGED <<wdie, statusReg>>
      BY <3>2, <3>3, <3>4 DEF ReaderStarts, ReaderGoesOn
    <3>. QED
      BY <1>5, <3>1, <3>4 DEF StartBit, Reader
  <2>2. CallerInv'
    <3>1. task' = task /\ (BeforePoll' <=> BeforePoll)
      BY <2>1 DEF BeforePoll
    <3>2. CASE wdie' = FALSE
      BY <3>1, <3>2 DEF CallerInv
    <3>3. CASE UNCHANGED <<wdie, statusReg>>
      BY <2>1, <3>1, <3>3 DEF CallerInv, FirstWaited
    <3>. QED
      BY <2>1, <3>2, <3>3
  <2>3. CASE wdie /\ wdie' = FALSE
    BY <2>1, <2>2, <2>3 DEF Seed!Next, Seed!Seed_pause, Seed!statusVars,
                            Seed!countVars, Seed!eepromVars
  <2>4. CASE ~(wdie /\ wdie' = FALSE)
    <3>1. wdie' = wdie
      BY <2>1, <2>4 DEF CallerInv
    <3>. QED
      BY <2>1, <2>2, <3>1 DEF Seed!vars, Seed!wdtVars, Seed!statusVars,
                              Seed!countVars, Seed!eepromVars
  <2>. QED
    BY <2>3, <2>4
<1>6. CASE BitTimer
  <2>1. UNCHANGED <<site, step, wdie, seedOwnVars>>
    BY <1>6 DEF BitTimer, Timer, TransmitTick, ReceiveTick, mainVars,
                Art_rxTimerInterrupt, Art_txTimerInterrupt
  <2>2. \/ "RX" \in statusReg
        \/ statusReg' \subseteq statusReg \cup {"PARITY_ERR"}
    BY <1>6 DEF BitTimer, Timer, TransmitTick, ReceiveTick,
                Art_txTimerInterrupt, TxStatus
  <2>3. CallerInv'
    BY <2>1, <2>2 DEF CallerInv, FirstWaited, BeforePoll
  <2>. QED
    BY <2>1, <2>3 DEF Seed!vars, Seed!wdtVars, Seed!statusVars,
                      Seed!countVars, Seed!eepromVars
<1>7. CASE Watchdog \/ EepromSettles
  <2>1. /\ Seed!WDT_vect \/ Seed!Settle
        /\ UNCHANGED <<site, step, statusReg, wdie>>
    BY <1>7 DEF Watchdog, EepromSettles, cardVars, vars, mainVars, artAllVars,
                artVars
  <2>2. task' = task
    BY <2>1 DEF Seed!WDT_vect, Seed!Settle
  <2>. QED
    BY <2>1, <2>2 DEF CallerInv, FirstWaited, BeforePoll, Seed!Next
<1>8. CASE PowerFails
  <2>1. Seed!PowerFails /\ site' = "atr"
    BY <1>8 DEF PowerFails, CardRestarts
  <2>2. wdie' = TRUE
    BY <2>1 DEF Seed!PowerFails
  <2>. QED
    BY <2>1, <2>2 DEF CallerInv, FirstWaited, BeforePoll, Seed!Next
<1>. QED
  BY <1>1, <1>2, <1>3, <1>4, <1>5, <1>6, <1>7, <1>8 DEF FirmwareNext,
     FirmwareMain

LEMMA StutterCaller == CallerInv /\ UNCHANGED allVars => CallerInv' /\ UNCHANGED Seed!vars
BY DEF CallerInv, FirstWaited, BeforePoll, allVars, cardVars, vars, mainVars,
       artAllVars, artVars, seedOwnVars, Seed!vars, Seed!wdtVars,
       Seed!statusVars, Seed!countVars, Seed!eepromVars

LEMMA InitCaller == FirmwareInit => CallerInv
BY DEF FirmwareInit, Init, CallerInv, FirstWaited, BeforePoll

\* What Seed.tla takes for granted of its caller is what the session does: one
\* task for each command, run to its end, the watchdog paused by a command's
\* first start bit and resumed at its end (Apdu_decryptKey, Art_gpioInterrupt,
\* main()).
THEOREM SeedImplemented == FirmwareSpec => ImplementsSeed
<1>1. FirmwareInit => Seed!Init
  BY DEF FirmwareInit
<1>2. CallerInv /\ [FirmwareNext]_allVars =>
        CallerInv' /\ [Seed!Next]_(Seed!vars)
  BY StepCaller, StutterCaller
<1>3. FirmwareInit => CallerInv
  BY InitCaller
<1>. QED
  BY <1>1, <1>2, <1>3, PTL DEF FirmwareSpec, ImplementsSeed
-----------------------------------------------------------------------------
(* What SeedProofs.tla proves of Seed.tla, of the firmware.                *)

Proved == INSTANCE SeedProofs WITH step <- task, loaded <- changed

LEMMA SeedAssumptions == Proved!SizeAssumption /\ Proved!FailAssumption
BY FirmwareAssumption DEF Proved!SizeAssumption, Proved!FailAssumption

\* The module of the proofs has the same definitions as Seed.tla.
LEMMA SameVars == Proved!vars = Seed!vars /\ Proved!vars' = Seed!vars'
BY DEF Seed!vars, Seed!wdtVars, Seed!statusVars, Seed!countVars,
       Seed!eepromVars, Proved!vars, Proved!wdtVars, Proved!statusVars,
       Proved!countVars, Proved!eepromVars

LEMMA SameInit == Proved!Init <=> Seed!Init
BY DEF Seed!Init, Seed!First, Seed!NoByte, Proved!Init, Proved!First,
       Proved!NoByte

LEMMA SameNext == Proved!Next <=> Seed!Next
<1>. USE DEF Seed!wdtVars, Seed!statusVars, Seed!countVars, Seed!eepromVars,
             Proved!wdtVars, Proved!statusVars, Proved!countVars,
             Proved!eepromVars
<1>1. /\ Proved!WDT_vect <=> Seed!WDT_vect
      /\ Proved!Seed_pause <=> Seed!Seed_pause
      /\ Proved!Seed_resume <=> Seed!Seed_resume
      /\ Proved!Settle <=> Seed!Settle
  BY DEF Seed!WDT_vect, Seed!Seed_pause, Seed!Seed_resume, Seed!Settle,
         Proved!WDT_vect, Proved!Seed_pause, Proved!Seed_resume, Proved!Settle
<1>2. /\ Proved!Seed_whitening <=> Seed!Seed_whitening
      /\ Proved!Mix <=> Seed!Mix
      /\ Proved!Mixed <=> Seed!Mixed
  BY DEF Seed!Seed_whitening, Seed!CanWhiten, Seed!NextTask, Seed!Mix,
         Seed!Mixed, Proved!Seed_whitening, Proved!CanWhiten,
         Proved!NextTask, Proved!Mix, Proved!Mixed
<1>3. /\ Proved!Seed_writeEeprom <=> Seed!Seed_writeEeprom
      /\ Proved!Seed_seedReInit <=> Seed!Seed_seedReInit
      /\ Proved!Save <=> Seed!Save
  BY DEF Seed!Seed_writeEeprom, Seed!CanWrite, Seed!NextTask, Seed!WordBytes,
         Seed!Seed_seedReInit, Seed!Wrapped, Seed!Save,
         Proved!Seed_writeEeprom, Proved!CanWrite, Proved!NextTask,
         Proved!WordBytes, Proved!Seed_seedReInit, Proved!Wrapped, Proved!Save
<1>4. /\ Proved!Load <=> Seed!Load
      /\ Proved!Store <=> Seed!Store
  BY DEF Seed!Load, Seed!Store, Seed!Change, Seed!Effect, Seed!After,
         Proved!Load, Proved!Store, Proved!Change, Proved!Effect, Proved!After
<1>5. Proved!PowerFails <=> Seed!PowerFails
  BY DEF Seed!PowerFails, Seed!First, Seed!NoByte, Proved!PowerFails,
         Proved!First, Proved!NoByte
<1>. QED
  BY <1>1, <1>2, <1>3, <1>4, <1>5 DEF Seed!Next, Seed!Main, Proved!Next,
     Proved!Main

LEMMA SameStep == [Seed!Next]_(Seed!vars) => [Proved!Next]_(Proved!vars)
BY SameNext, SameVars

LEMMA FirmwareSeedInv == FirmwareSpec => []Proved!IInv
<1>1. Seed!Init => Proved!IInv
  BY SeedAssumptions, SameInit, Proved!InitInv
<1>2. Proved!IInv /\ [Seed!Next]_(Seed!vars) => Proved!IInv'
  BY SeedAssumptions, SameStep, Proved!StepInv
<1>. QED
  BY <1>1, <1>2, SeedImplemented, PTL DEF ImplementsSeed

\* In the whole firmware each sample is whitened once, no flag of the watchdog
\* handler is lost, and a word does not change between its first and its last
\* byte in the EEPROM, whenever start bits and power failures come (WDT_vect,
\* Seed_whitening, Seed_writeEeprom, Seed_seedReInit).
THEOREM FirmwareSeedSafe ==
  FirmwareSpec => [](/\ Seed!EachSampleOnce
                     /\ Seed!NoUpdateLost
                     /\ Seed!WordsLoggedWhole)
<1>1. Proved!IInv => Proved!EachSampleOnce /\ Proved!NoUpdateLost
                     /\ Proved!WordsLoggedWhole
  BY SeedAssumptions, Proved!InvMeans
<1>2. /\ Proved!EachSampleOnce <=> Seed!EachSampleOnce
      /\ Proved!NoUpdateLost <=> Seed!NoUpdateLost
      /\ Proved!WordsLoggedWhole <=> Seed!WordsLoggedWhole
  BY DEF Seed!EachSampleOnce, Seed!NoUpdateLost, Seed!WordsLoggedWhole,
         Seed!Effect, Proved!EachSampleOnce, Proved!NoUpdateLost,
         Proved!WordsLoggedWhole, Proved!Effect
<1>. QED
  BY <1>1, <1>2, FirmwareSeedInv, PTL

\* The EEPROM of the whole firmware is a log of complete groups, through power
\* failures at any step (Seed_init, Seed_writeEeprom, Seed_seedReInit).
THEOREM FirmwareLog == FirmwareSpec => Seed!ImplementsLog
<1>1. Seed!Init => Proved!Log!Init
  BY SeedAssumptions, SameInit, Proved!InitRefines
<1>2. Proved!IInv /\ Proved!IInv' /\ [Seed!Next]_(Seed!vars) =>
        [Proved!Log!Next]_(Proved!LogVars)
  BY SeedAssumptions, SameStep, Proved!StepRefines
<1>3. /\ Proved!Log!Init <=> Seed!Log!Init
      /\ Proved!Log!Next <=> Seed!Log!Next
      /\ Proved!LogVars = Seed!Log!vars
      /\ Proved!LogVars' = Seed!Log!vars'
  BY DEF Proved!LogVars, Proved!Filled, Proved!WordBytes, Seed!WordBytes,
         Proved!Log!Init, Proved!Log!Nowhere, Proved!Log!vars,
         Proved!Log!Next, Proved!Log!Lay, Proved!Log!Commit,
         Proved!Log!Settle, Proved!Log!PowerFails, Proved!Log!First,
         Proved!Log!Following,
         Seed!Log!Init, Seed!Log!Nowhere, Seed!Log!vars,
         Seed!Log!Next, Seed!Log!Lay, Seed!Log!Commit,
         Seed!Log!Settle, Seed!Log!PowerFails, Seed!Log!First,
         Seed!Log!Following
<1>4. Seed!Init => Seed!Log!Init
  BY <1>1, <1>3
<1>5. Proved!IInv /\ Proved!IInv' /\ [Seed!Next]_(Seed!vars) =>
        [Seed!Log!Next]_(Seed!Log!vars)
  BY <1>2, <1>3
<1>. QED
  BY <1>4, <1>5, SeedImplemented, FirmwareSeedInv, PTL
  DEF ImplementsSeed, Seed!ImplementsLog, Seed!Log!Spec
-----------------------------------------------------------------------------
(* What CardProofs.tla proves of the session, of the firmware: a step of   *)
(* it is one of the card's, leaves the card alone, or starts it again.     *)

LEMMA CardStep ==
  ASSUME FirmwareNext
  PROVE  [Next]_vars \/ (CardRestarts /\ wdie' = TRUE)
<1>1. CASE Session_main
  BY <1>1 DEF Session_main, Next
<1>2. CASE Task \/ Watchdog \/ EepromSettles
  BY <1>2 DEF Task, Watchdog, EepromSettles, cardVars
<1>3. CASE TaskReturns
  BY <1>3 DEF TaskReturns, Next, Main
<1>4. CASE Resume
  BY <1>4 DEF Resume, Next, Main
<1>5. CASE StartBit \/ BitTimer
  BY <1>5 DEF StartBit, BitTimer, Next
<1>6. CASE PowerFails
  BY <1>6 DEF PowerFails, Seed!PowerFails
<1>. QED
  BY <1>1, <1>2, <1>3, <1>4, <1>5, <1>6 DEF FirmwareNext, FirmwareMain

LEMMA CardStutter == UNCHANGED allVars => [Next]_vars
BY DEF allVars, cardVars

LEMMA RestartReceiver == CardRestarts => RxInv'
BY DEF CardRestarts, RxInv, Reception, IInv, PlaceInv, NoticeInv, PcOK,
       FlagInv, Listening, Site, Step, Sends, Receives, Works

LEMMA RestartAsSent == AsSent /\ CardRestarts => AsSent'
BY DEF CardRestarts, AsSent, AcceptedAsSent

LEMMA RestartSession ==
  ASSUME SessionInv, CardRestarts
  PROVE  SessionInv'
<1>1. /\ site' = "atr" /\ step' = "clear" /\ byteSent' = 0 /\ statusReg' = {}
      /\ stateText' = [i \in 1..BlockLen |-> {}] /\ txFifo' = << >>
      /\ ddrb' = "out" /\ phase' = "atr" /\ count' = 0
      /\ block' = [i \in 1..BlockLen |-> {}]
  BY DEF CardRestarts
<1>2. site' \in Site /\ site' \notin Works /\ ~Ahead'
  BY <1>1 DEF Site, Sends, Works, Ahead
<1>3. LoopLength[site'] \in Nat \ {0}
  BY <1>2, Lengths
<1>4. InStep'
  BY <1>1, <1>2, <1>3 DEF InStep
<1>5. Flags'
  BY <1>1 DEF Flags
<1>6. Sending'
  BY <1>1 DEF Sending
<1>7. Blocks'
  <2>1. {} \in Byte
    BY DEF Byte
  <2>. QED
    BY <1>1, <2>1 DEF Blocks, Answering
<1>. QED
  BY <1>4, <1>5, <1>6, <1>7, RestartReceiver, RestartAsSent
  DEF SessionInv, Synchronized, InTime, CardRestarts

\* In the whole firmware, too, the bit timer counts exactly while a character
\* is in progress, the card does not send and receive at once, and it leaves
\* the line to the reader's character, whatever noise, error signals and power
\* failures there are, as long as main() takes each character before the next
\* begins (statusReg of Art.h, CS10 of Dev.c, Art_duplexMode).
THEOREM FirmwareTransceives ==
  ASSUME Prompt
  PROVE  FirmwareSpec => [](TimerHasOwner /\ OneDirection /\ NoContention)
<1>1. FirmwareInit => RxInv
  BY ReceptionInit DEF FirmwareInit
<1>2. RxInv /\ [FirmwareNext]_allVars => RxInv'
  BY CardStep, CardStutter, ReceptionStep, RestartReceiver
<1>3. RxInv => TimerHasOwner /\ OneDirection /\ NoContention
  BY DEF RxInv, IInv, PlaceInv, FlagInv, NoticeInv, Reception, TimerHasOwner,
         OneDirection, NoContention
<1>. QED
  BY <1>1, <1>2, <1>3, PTL DEF FirmwareSpec

\* In the whole firmware a character the reader takes for delivered is the one
\* the card has, as long as noise turns over no more than five samples of it,
\* also when its first start bit came in the middle of a background task
\* (Dev_getPinAvg, Dev_calcParity, Art_rxTimerInterrupt, BkrndTask).
THEOREM FirmwareDeliversAsSent ==
  ASSUME Prompt, MaxNoise <= 5
  PROVE  FirmwareSpec => []AcceptedAsSent
<1>. DEFINE Inv == RxInv /\ AsSent /\ noises <= MaxNoise
<1>1. FirmwareInit => Inv
  BY ReceptionInit, EnvironmentAssumption
  DEF FirmwareInit, Init, AsSent, AcceptedAsSent
<1>2. Inv /\ [FirmwareNext]_allVars => Inv'
  <2>. SUFFICES ASSUME Inv, [FirmwareNext]_allVars PROVE Inv'
    OBVIOUS
  <2>1. CASE [Next]_vars
    <3>1. noises' \in Nat /\ noises' <= MaxNoise
      BY <2>1, NoiseBounded DEF AsSent
    <3>2. noises' <= 5
      BY <3>1, EnvironmentAssumption
    <3>. QED
      BY <2>1, <3>1, <3>2, ReceptionStep, AsSentStep
  <2>2. CASE CardRestarts
    BY <2>2, RestartReceiver, RestartAsSent DEF CardRestarts
  <2>. QED
    BY <2>1, <2>2, CardStep, CardStutter
<1>3. Inv => AcceptedAsSent
  BY DEF AsSent
<1>. HIDE DEF Inv
<1>. QED
  BY <1>1, <1>2, <1>3, PTL DEF FirmwareSpec

LEMMA FirmwareInStep ==
  ASSUME Calm
  PROVE  /\ FirmwareInit => CalmInv
         /\ CalmInv /\ [FirmwareNext]_allVars => CalmInv'
<1>1. CalmInv /\ CardRestarts => CalmInv'
  BY RestartSession DEF CalmInv, CardRestarts
<1>. QED
  BY <1>1, CalmInit, CardStep, CardStutter, CalmStep DEF FirmwareInit

\* On a calm line the whole firmware keeps what the session alone does, through
\* background tasks, watchdog interrupts and power failures: no update of a
\* register is lost, card and reader never wait for each other, no byte stays
\* in the FIFO, and no watchdog interrupt falls into a command (Atr.c, Art.c,
\* Seed_pause, Seed_resume).
THEOREM FirmwareInSession ==
  ASSUME Calm
  PROVE  FirmwareSpec =>
           [](/\ MainAlone /\ NoMutualWait /\ NothingLeftBehind
              /\ SeedQuiet /\ TypeOK)
<1>. DEFINE Types == Registers /\ Ether /\ wdie \in BOOLEAN
            Inv == CalmInv /\ SeedQuiet /\ Types
<1>1. FirmwareInit => Inv
  <2>1. {} \in Byte
    BY DEF Byte
  <2>2. FirmwareInit => Types
    BY <2>1, EnvironmentAssumption
    DEF FirmwareInit, Init, Registers, Ether, Flag, ART_BYTE
  <2>3. FirmwareInit => SeedQuiet
    BY DEF FirmwareInit, Init, Session!Init, SeedQuiet
  <2>. QED
    BY <2>2, <2>3, FirmwareInStep
<1>2. Inv /\ [FirmwareNext]_allVars => Inv'
  <2>. SUFFICES ASSUME Inv, [FirmwareNext]_allVars PROVE Inv'
    OBVIOUS
  <2>1. CASE [Next]_vars
    <3>1. Cooperative /\ noises' <= 2 /\ CalmInv' /\ SessionInv
      BY <2>1, CalmStep DEF CalmInv
    <3>. QED
      BY <2>1, <3>1, SeedQuietStep, RegistersStep, EtherStep, WdieStep
  <2>2. CASE CardRestarts /\ wdie' = TRUE
    <3>1. {} \in Byte
      BY DEF Byte
    <3>2. SeedQuiet' /\ Types'
      BY <2>2, <3>1 DEF CardRestarts, SeedQuiet, Registers, Ether, Flag,
                        ART_BYTE
    <3>. QED
      BY <2>2, <3>2, FirmwareInStep, RestartSession DEF CalmInv, CardRestarts
  <2>. QED
    BY <2>1, <2>2, CardStep, CardStutter
<1>3. Inv => /\ MainAlone /\ NoMutualWait /\ NothingLeftBehind
             /\ SeedQuiet /\ TypeOK
  BY AloneInStep, TurnInStep, EmptyInStep, TypesInStep DEF CalmInv
<1>. HIDE DEF Inv
<1>. QED
  BY <1>1, <1>2, <1>3, PTL DEF FirmwareSpec

\* Only the failure of power is counted, and counted by one.
LEMMA FailsCounted ==
  ASSUME fails \in Nat, [FirmwareNext]_allVars
  PROVE  /\ fails' \in Nat
         /\ fails' = fails => [Next]_vars
         /\ fails' # fails => CardRestarts
<1>1. CASE PowerFails
  BY <1>1 DEF PowerFails, Seed!PowerFails
<1>2. CASE Session_main \/ TaskReturns \/ Resume \/ StartBit \/ BitTimer
  <2>1. fails' = fails
    BY <1>2 DEF Session_main, TaskReturns, Resume, StartBit, BitTimer,
                seedOwnVars
  <2>. QED
    BY <1>2, <2>1 DEF Session_main, TaskReturns, Resume, StartBit, BitTimer,
                      Next, Main
<1>3. CASE Task \/ Watchdog \/ EepromSettles
  <2>1. fails' = fails
    <3>. USE DEF Seed!wdtVars, Seed!statusVars, Seed!countVars,
                 Seed!eepromVars
    <3>1. Seed!Seed_whitening \/ Seed!Mix \/ Seed!Mixed => fails' = fails
      BY DEF Seed!Seed_whitening, Seed!Mix, Seed!Mixed
    <3>2. Seed!Seed_writeEeprom \/ Seed!Seed_seedReInit \/ Seed!Save
            => fails' = fails
      BY DEF Seed!Seed_writeEeprom, Seed!Seed_seedReInit, Seed!Save
    <3>3. Seed!Load \/ Seed!Store \/ Seed!Seed_resume => fails' = fails
      BY DEF Seed!Load, Seed!Store, Seed!Seed_resume
    <3>4. Seed!WDT_vect \/ Seed!Settle => fails' = fails
      BY DEF Seed!WDT_vect, Seed!Settle
    <3>. QED
      BY <1>3, <3>1, <3>2, <3>3, <3>4 DEF Task, Watchdog, EepromSettles,
         Seed!Main
  <2>. QED
    BY <1>3, <2>1 DEF Task, Watchdog, EepromSettles, cardVars
<1>4. CASE UNCHANGED allVars
  BY <1>4 DEF allVars, seedOwnVars, cardVars
<1>. QED
  BY <1>1, <1>2, <1>3, <1>4 DEF FirmwareNext, FirmwareMain

\* While noise is too little to turn a bit over, or until there is any, the
\* card is in step with the reader.
InStepUntilNoise ==
  /\ RxInv
  /\ noises \in Nat /\ noisy \in Nat /\ fails \in Nat
  /\ noises <= MaxNoise /\ (noisy = 0 => noises = 0)
  /\ MaxNoise <= 2 \/ noisy = 0 => SessionInv

\* Noise is counted, and never forgotten.
LEMMA NoiseRemembered ==
  ASSUME InStepUntilNoise, [Next]_vars
  PROVE  noisy' \in Nat /\ (noisy' = 0 => noisy = 0 /\ noises' = 0)
<1>. USE DEF InStepUntilNoise
<1>1. CASE UNCHANGED readerVars
  BY <1>1 DEF readerVars
<1>2. CASE Main
  BY <1>1, <1>2, MainReceiver
<1>3. ASSUME NEW ones, NEW level,
             Noise(0, ones, level) \/ Noise(noises, ones, level)
      PROVE  noisy' \in Nat /\ (noisy' = 0 => noisy = 0 /\ noises' = 0)
  <2>1. noises' \in Nat
    BY NoiseBounded
  <2>. QED
    BY <1>3, <2>1 DEF Noise
<1>4. CASE Reader
  BY <1>1, <1>3, <1>4
  DEF Reader, ReaderStarts, ReaderGoesOn, PinChanges, readerVars
<1>5. CASE ReceiveTick
  BY <1>3, <1>5 DEF ReceiveTick
<1>6. CASE TransmitTick
  BY <1>6 DEF TransmitTick
<1>. QED
  BY <1>1, <1>2, <1>4, <1>5, <1>6 DEF Next, Timer, vars

\* As long as that is so, every step is one of a session.
LEMMA UntilNoiseStep ==
  ASSUME Cooperative, InStepUntilNoise, [Next]_vars
  PROVE  /\ RxInv' /\ noises' \in Nat /\ noises' <= MaxNoise
         /\ MaxNoise <= 2 \/ noisy' = 0 =>
              SessionInv' /\ [Session!Next]_(Session!vars)
<1>. USE DEF InStepUntilNoise
<1>1. RxInv' /\ noises' \in Nat /\ noises' <= MaxNoise
  BY ReceptionStep, NoiseBounded DEF Cooperative
<1>2. ASSUME MaxNoise <= 2 \/ noisy' = 0
      PROVE  SessionInv' /\ [Session!Next]_(Session!vars)
  <2>1. SessionInv /\ noises' <= 2
    BY <1>1, <1>2, NoiseRemembered, EnvironmentAssumption
  <2>. QED
    BY <2>1, SessionStep, SessionNext
<1>. QED
  BY <1>1, <1>2

\* The reader of the whole firmware sees one session from each power-up to the
\* next, for every length of answer, header and block, every byte and every
\* decryption, whatever power failures there are; where noise may turn over
\* enough samples of a character to make a bit wrong, until there is noise
\* (Dev_init to Atr_main, main(), BkrndTask, WDT_vect).
THEOREM FirmwareSessions ==
  ASSUME Cooperative
  PROVE  FirmwareSpec => ImplementsSessions
<1>1. FirmwareInit => InStepUntilNoise /\ Session!Init
  BY SessionInit, EnvironmentAssumption
  DEF FirmwareInit, Init, Seed!Init, InStepUntilNoise, SessionInv
<1>2. InStepUntilNoise /\ [FirmwareNext]_allVars => InStepUntilNoise'
  <2>. SUFFICES ASSUME InStepUntilNoise, [FirmwareNext]_allVars
                PROVE  InStepUntilNoise'
    OBVIOUS
  <2>1. fails' \in Nat
    BY FailsCounted DEF InStepUntilNoise
  <2>2. CASE [Next]_vars
    BY <2>1, <2>2, UntilNoiseStep, NoiseRemembered DEF InStepUntilNoise
  <2>3. CASE CardRestarts
    <3>1. UNCHANGED <<noises, noisy>> /\ RxInv'
      BY <2>3, RestartReceiver DEF CardRestarts
    <3>. QED
      BY <2>1, <2>3, <3>1, RestartSession DEF InStepUntilNoise
  <2>. QED
    BY <2>2, <2>3, CardStep, CardStutter
<1>3. InStepUntilNoise /\ [FirmwareNext]_allVars =>
        [(MaxNoise > Samples \div 2 => noisy' = 0) =>
           IF fails' = fails THEN Session!Next ELSE Session!Init']_
             <<Session!vars, fails>>
  <2>. SUFFICES ASSUME InStepUntilNoise, [FirmwareNext]_allVars,
                       MaxNoise > Samples \div 2 => noisy' = 0
                PROVE  \/ /\ fails' = fails
                          /\ Session!Next \/ UNCHANGED Session!vars
                       \/ fails' # fails /\ Session!Init'
    OBVIOUS
  <2>1. CASE fails' = fails
    <3>1. MaxNoise <= 2 \/ noisy' = 0
      BY EnvironmentAssumption DEF Samples
    <3>2. [Next]_vars
      BY <2>1, FailsCounted DEF InStepUntilNoise
    <3>. QED
      BY <2>1, <3>1, <3>2, UntilNoiseStep
  <2>2. CASE fails' # fails
    BY <2>2, FailsCounted DEF InStepUntilNoise, CardRestarts, Session!Init
  <2>. QED
    BY <2>1, <2>2
<1>. QED
  BY <1>1, <1>2, <1>3, PTL DEF FirmwareSpec, ImplementsSessions
=============================================================================
