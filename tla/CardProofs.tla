----------------------------- MODULE CardProofs -----------------------------
(***************************************************************************)
(* For every length of answer to reset, header and block, every byte       *)
(* value, any amount of noise and any error signals: as long as main()     *)
(* waits for a character when it starts, the bit timer has an owner, the   *)
(* card never sends and receives at once and never drives the line against *)
(* the reader, and, while the noise of a character is no more than five    *)
(* samples, a byte without PARITY_ERR is the byte that was sent.           *)
(* On a calm line Card.tla implements Session.tla (below).                 *)
(***************************************************************************)
EXTENDS Card, FiniteSetTheorems, TLAPS

\* Which steps belong to which sites.
PcOK ==
  /\ site \in Site /\ step \in Step
  /\ step \in {"listen", "bkgnd", "poll", "store"} => site \in Receives
  /\ step \in {"write", "start", "wait"} => site \in Sends
  /\ step \in {"clear", "duplex"} => site \notin Works
  /\ step = "take" => site = "data"
  /\ step = "work" => site \in Works

\* Where the pin change interrupt may be enabled: while the card listens, and
\* from there to the Art_duplexMode that turns it round.
Listening ==
  \/ step \in {"bkgnd", "poll", "store"}
  \/ step = "take"
  \/ step = "work" /\ site = "aes"
  \/ step \in {"clear", "duplex"} /\ site \in {"ins", "sw61", "c0"}

\* The flags tell where main() is, which is what makes its own changes of
\* the flags safe.
FlagInv ==
  /\ cs10 <=> {"RX", "TX"} \cap statusReg # {}
  /\ "RX" \in statusReg =>
       step \in {"poll", "bkgnd"} /\ {"TX", "RX_COMP"} \cap statusReg = {}
  /\ "TX" \in statusReg => step = "wait"
  /\ step = "store" => loaded = statusReg \ {"RX_COMP"}
  /\ gpioInt => Listening

PlaceInv == cs10 \in BOOLEAN /\ gpioInt \in BOOLEAN /\ PcOK /\ FlagInv

\* While a character is on the wire that the card has not noticed, main() is
\* where it will receive it if it notices it late.
NoticeInv ==
  /\ unnoticed \in BOOLEAN
  /\ gpioInt => "RX" \notin statusReg
  /\ unnoticed => /\ gpioInt /\ step \in {"poll", "bkgnd"}
                  /\ "RX_COMP" \notin statusReg

IInv == PlaceInv /\ NoticeInv

\* A step that leaves the transceiver's flags, timer and interrupt alone.
Quiet == UNCHANGED <<statusReg, cs10, gpioInt>>

\* The table of sites: what follows a site and where it begins.
LEMMA Follows ==
  /\ \A s \in Site \ {"ins"} : NextSite[s] \in Site
  /\ NextSite["hdr1"] = "ins" /\ NextSite["hdr2"] = "c0"
  /\ NextSite["data"] = "aes" /\ NextSite["aes"] = "sw61"
  /\ \A s \in Works : FirstStep(s) = "work"
  /\ \A s \in Site \ Works : FirstStep(s) \in {"clear", "write"}
  /\ \A s \in Receives : FirstStep(s) = "clear"
  /\ FirstStep("ins") = "clear" /\ FirstStep("c0") = "clear"
  /\ FirstStep("sw61") = "clear"
BY DEF NextSite, FirstStep, Site, Sends, Receives, Works, KeepsStatus

\* Proceed leads to the beginning of a site or back to the poll of the same
\* reception.
LEMMA ProceedTo ==
  ASSUME site \in Site, Proceed
  PROVE  /\ site' \in Site
         /\ \/ step' = FirstStep(site')
            \/ site' = site /\ site \in {"hdr1", "hdr2"} /\ step' = "poll"
         /\ site \in {"hdr1", "hdr2"} /\ step' # "poll" =>
              site' \in {"ins", "c0"}
         /\ site = "data" => site' \in {"ins", "aes"}
         /\ site = "aes" => site' = "sw61"
<1>1. CASE site = "ins" /\ GoTo("data", byteSent)
  BY <1>1 DEF GoTo, Site, Receives
<1>2. CASE site = "data" /\ GoTo("ins", byteSent + 1)
  BY <1>2 DEF GoTo, Site, Sends
<1>3. CASE /\ site \in {"hdr1", "hdr2"} /\ step' = "poll" /\ UNCHANGED site
  BY <1>3
<1>4. CASE site \in KeepsMode /\ GoTo(site, byteSent + 1)
  BY <1>4 DEF GoTo, KeepsMode
<1>5. CASE site # "ins" /\ GoTo(NextSite[site], 0)
  BY <1>5, Follows DEF GoTo
<1>. QED
  BY <1>1, <1>2, <1>3, <1>4, <1>5 DEF Proceed
-----------------------------------------------------------------------------
LEMMA InitInv == Init => IInv
BY DEF Init, IInv, PlaceInv, NoticeInv, PcOK, FlagInv, Site, Sends, Receives,
       Works, Step

\* After Proceed from a step that leaves the flags alone.
LEMMA ProceedInv ==
  ASSUME PlaceInv, Proceed, Quiet, {"RX", "TX"} \cap statusReg = {},
         site \in Sends => ~gpioInt,
         site = "resume" => ~gpioInt
  PROVE  PlaceInv'
<1>. USE DEF PlaceInv, Quiet
<1>1. site \in Site
  BY DEF PcOK
<1>2. /\ site' \in Site
      /\ \/ step' = FirstStep(site')
         \/ site' = site /\ site \in {"hdr1", "hdr2"} /\ step' = "poll"
  BY <1>1, ProceedTo
<1>3. PcOK'
  BY <1>2, Follows
  DEF PcOK, Site, Sends, Receives, Works, Step
<1>4. gpioInt => Listening'
  <2>. SUFFICES ASSUME gpioInt PROVE Listening'
    OBVIOUS
  <2>1. site \in {"hdr1", "hdr2", "data", "aes"}
    BY <1>1 DEF Site, Receives, Works
  <2>2. site' \in {"ins", "c0", "aes", "sw61"} \/ step' = "poll"
    BY <1>1, <2>1, ProceedTo
  <2>. QED
    BY <1>2, <2>1, <2>2, Follows DEF Listening, Works
<1>5. step' # "store"
  BY <1>2, Follows
<1>. QED
  BY <1>3, <1>4, <1>5 DEF FlagInv

\* The steps of main() preserve the invariant.
LEMMA MainPlace ==
  ASSUME PlaceInv, Main
  PROVE  PlaceInv'
<1>. USE DEF PlaceInv
<1>0. ({"RX", "TX"} \cap statusReg = {}) \/ step \in {"poll", "bkgnd", "wait"}
  BY DEF FlagInv
<1>1. CASE ClearStatus
  <2>1. /\ step = "clear" /\ statusReg' = {} /\ site' = site
        /\ step' = (IF site \in KeepsMode THEN "write" ELSE "duplex")
        /\ cs10' = cs10 /\ gpioInt' = gpioInt
    BY <1>1 DEF ClearStatus, At, Then, devVars
  <2>2. site \in Sends \cup Receives
    BY <2>1 DEF PcOK, Site
  <2>3. PcOK'
    BY <2>1, <2>2 DEF PcOK, Step, KeepsMode, Sends, Receives, Works, Site
  <2>4. ~cs10
    BY <1>0, <2>1 DEF FlagInv
  <2>5. gpioInt => Listening'
    BY <2>1 DEF FlagInv, Listening, KeepsMode
  <2>6. FlagInv'
    BY <2>1, <2>4, <2>5 DEF FlagInv
  <2>. QED
    BY <2>1, <2>3, <2>6
<1>2. CASE SetDirection
  <2>1. step = "duplex" /\ site' = site /\ cs10' = FALSE
        /\ {"RX", "TX"} \cap statusReg' = {}
    BY <1>0, <1>2 DEF SetDirection, At, Then, Art_duplexMode, Dev_denTimer
  <2>2. \/ /\ site \in Receives /\ step' = "listen" /\ gpioInt' = gpioInt
        \/ /\ site \in Sends /\ step' = "write" /\ gpioInt' = FALSE
    BY <1>2 DEF SetDirection, Then, Art_duplexMode, Dev_denGpioInterrupt
  <2>3. PcOK'
    BY <2>1, <2>2 DEF PcOK, Step, Sends, Receives, Works
  <2>4. ~gpioInt'
    BY <2>1, <2>2 DEF FlagInv, Listening, Receives
  <2>5. FlagInv'
    BY <2>1, <2>2, <2>4 DEF FlagInv
  <2>6. gpioInt' \in BOOLEAN
    BY <2>2
  <2>. QED
    BY <2>1, <2>3, <2>5, <2>6
<1>3. CASE WriteByte
  <2>1. step = "write" /\ step' = "start" /\ site' = site /\ Quiet
    BY <1>3 DEF WriteByte, At, Then, Quiet, devVars
  <2>. QED
    BY <1>0, <2>1 DEF PcOK, FlagInv, Quiet, Step, Works, Sends, Listening
<1>4. CASE StartByte
  <2>1. step = "start" /\ step' = "wait" /\ site' = site
    BY <1>4 DEF StartByte, At, Then
  <2>2. ~gpioInt /\ ~cs10
    BY <1>0, <2>1 DEF FlagInv, Listening
  <2>3. PcOK'
    BY <2>1 DEF PcOK, Step, Works, Sends
  <2>4. CASE TxReady
    <3>1. statusReg' = {"TX"} /\ cs10' = TRUE /\ gpioInt' = gpioInt
      BY <1>4, <2>4 DEF StartByte, Art_txByteStart, Dev_enTimer
    <3>. QED
      BY <2>1, <2>2, <2>3, <3>1 DEF FlagInv
  <2>5. CASE ~TxReady
    <3>1. Quiet
      BY <1>4, <2>5 DEF StartByte, Art_txByteStart, Quiet, artVars, devVars
    <3>. QED
      BY <1>0, <2>1, <2>2, <2>3, <3>1 DEF FlagInv, Quiet
  <2>. QED
    BY <2>4, <2>5
<1>5. CASE AwaitSent
  <2>1. step = "wait" /\ "TX" \notin statusReg /\ Proceed /\ Quiet
    BY <1>5 DEF AwaitSent, At, Sent, Quiet, artAllVars, artVars, devVars
  <2>2. "RX" \notin statusReg /\ ~gpioInt
    BY <2>1 DEF FlagInv, Listening
  <2>. QED
    BY <2>1, <2>2, ProceedInv
<1>6. CASE Listen
  <2>1. /\ step = "listen" /\ site' = site /\ site \in Receives
        /\ step' \in {"bkgnd", "poll"}
        /\ statusReg' = statusReg /\ cs10' = cs10
        /\ gpioInt' \in BOOLEAN
    BY <1>6 DEF Listen, At, Then, Art_rxByteStart, Dev_enGpioInterrupt, PcOK,
                artVars, devVars
  <2>. QED
    BY <1>0, <2>1 DEF PcOK, FlagInv, Listening, Step, Works, Receives
<1>7. CASE Background
  <2>1. step = "bkgnd" /\ step' = "poll" /\ site' = site /\ Quiet
    BY <1>7 DEF Background, At, Then, Quiet, artAllVars, artVars, devVars
  <2>. QED
    BY <2>1 DEF PcOK, FlagInv, Quiet, Listening, Step, Works, Receives
<1>8. CASE Poll
  <2>1. /\ step = "poll" /\ step' = "store" /\ site' = site /\ Quiet
        /\ "RX_COMP" \in statusReg /\ loaded' = statusReg \ {"RX_COMP"}
    BY <1>8 DEF Poll, At, Then, Quiet, artAllVars, artVars, devVars
  <2>2. {"RX", "TX"} \cap statusReg = {}
    BY <2>1 DEF FlagInv
  <2>. QED
    BY <2>1, <2>2 DEF PcOK, FlagInv, Quiet, Listening, Step, Works, Receives
<1>9. CASE Store
  <2>1. /\ step = "store" /\ cs10' = cs10 /\ gpioInt' = gpioInt
        /\ statusReg' = statusReg \ {"RX_COMP"} /\ site \in Receives
        /\ {"RX", "TX"} \cap statusReg = {}
    BY <1>0, <1>9 DEF Store, At, FlagInv, PcOK, devVars
  <2>2. CASE site = "data" /\ Then("take")
    BY <2>1, <2>2 DEF Then, PcOK, FlagInv, Listening, Step, Works, Receives
  <2>3. CASE site # "data" /\ Proceed
    <3>1. site \in {"hdr1", "hdr2"} /\ site \in Site
      BY <2>1, <2>3 DEF Receives, Site
    <3>2. /\ site' \in Site
          /\ \/ step' = "clear" /\ site' \in {"ins", "c0"}
             \/ step' = "poll" /\ site' = site
      BY <2>3, <3>1, ProceedTo, Follows
    <3>. QED
      BY <2>1, <3>1, <3>2
      DEF PcOK, FlagInv, Listening, Step, Works, Receives, Site
  <2>. QED
    BY <1>9, <2>2, <2>3 DEF Store
<1>10. CASE Take
  <2>1. step = "take" /\ Proceed /\ Quiet
    BY <1>10 DEF Take, At, Quiet, artAllVars, artVars, devVars
  <2>2. site = "data" /\ {"RX", "TX"} \cap statusReg = {}
    BY <1>0, <2>1 DEF PcOK
  <2>. QED
    BY <2>1, <2>2, ProceedInv DEF Sends
<1>11. CASE Decrypt
  <2>1. step = "work" /\ site = "aes" /\ Proceed /\ Quiet
    BY <1>11 DEF Decrypt, At, Quiet, artAllVars, artVars, devVars
  <2>. QED
    BY <1>0, <2>1, ProceedInv DEF Sends
<1>12. CASE Seed_resume
  <2>1. step = "work" /\ site = "resume" /\ Proceed /\ Quiet
    BY <1>12 DEF Seed_resume, At, Quiet, artVars, devVars
  <2>2. ~gpioInt
    BY <2>1 DEF FlagInv, Listening
  <2>. QED
    BY <1>0, <2>1, <2>2, ProceedInv
<1>. QED
  BY <1>1, <1>2, <1>3, <1>4, <1>5, <1>6, <1>7, <1>8, <1>9, <1>10, <1>11,
     <1>12 DEF Main
-----------------------------------------------------------------------------
\* main() leaves the flag of a reception alone, and does nothing but go on
\* with a background task while a character is not noticed.
LEMMA MainNotice ==
  ASSUME IInv, Main
  PROVE  NoticeInv'
<1>. USE DEF IInv, PlaceInv
<1>0. unnoticed' = unnoticed
  BY DEF Main, ClearStatus, SetDirection, WriteByte, StartByte, AwaitSent,
         Listen, Background, Poll, Store, Take, Decrypt, Seed_resume,
         readerVars
<1>1. CASE Background \/ Poll
  <2>1. /\ UNCHANGED <<statusReg, gpioInt>>
        /\ Background \/ "RX_COMP" \in statusReg
        /\ Background => step' = "poll"
    BY <1>1 DEF Background, Poll, Then, artAllVars, artVars, devVars
  <2>. QED
    BY <1>0, <1>1, <2>1 DEF NoticeInv
<1>2. CASE ~(Background \/ Poll)
  <2>1. step \notin {"poll", "bkgnd"}
    BY <1>2, Zenon
    DEF Main, ClearStatus, SetDirection, WriteByte, StartByte, AwaitSent,
        Listen, Store, Take, Decrypt, Seed_resume, At
  <2>2. "RX" \notin statusReg /\ ~unnoticed
    BY <2>1 DEF FlagInv, NoticeInv
  <2>3. statusReg' \subseteq statusReg \cup {"MODE", "TX"}
    <3>1. CASE ClearStatus \/ WriteByte \/ AwaitSent \/ Take
      BY <3>1 DEF ClearStatus, WriteByte, AwaitSent, Take, artAllVars, artVars
    <3>2. CASE SetDirection
      BY <3>2 DEF SetDirection, Art_duplexMode
    <3>3. CASE StartByte \/ Listen
      BY <3>3 DEF StartByte, Listen, Art_txByteStart, Art_rxByteStart, artVars
    <3>4. CASE Store
      BY <3>4 DEF Store, At, FlagInv
    <3>5. CASE Decrypt \/ Seed_resume
      BY <3>5 DEF Decrypt, Seed_resume, artAllVars, artVars
    <3>. QED
      BY <1>2, <3>1, <3>2, <3>3, <3>4, <3>5 DEF Main
  <2>. QED
    BY <1>0, <2>2, <2>3 DEF NoticeInv
<1>. QED
  BY <1>1, <1>2

LEMMA MainInv ==
  ASSUME IInv, Main
  PROVE  IInv'
BY MainPlace, MainNotice DEF IInv
-----------------------------------------------------------------------------
\* A reception begins.
Begins ==
  /\ unnoticed' = FALSE
  /\ cs10' = TRUE /\ gpioInt' = FALSE /\ wdie' = FALSE
  /\ statusReg' = statusReg \cup {"RX"}
  /\ rxBuffer' = {} /\ ocr1a' = FirstEtu
  /\ UNCHANGED <<rxBitIdx, txBuffer, txBitIdx, fifoVars, ddrb, portb>>

\* The pin change interrupt begins a reception or does nothing at all.
LEMMA PinEffect ==
  ASSUME NEW b, NEW m, NEW so_many, PinChanges(b, m, so_many)
  PROVE  /\ gpioInt
         /\ Begins \/ (unnoticed' = TRUE /\ UNCHANGED artAllVars)
<1>1. PICK ones \in 0..Samples :
        /\ Art_gpioInterrupt(Dev_getPinAvg(ones))
        /\ unnoticed' = (Dev_getPinAvg(ones) = 1)
  BY DEF PinChanges
<1>2. Dev_getPinAvg(ones) \in {0, 1}
  BY DEF Dev_getPinAvg
<1>. DEFINE pin == Dev_getPinAvg(ones)
<1>. HIDE DEF pin
<1>3. CASE pin = 0
  <2>0. Dev_getPinAvg(ones) # 1
    BY <1>3 DEF pin
  <2>1. unnoticed' = FALSE
    BY <1>1, <2>0, Zenon
  <2>2. Art_gpioInterrupt(0)
    BY <1>1, <1>3 DEF pin
  <2>3. Begins
    BY <2>1, <2>2
    DEF Art_gpioInterrupt, Begins, Seed_pause, Dev_enTimer,
        Dev_denGpioInterrupt, Dev_updateTimerValue
  <2>. QED
    BY <2>3 DEF PinChanges
<1>4. CASE pin = 1
  <2>1. unnoticed' = TRUE
    BY <1>1, <1>4 DEF pin
  <2>2. UNCHANGED artAllVars
    BY <1>1, <1>4 DEF pin, Art_gpioInterrupt, artAllVars
  <2>. QED
    BY <2>1, <2>2 DEF PinChanges
<1>. QED
  BY <1>2, <1>3, <1>4 DEF pin

\* A step of the reader, as the card sees it: main() waits for a character,
\* and begins to receive it or not.
LEMMA ReaderEffect ==
  ASSUME Prompt, IInv, Reader
  PROVE  /\ gpioInt /\ step \in {"poll", "bkgnd"} /\ "RX_COMP" \notin statusReg
         /\ UNCHANGED <<mainVars, heard, rejects>>
         /\ unnoticed' \in BOOLEAN
         /\ \/ Begins
            \/ UNCHANGED artAllVars
<1>. USE DEF IInv, PlaceInv
<1>1. ASSUME NEW b, ReaderStarts(b)
      PROVE  /\ gpioInt /\ Waiting /\ "RX_COMP" \notin statusReg
             /\ UNCHANGED mainVars
             /\ Begins \/ (unnoticed' = TRUE /\ UNCHANGED artAllVars)
  BY <1>1, PinEffect DEF ReaderStarts
<1>2. gpioInt /\ Waiting => step \in {"poll", "bkgnd"}
  BY DEF Waiting, FlagInv, Listening
<1>3. ASSUME NEW b, ReaderGoesOn(b)
      PROVE  /\ unnoticed /\ UNCHANGED mainVars
             /\ unnoticed' \in BOOLEAN
             /\ Begins \/ UNCHANGED artAllVars
  <2>1. unnoticed /\ unnoticed \in BOOLEAN
        /\ UNCHANGED mainVars
    BY <1>3 DEF ReaderGoesOn, NoticeInv
  <2>2. CASE PinChanges(b, late, noises) \/ PinChanges(b, late + 1, noises)
    BY <2>1, <2>2, PinEffect DEF Begins
  <2>3. CASE UNCHANGED <<unnoticed, artAllVars>> \/
               (unnoticed' = FALSE /\ UNCHANGED artAllVars)
    BY <2>1, <2>3
  <2>. QED
    BY <1>3, <2>1, <2>2, <2>3 DEF ReaderGoesOn
<1>. QED
  BY <1>1, <1>2, <1>3 DEF Reader, NoticeInv, Begins

\* The handlers preserve the invariant, if main() waits when a start bit comes.
LEMMA HandlerInv ==
  ASSUME Prompt, IInv, Timer \/ Reader
  PROVE  IInv'
<1>. USE DEF IInv, PlaceInv
<1>1. CASE Reader
  <2>1. /\ gpioInt /\ step \in {"poll", "bkgnd"} /\ "RX_COMP" \notin statusReg
        /\ site' = site /\ step' = step /\ loaded' = loaded
        /\ unnoticed' \in BOOLEAN
        /\ Begins \/ UNCHANGED artAllVars
    BY <1>1, ReaderEffect DEF mainVars
  <2>2. PcOK'
    BY <2>1 DEF PcOK
  <2>3. CASE Begins
    <3>1. "TX" \notin statusReg
      BY <2>1 DEF FlagInv
    <3>. QED
      BY <2>1, <2>2, <2>3, <3>1 DEF FlagInv, NoticeInv, Begins
  <2>4. CASE UNCHANGED artAllVars
    <3>1. UNCHANGED <<statusReg, cs10, gpioInt>>
      BY <2>4 DEF artAllVars, artVars, devVars
    <3>. QED
      BY <2>1, <2>2, <3>1 DEF FlagInv, NoticeInv, Listening
  <2>. QED
    BY <2>1, <2>3, <2>4
<1>2. ASSUME ReceiveTick PROVE IInv'
  <2>1. /\ cs10 /\ "RX" \in statusReg /\ site' = site /\ step' = step
        /\ unnoticed' = unnoticed
    BY <1>2 DEF ReceiveTick, mainVars
  <2>2. PICK ones \in 0..Samples : Art_rxTimerInterrupt(Dev_getPinAvg(ones))
    BY <1>2 DEF ReceiveTick
  <2>. DEFINE pin == Dev_getPinAvg(ones)
  <2>3. /\ step \in {"poll", "bkgnd"} /\ {"TX", "RX_COMP"} \cap statusReg = {}
        /\ ~gpioInt /\ ~unnoticed
    BY <2>1 DEF FlagInv, NoticeInv
  <2>4. /\ statusReg' = RxStatus(pin)
        /\ RxEnds => cs10' = FALSE /\ gpioInt' = TRUE
        /\ ~RxEnds => cs10' = cs10 /\ gpioInt' = gpioInt
    BY <2>2 DEF Art_rxTimerInterrupt, Dev_denTimer, Dev_enGpioInterrupt
  <2>. HIDE DEF pin
  <2>5. CASE RxEnds
    <3>1. statusReg' = (statusReg \ {"RX"}) \cup {"RX_COMP"} /\ ~cs10'
          /\ cs10' \in BOOLEAN /\ gpioInt' \in BOOLEAN
      BY <2>4, <2>5 DEF RxStatus
    <3>. QED
      BY <2>1, <2>3, <3>1 DEF PcOK, FlagInv, NoticeInv, Listening
  <2>6. CASE ~RxEnds
    <3>1. statusReg' \in {statusReg, statusReg \cup {"PARITY_ERR"}}
      BY <2>4, <2>6 DEF RxStatus
    <3>2. cs10' /\ cs10' \in BOOLEAN /\ gpioInt' = gpioInt
      BY <2>1, <2>4, <2>6
    <3>. QED
      BY <2>1, <2>3, <3>1, <3>2 DEF PcOK, FlagInv, NoticeInv, Listening
  <2>. QED
    BY <2>5, <2>6
<1>3. ASSUME TransmitTick PROVE IInv'
  <2>1. /\ cs10 /\ "RX" \notin statusReg /\ "TX" \in statusReg
        /\ site' = site /\ step' = step /\ unnoticed' = unnoticed
    BY <1>3 DEF TransmitTick, mainVars
  <2>2. PICK pin : Art_txTimerInterrupt(pin)
    BY <1>3 DEF TransmitTick
  <2>3. /\ statusReg' = TxStatus(pin) /\ gpioInt' = gpioInt
        /\ TxEnds => cs10' = FALSE
        /\ ~TxEnds => cs10' = cs10
    BY <2>2 DEF Art_txTimerInterrupt, Dev_denTimer
  <2>4. step = "wait" /\ ~gpioInt
    BY <2>1 DEF FlagInv, Listening
  <2>5. "RX" \notin statusReg'
    BY <2>1, <2>3 DEF TxStatus
  <2>6. ("TX" \in statusReg') <=> ~TxEnds
    BY <2>1, <2>3 DEF TxStatus
  <2>7. cs10' \in BOOLEAN /\ (cs10' <=> ~TxEnds)
    BY <2>1, <2>3
  <2>8. FlagInv'
    BY <2>1, <2>3, <2>4, <2>5, <2>6, <2>7 DEF FlagInv
  <2>. QED
    BY <2>1, <2>3, <2>4, <2>7, <2>8 DEF PcOK, NoticeInv
<1>. QED
  BY <1>1, <1>2, <1>3 DEF Timer

LEMMA StepInv ==
  ASSUME Prompt, IInv, [Next]_vars
  PROVE  IInv'
<1>1. CASE UNCHANGED vars
  BY <1>1 DEF vars, mainVars, readerVars, artAllVars, artVars, devVars, IInv,
              PlaceInv, NoticeInv, PcOK, FlagInv, Listening
<1>. QED
  BY <1>1, MainInv, HandlerInv DEF Next

\* The bit timer counts exactly while a character is in progress, whatever
\* noise does to the characters, as long as main() takes each character
\* before the next begins (statusReg of Art.h, CS10 of Dev.c).
THEOREM TimerOwned ==
  ASSUME Prompt
  PROVE  Spec => []TimerHasOwner
<1>1. IInv => TimerHasOwner
  BY DEF IInv, PlaceInv, FlagInv, TimerHasOwner
<1>2. Init => IInv
  BY InitInv
<1>3. IInv /\ [Next]_vars => IInv'
  BY StepInv
<1>. QED
  BY <1>1, <1>2, <1>3, PTL DEF Spec

\* The card never sends and receives at once, so that ISR(TIMER1_COMPA_vect)
\* never runs both handlers of Art.c.
THEOREM HalfDuplex ==
  ASSUME Prompt
  PROVE  Spec => []OneDirection
<1>1. IInv => OneDirection
  BY DEF IInv, PlaceInv, FlagInv, OneDirection
<1>2. Init => IInv
  BY InitInv
<1>3. IInv /\ [Next]_vars => IInv'
  BY StepInv
<1>. QED
  BY <1>1, <1>2, <1>3, PTL DEF Spec
-----------------------------------------------------------------------------
(* The reception of a character.                                           *)

\* Where a character may be coming in the line is the reader's, up to the
\* error slot, and the receiver starts at its first moment.
Reception ==
  /\ step = "listen" => ddrb = "in"
  /\ gpioInt => ddrb = "in" /\ rxBitIdx = 0
  /\ "RX" \in statusReg =>
       /\ rxBitIdx \in 0 .. ART_BYTE + 2
       /\ rxBitIdx < ART_BYTE + 2 => ddrb = "in"
       /\ ~gpioInt
  /\ "RX_COMP" \in statusReg => step \in {"poll", "bkgnd", "store"}

\* The two sets differ by one element.
OneApart(s, t) ==
  \E k : \/ k \notin t /\ s = t \cup {k}
         \/ k \notin s /\ t = s \cup {k}

\* What of the character has been sampled so far; three samples turned over
\* make one bit wrong, and then the parity is.
Sampled(b) ==
  /\ rxBuffer \subseteq Bit /\ rxBuffer \subseteq 0 .. rxBitIdx - 1
  /\ rxBitIdx <= ART_BYTE =>
       LET sent == b \cap 0 .. rxBitIdx - 1
       IN rxBuffer = sent \/ (noises >= 3 /\ OneApart(rxBuffer, sent))
  /\ rxBitIdx > ART_BYTE => rxBuffer = b \/ "PARITY_ERR" \in statusReg
  /\ rxBitIdx = ART_BYTE + 2 /\ "PARITY_ERR" \in statusReg => Line = 0

AsSent ==
  /\ noises \in Nat /\ late \in Nat
  /\ "RX" \in statusReg /\ late = 0 =>
       \E b \in HeaderBytes \cup DataBytes : sending = {b} /\ Sampled(b)
  /\ AcceptedAsSent

RxInv == IInv /\ Reception

\* main() leaves a reception in progress, and a character received, alone.
LEMMA MainReceiver ==
  ASSUME RxInv, Main
  PROVE  /\ Reception'
         /\ "RX" \in statusReg' =>
              UNCHANGED <<statusReg, rxBuffer, rxBitIdx, ddrb, portb>>
         /\ "RX_COMP" \in statusReg' =>
              "RX_COMP" \in statusReg /\ UNCHANGED rxBuffer
         /\ UNCHANGED readerVars
<1>. USE DEF RxInv, IInv, PlaceInv
<1>1. CASE ClearStatus
  <2>1. /\ step = "clear" /\ statusReg' = {} /\ step' # "listen"
        /\ UNCHANGED <<rxBuffer, rxBitIdx, ddrb, portb, gpioInt, readerVars>>
    BY <1>1 DEF ClearStatus, At, Then, devVars
  <2>. QED
    BY <2>1 DEF Reception
<1>2. CASE SetDirection
  <2>1. /\ step = "duplex" /\ UNCHANGED <<rxBuffer, rxBitIdx, readerVars>>
        /\ statusReg' \subseteq statusReg \cup {"MODE"}
    BY <1>2 DEF SetDirection, At, Art_duplexMode
  <2>2. {"RX", "RX_COMP"} \cap statusReg = {}
    BY <2>1 DEF Reception, FlagInv
  <2>3. \/ ddrb' = "in" /\ gpioInt' = gpioInt
        \/ step' = "write" /\ gpioInt' = FALSE
    BY <1>2 DEF SetDirection, Then, Art_duplexMode, Dev_setGpioIn,
                Dev_denGpioInterrupt
  <2>. QED
    BY <2>1, <2>2, <2>3 DEF Reception
<1>3. CASE WriteByte
  <2>1. /\ step = "write" /\ step' = "start"
        /\ UNCHANGED <<statusReg, rxBuffer, rxBitIdx, ddrb, portb, gpioInt,
                       readerVars>>
    BY <1>3 DEF WriteByte, At, Then, devVars
  <2>. QED
    BY <2>1 DEF Reception, FlagInv
<1>4. CASE StartByte
  <2>1. step = "start" /\ step' = "wait" /\ UNCHANGED readerVars
    BY <1>4 DEF StartByte, At, Then
  <2>2. /\ UNCHANGED <<rxBuffer, rxBitIdx, ddrb, gpioInt>>
        /\ statusReg' \in {statusReg, {"TX"}}
    BY <1>4 DEF StartByte, Art_txByteStart, artVars, devVars
  <2>3. {"RX", "RX_COMP"} \cap statusReg = {}
    BY <2>1 DEF Reception, FlagInv
  <2>. QED
    BY <2>1, <2>2, <2>3 DEF Reception
<1>5. CASE AwaitSent \/ Take \/ Decrypt \/ Seed_resume
  <2>1. /\ step \in {"wait", "take", "work"} /\ Proceed
        /\ UNCHANGED <<artVars, devVars, readerVars>>
    BY <1>5 DEF AwaitSent, Take, Decrypt, Seed_resume, At, artAllVars
  <2>2. UNCHANGED <<statusReg, rxBuffer, rxBitIdx, ddrb, portb, gpioInt>>
    BY <2>1 DEF artVars, devVars
  <2>3. {"RX", "RX_COMP"} \cap statusReg = {}
    BY <2>1 DEF Reception, FlagInv
  <2>4. step' # "listen"
    BY <2>1, ProceedTo, Follows DEF PcOK
  <2>. QED
    BY <2>1, <2>2, <2>3, <2>4 DEF Reception
<1>6. CASE Listen
  <2>1. /\ step = "listen" /\ step' \in {"bkgnd", "poll"}
        /\ UNCHANGED readerVars
    BY <1>6 DEF Listen, At, Then
  <2>2. {"RX", "RX_COMP"} \cap statusReg = {} /\ ddrb = "in"
    BY <2>1 DEF Reception, FlagInv
  <2>3. /\ statusReg' = statusReg /\ ddrb' = ddrb
        /\ gpioInt' => gpioInt \/ rxBitIdx' = 0
        /\ gpioInt => rxBitIdx' \in {0, rxBitIdx}
    BY <1>6 DEF Listen, Art_rxByteStart, artVars, devVars
  <2>. QED
    BY <2>1, <2>2, <2>3 DEF Reception
<1>7. CASE Background \/ Poll
  <2>1. /\ step' # "listen" /\ UNCHANGED <<artVars, devVars, readerVars>>
    BY <1>7 DEF Background, Poll, Then, artAllVars
  <2>2. "RX_COMP" \in statusReg => step' \in {"poll", "bkgnd", "store"}
    BY <1>7 DEF Background, Poll, Then
  <2>. QED
    BY <2>1, <2>2 DEF Reception, artVars, devVars
<1>8. CASE Store
  <2>1. /\ step = "store" /\ statusReg' = statusReg \ {"RX_COMP"}
        /\ UNCHANGED <<rxBuffer, rxBitIdx, ddrb, portb, gpioInt, readerVars>>
    BY <1>8 DEF Store, At, FlagInv, devVars
  <2>2. step' # "listen"
    BY <1>8, ProceedTo, Follows DEF Store, Then, PcOK
  <2>3. "RX" \notin statusReg
    BY <2>1 DEF FlagInv
  <2>. QED
    BY <2>1, <2>2, <2>3 DEF Reception
<1>. QED
  BY <1>1, <1>2, <1>3, <1>4, <1>5, <1>6, <1>7, <1>8 DEF Main

\* A vote of five is wrong only if three samples are.
LEMMA Vote ==
  ASSUME NEW ones \in 0..Samples, NEW level \in {0, 1}
  PROVE  /\ Flipped(ones, level) \in Nat
         /\ Dev_getPinAvg(ones) \in {0, 1}
         /\ Dev_getPinAvg(ones) # level => Flipped(ones, level) >= 3
BY DEF Flipped, Dev_getPinAvg, Samples

LEMMA BitFinite == IsFiniteSet(Bit)
<1>1. 0 \in Int /\ 7 \in Int
  OBVIOUS
<1>2. IsFiniteSet(0..7)
  BY <1>1, FS_Interval
<1>3. Bit = 0..7
  BY DEF Bit, ART_BYTE
<1>. QED
  BY <1>2, <1>3

LEMMA LevelIsBit ==
  ASSUME NEW b \in Byte, NEW i \in Nat
  PROVE  ReaderLevel(b, i) \in {0, 1} /\ Parity(b) \in {0, 1}
<1>1. IsFiniteSet(Bit)
  BY BitFinite
<1>2. Cardinality(b) \in Nat
  BY <1>1, FS_Subset, FS_CardinalityType DEF Byte
<1>3. Parity(b) \in {0, 1}
  BY <1>2 DEF Parity
<1>. QED
  BY <1>3 DEF ReaderLevel, BitOf

\* What one interrupt of the receiver does.
LEMMA TickEffect ==
  ASSUME ReceiveTick
  PROVE  \E ones \in 0..Samples :
           /\ "RX" \in statusReg
           /\ Art_rxTimerInterrupt(Dev_getPinAvg(ones))
           /\ noises' = noises + Flipped(ones, WireLevel(rxBitIdx + late))
           /\ noises' <= MaxNoise
           /\ IF rxBitIdx + late = ART_BYTE + 2 /\ Line # 0
              THEN Delivers ELSE UNCHANGED <<sending, sessionVars>>
           /\ UNCHANGED <<site, step, heard, late, unnoticed, rejects>>
BY DEF ReceiveTick, Noise, mainVars

\* The receiver began with the start bit of the character.
PunctualTick(b) ==
  /\ ReceiveTick
  /\ late = 0 /\ sending = {b} /\ rxBitIdx \in 0 .. ART_BYTE + 2

LEMMA PunctualEffect ==
  ASSUME NEW b \in HeaderBytes \cup DataBytes, PunctualTick(b)
  PROVE  \E ones \in 0..Samples :
           LET pin == Dev_getPinAvg(ones)
           IN /\ "RX" \in statusReg /\ sending = {b}
              /\ Art_rxTimerInterrupt(pin)
              /\ noises' = noises + Flipped(ones, ReaderLevel(b, rxBitIdx))
              /\ noises' <= MaxNoise
              /\ rxBitIdx < ART_BYTE + 2 \/ Line = 0 =>
                   UNCHANGED <<sending, sessionVars>>
              /\ ~(rxBitIdx < ART_BYTE + 2 \/ Line = 0) =>
                   sending' = {} /\ Session!ReaderSends(b)
              /\ UNCHANGED <<site, step, heard, late, unnoticed, rejects>>
<1>1. /\ ReceiveTick /\ late = 0 /\ sending = {b}
      /\ rxBitIdx \in 0 .. ART_BYTE + 2 /\ rxBitIdx + late = rxBitIdx
  BY DEF PunctualTick, ART_BYTE
<1>2. ReaderLevel(b, rxBitIdx) \in {0, 1}
  BY <1>1, ByteAssumption, LevelIsBit DEF ART_BYTE
<1>3. WireLevel(rxBitIdx + late) = ReaderLevel(b, rxBitIdx)
  BY <1>1, <1>2 DEF WireLevel
<1>4. Delivers => sending' = {} /\ Session!ReaderSends(b)
  BY <1>1 DEF Delivers
<1>5. rxBitIdx + late = ART_BYTE + 2 /\ Line # 0 <=>
        ~(rxBitIdx < ART_BYTE + 2 \/ Line = 0)
  BY <1>1 DEF ART_BYTE
<1>. QED
  BY <1>1, <1>3, <1>4, <1>5, TickEffect

LEMMA HandlerReceiver ==
  ASSUME Prompt, RxInv, Timer \/ Reader
  PROVE  Reception'
<1>. USE DEF RxInv, IInv, PlaceInv
<1>1. CASE Reader
  <2>1. /\ gpioInt /\ step \in {"poll", "bkgnd"} /\ step' = step
        /\ "RX_COMP" \notin statusReg
        /\ Begins \/ UNCHANGED artAllVars
    BY <1>1, ReaderEffect DEF mainVars
  <2>2. CASE Begins
    BY <2>1, <2>2 DEF Begins, Reception, ART_BYTE
  <2>3. CASE UNCHANGED artAllVars
    BY <2>1, <2>3 DEF Reception, artAllVars, artVars, devVars
  <2>. QED
    BY <2>1, <2>2, <2>3
<1>2. ASSUME ReceiveTick PROVE Reception'
  <2>1. PICK ones \in 0..Samples :
          /\ "RX" \in statusReg /\ step' = step
          /\ Art_rxTimerInterrupt(Dev_getPinAvg(ones))
    BY <1>2, TickEffect
  <2>2. /\ rxBitIdx \in 0 .. ART_BYTE + 2
        /\ rxBitIdx < ART_BYTE + 2 => ddrb = "in"
        /\ "RX_COMP" \notin statusReg /\ step \in {"poll", "bkgnd"} /\ cs10
    BY <2>1 DEF Reception, FlagInv
  <2>3. CASE RxEnds
    <3>1. /\ ddrb' = "in" /\ rxBitIdx' = 0
          /\ statusReg' = (statusReg \ {"RX"}) \cup {"RX_COMP"}
      BY <2>1, <2>3 DEF Art_rxTimerInterrupt, RxPin, Dev_setGpioIn, RxStatus
    <3>. QED
      BY <2>1, <2>2, <3>1 DEF Reception
  <2>4. CASE ~RxEnds
    <3>1. /\ rxBitIdx' = rxBitIdx + 1 /\ gpioInt' = gpioInt
          /\ statusReg' \in {statusReg, statusReg \cup {"PARITY_ERR"}}
      BY <2>1, <2>4 DEF Art_rxTimerInterrupt, RxStatus
    <3>2. rxBitIdx # ART_BYTE + 1 => ddrb' = ddrb
      BY <2>1, <2>4 DEF Art_rxTimerInterrupt, RxPin, RxErrorSlot
    <3>3. ~gpioInt
      BY <2>1 DEF Reception
    <3>. QED
      BY <2>1, <2>2, <2>4, <3>1, <3>2, <3>3 DEF Reception, RxEnds, ART_BYTE
  <2>. QED
    BY <2>3, <2>4
<1>3. ASSUME TransmitTick PROVE Reception'
  <2>1. "RX" \notin statusReg /\ "TX" \in statusReg /\ step' = step
    BY <1>3 DEF TransmitTick, mainVars
  <2>2. PICK pin : Art_txTimerInterrupt(pin)
    BY <1>3 DEF TransmitTick
  <2>3. /\ gpioInt' = gpioInt
        /\ statusReg' \subseteq statusReg \cup {"PARITY_ERR"}
    BY <2>2 DEF Art_txTimerInterrupt, TxStatus
  <2>4. step = "wait" /\ ~gpioInt
    BY <2>1 DEF FlagInv, Listening
  <2>. QED
    BY <2>1, <2>3, <2>4 DEF Reception
<1>. QED
  BY <1>1, <1>2, <1>3 DEF Timer

LEMMA ReceptionStep ==
  ASSUME Prompt, RxInv, [Next]_vars
  PROVE  RxInv'
<1>1. CASE UNCHANGED vars
  <2>1. Reception'
    BY <1>1 DEF RxInv, Reception, vars, mainVars, artAllVars, artVars, devVars
  <2>. QED
    BY <1>1, <2>1, StepInv DEF RxInv
<1>2. CASE Main
  BY <1>2, StepInv, MainReceiver DEF RxInv, Next
<1>3. CASE Timer \/ Reader
  BY <1>3, StepInv, HandlerReceiver DEF RxInv, Next
<1>. QED
  BY <1>1, <1>2, <1>3 DEF Next

LEMMA ReceptionInit == Init => RxInv
BY InitInv DEF Init, RxInv, Reception

\* The card leaves the line to the reader until all moments of the reader's
\* character have passed, whatever noise there is (Art_rxTimerInterrupt,
\* Art_duplexMode).
THEOREM NeverContends ==
  ASSUME Prompt
  PROVE  Spec => []NoContention
<1>1. RxInv => NoContention
  BY DEF RxInv, IInv, NoticeInv, Reception, NoContention
<1>2. Init => RxInv
  BY ReceptionInit
<1>3. RxInv /\ [Next]_vars => RxInv'
  BY ReceptionStep
<1>. QED
  BY <1>1, <1>2, <1>3, PTL DEF Spec
-----------------------------------------------------------------------------
(* What is received is what was sent.                                      *)

\* Parity tells two bytes apart that differ in one bit.
LEMMA ParityTells ==
  ASSUME NEW s \in Byte, NEW t \in Byte, OneApart(s, t)
  PROVE  Parity(s) # Parity(t)
<1>1. IsFiniteSet(Bit)
  BY BitFinite
<1>2. ASSUME NEW u \in Byte, NEW k, k \notin u
      PROVE  Parity(u \cup {k}) # Parity(u)
  <2>1. IsFiniteSet(u)
    BY <1>1, FS_Subset DEF Byte
  <2>2. Cardinality(u \cup {k}) = Cardinality(u) + 1
    BY <1>2, <2>1, FS_AddElement
  <2>3. Cardinality(u) \in Nat
    BY <2>1, FS_CardinalityType
  <2>. QED
    BY <2>2, <2>3 DEF Parity
<1>. QED
  BY <1>2 DEF OneApart

\* The reader's levels are sampled one by one; a second bit cannot be wrong.
LEMMA SampledNext ==
  ASSUME noises' <= 5, RxInv, AsSent,
         NEW b \in HeaderBytes \cup DataBytes, PunctualTick(b), ~RxEnds
  PROVE  Sampled(b)' /\ sending' = {b} /\ "RX" \in statusReg'
<1>1. PICK ones \in 0..Samples :
        /\ "RX" \in statusReg /\ sending = {b}
        /\ Art_rxTimerInterrupt(Dev_getPinAvg(ones))
        /\ noises' = noises + Flipped(ones, ReaderLevel(b, rxBitIdx))
        /\ noises' <= MaxNoise
        /\ rxBitIdx < ART_BYTE + 2 \/ Line = 0 =>
             UNCHANGED <<sending, sessionVars>>
  BY PunctualEffect
<1>. DEFINE pin == Dev_getPinAvg(ones)
            level == ReaderLevel(b, rxBitIdx)
<1>2. /\ noises \in Nat /\ MaxNoise \in Nat /\ b \in Byte
      /\ rxBitIdx \in 0 .. ART_BYTE + 1
  <2>1. rxBitIdx # ART_BYTE + 2 /\ rxBitIdx \in 0 .. ART_BYTE + 2
    BY <1>1 DEF RxInv, Reception, RxEnds, ART_BYTE
  <2>. QED
    BY <2>1, EnvironmentAssumption, ByteAssumption DEF AsSent, ART_BYTE
<1>3. Sampled(b)
  BY <1>1 DEF AsSent, PunctualTick
<1>4. /\ rxBitIdx' = rxBitIdx + 1
      /\ rxBuffer' = IF rxBitIdx < ART_BYTE /\ pin = 1
                     THEN rxBuffer \cup {rxBitIdx} ELSE rxBuffer
      /\ statusReg' = IF rxBitIdx = ART_BYTE /\ ParityIsWrong(pin)
                      THEN statusReg \cup {"PARITY_ERR"} ELSE statusReg
      /\ sending' = {b}
      /\ rxBitIdx = ART_BYTE + 1 /\ "PARITY_ERR" \in statusReg => Line' = 0
  <2>1. Art_rxTimerInterrupt(pin) /\ ~RxEnds
    BY <1>1
  <2>2. rxBitIdx = ART_BYTE + 1 /\ "PARITY_ERR" \in statusReg => Line' = 0
    BY <2>1 DEF Art_rxTimerInterrupt, RxPin, RxErrorSlot, Dev_setPin, Line
  <2>3. rxBitIdx < ART_BYTE + 2
    BY <1>2 DEF ART_BYTE
  <2>. QED
    BY <1>1, <2>1, <2>2, <2>3 DEF Art_rxTimerInterrupt, RxStatus
<1>5. level \in {0, 1} /\ rxBitIdx \in Nat
  BY <1>2, LevelIsBit DEF ART_BYTE
<1>6. /\ pin \in {0, 1} /\ noises' \in Nat /\ noises' >= noises
      /\ pin # level => noises' >= noises + 3
  <2>1. /\ Flipped(ones, level) \in Nat
        /\ pin \in {0, 1}
        /\ pin # level => Flipped(ones, level) >= 3
    BY <1>5, Vote
  <2>2. noises' = noises + Flipped(ones, level)
    BY <1>1
  <2>. HIDE DEF pin, level
  <2>. QED
    BY <1>2, <2>1, <2>2
<1>7. pin # level => noises <= 2
  <2>. HIDE DEF pin, level
  <2>. QED
    BY <1>2, <1>6
<1>8. level = (IF rxBitIdx < ART_BYTE THEN BitOf(b, rxBitIdx)
               ELSE IF rxBitIdx = ART_BYTE THEN Parity(b) ELSE 1)
  BY DEF ReaderLevel
<1>. HIDE DEF pin, level
<1>9. CASE rxBitIdx < ART_BYTE
  <2>. DEFINE sent == b \cap 0 .. rxBitIdx - 1
              now == b \cap 0 .. rxBitIdx
  <2>1. /\ rxBuffer \subseteq 0 .. rxBitIdx - 1 /\ rxBuffer \subseteq Bit
        /\ rxBuffer = sent \/ (noises >= 3 /\ OneApart(rxBuffer, sent))
    BY <1>2, <1>3, <1>9 DEF Sampled, ART_BYTE
  <2>2. level = BitOf(b, rxBitIdx)
    BY <1>8, <1>9
  <2>3. now = IF rxBitIdx \in b THEN sent \cup {rxBitIdx} ELSE sent
    BY <1>2
  <2>4. rxBitIdx \notin sent /\ rxBitIdx \notin rxBuffer
    BY <1>2, <2>1
  <2>5. rxBuffer' = IF pin = 1 THEN rxBuffer \cup {rxBitIdx} ELSE rxBuffer
    BY <1>4, <1>9
  <2>6. rxBuffer' \subseteq Bit /\ rxBuffer' \subseteq 0 .. rxBitIdx
    BY <1>2, <1>9, <2>1, <2>5 DEF Bit, ART_BYTE
  <2>. HIDE DEF sent, now
  <2>7. CASE pin = level
    <3>1. rxBuffer = sent => rxBuffer' = now
      BY <2>2, <2>3, <2>5, <2>7 DEF BitOf
    <3>2. OneApart(rxBuffer, sent) => OneApart(rxBuffer', now)
      <4>. SUFFICES ASSUME OneApart(rxBuffer, sent)
                    PROVE  OneApart(rxBuffer', now)
        OBVIOUS
      <4>1. PICK k : \/ k \notin sent /\ rxBuffer = sent \cup {k}
                     \/ k \notin rxBuffer /\ sent = rxBuffer \cup {k}
        BY DEF OneApart
      <4>2. k # rxBitIdx
        BY <2>4, <4>1
      <4>3. \/ k \notin now /\ rxBuffer' = now \cup {k}
            \/ k \notin rxBuffer' /\ now = rxBuffer' \cup {k}
        BY <2>2, <2>3, <2>5, <2>7, <4>1, <4>2 DEF BitOf
      <4>. QED
        BY <4>3 DEF OneApart
    <3>3. rxBuffer' = now \/ (noises' >= 3 /\ OneApart(rxBuffer', now))
      BY <1>2, <1>6, <2>1, <3>1, <3>2
    <3>. QED
      BY <1>1, <1>2, <1>4, <1>9, <2>6, <3>3 DEF Sampled, now, ART_BYTE
  <2>8. CASE pin # level
    <3>1. rxBuffer = sent
      BY <1>2, <1>7, <2>1, <2>8
    <3>2. \/ rxBitIdx \notin now /\ rxBuffer' = now \cup {rxBitIdx}
          \/ rxBitIdx \notin rxBuffer' /\ now = rxBuffer' \cup {rxBitIdx}
      BY <1>6, <2>2, <2>3, <2>4, <2>5, <2>8, <3>1 DEF BitOf
    <3>3. noises' >= 3 /\ OneApart(rxBuffer', now)
      BY <1>2, <1>6, <2>8, <3>2 DEF OneApart
    <3>. QED
      BY <1>1, <1>2, <1>4, <1>9, <2>6, <3>3 DEF Sampled, now, ART_BYTE
  <2>. QED
    BY <2>7, <2>8
<1>10. CASE rxBitIdx = ART_BYTE
  <2>1. b \cap 0 .. ART_BYTE - 1 = b
    BY <1>2 DEF Byte, Bit
  <2>2. /\ rxBuffer \in Byte /\ rxBuffer \subseteq 0 .. ART_BYTE - 1
        /\ rxBuffer = b \/ (noises >= 3 /\ OneApart(rxBuffer, b))
    BY <1>3, <1>10, <2>1 DEF Sampled, Byte, ART_BYTE
  <2>3. rxBuffer' = rxBuffer /\ rxBitIdx' = ART_BYTE + 1
    BY <1>4, <1>10 DEF ART_BYTE
  <2>4. rxBuffer # b => "PARITY_ERR" \in statusReg'
    <3>. SUFFICES ASSUME rxBuffer # b PROVE ParityIsWrong(pin)
      BY <1>4, <1>10
    <3>1. pin = Parity(b)
      BY <1>2, <1>7, <1>8, <1>10, <2>2 DEF ART_BYTE
    <3>. QED
      BY <1>2, <2>2, <3>1, ParityTells DEF ParityIsWrong
  <2>. QED
    BY <1>1, <1>4, <1>10, <2>2, <2>3, <2>4 DEF Sampled, Byte, Bit, ART_BYTE
<1>11. CASE rxBitIdx = ART_BYTE + 1
  <2>1. rxBuffer' = rxBuffer /\ statusReg' = statusReg
        /\ rxBitIdx' = ART_BYTE + 2
    BY <1>4, <1>11 DEF ART_BYTE
  <2>2. /\ rxBuffer \subseteq Bit /\ rxBuffer \subseteq 0 .. ART_BYTE
        /\ rxBuffer = b \/ "PARITY_ERR" \in statusReg
    BY <1>3, <1>11 DEF Sampled, ART_BYTE
  <2>. QED
    BY <1>1, <1>4, <1>11, <2>1, <2>2 DEF Sampled, Bit, ART_BYTE
<1>. QED
  BY <1>2, <1>9, <1>10, <1>11 DEF ART_BYTE

\* Of no character more samples are turned over than MaxNoise.
LEMMA NoiseBounded ==
  ASSUME RxInv, noises \in Nat, [Next]_vars
  PROVE  noises' \in Nat /\ (noises <= MaxNoise => noises' <= MaxNoise)
<1>0. noises \in Nat /\ MaxNoise \in Nat
  BY EnvironmentAssumption
<1>1. CASE UNCHANGED readerVars
  BY <1>0, <1>1 DEF readerVars
<1>2. CASE Main
  BY <1>1, <1>2, MainReceiver
<1>3. ASSUME NEW so_many \in Nat, NEW ones \in 0..Samples, NEW level,
             Noise(so_many, ones, level)
      PROVE  noises' \in Nat /\ noises' <= MaxNoise
  BY <1>3 DEF Noise, Flipped, Samples
<1>4. CASE Reader
  <2>1. ASSUME NEW b, NEW m, NEW so_many \in Nat, PinChanges(b, m, so_many)
        PROVE  noises' \in Nat /\ noises' <= MaxNoise
    BY <1>3, <2>1 DEF PinChanges
  <2>2. CASE UNCHANGED noises
    BY <1>0, <2>2
  <2>. QED
    BY <1>4, <2>1, <2>2 DEF Reader, ReaderStarts, ReaderGoesOn
<1>5. CASE ReceiveTick
  BY <1>3, <1>5 DEF ReceiveTick
<1>6. CASE TransmitTick
  BY <1>0, <1>6 DEF TransmitTick
<1>. QED
  BY <1>1, <1>2, <1>4, <1>5, <1>6 DEF Next, Timer, vars

LEMMA AsSentStep ==
  ASSUME Prompt, noises' <= 5, RxInv, AsSent, [Next]_vars
  PROVE  AsSent'
<1>. USE DEF RxInv, IInv, PlaceInv
<1>1. CASE UNCHANGED vars
  BY <1>1 DEF AsSent, AcceptedAsSent, Sampled, Line, vars, readerVars,
              sessionVars, artAllVars, artVars, devVars
<1>2. CASE Main
  <2>1. /\ "RX" \in statusReg' =>
              /\ "RX" \in statusReg
              /\ UNCHANGED <<statusReg, rxBuffer, rxBitIdx, ddrb, portb>>
        /\ "RX_COMP" \in statusReg' =>
              "RX_COMP" \in statusReg /\ UNCHANGED rxBuffer
        /\ UNCHANGED <<sending, late, noises, wire>>
    BY <1>2, MainReceiver DEF readerVars, sessionVars
  <2>. QED
    BY <2>1 DEF AsSent, AcceptedAsSent, Sampled, Line
<1>3. CASE Reader
  <2>1. /\ gpioInt /\ rxBitIdx = 0 /\ {"RX", "RX_COMP"} \cap statusReg = {}
        /\ Begins \/ UNCHANGED artAllVars
    BY <1>3, ReaderEffect DEF Reception
  <2>2. noises' \in Nat
    BY NoiseBounded DEF AsSent
  <2>3. /\ late' \in Nat
        /\ Begins /\ late' = 0 =>
             \E b \in HeaderBytes \cup DataBytes : sending' = {b}
    <3>1. ASSUME NEW b \in HeaderBytes \cup DataBytes, ReaderStarts(b)
          PROVE  late' = 0 /\ sending' = {b}
      BY <3>1 DEF ReaderStarts
    <3>2. ASSUME NEW b \in HeaderBytes \cup DataBytes, ReaderGoesOn(b)
          PROVE  /\ late' \in Nat
                 /\ late' = 0 /\ Begins => sending' = {b}
      <4>1. late \in Nat /\ sending = {b}
        BY <3>2 DEF AsSent, ReaderGoesOn
      <4>2. CASE UNCHANGED <<late, sending>>
        BY <4>1, <4>2
      <4>3. CASE late' = late + 1
        BY <4>1, <4>3
      <4>4. CASE late = ART_BYTE + 2 /\ UNCHANGED late
        BY <4>4 DEF ART_BYTE
      <4>. QED
        BY <3>2, <4>2, <4>3, <4>4 DEF ReaderGoesOn
    <3>. QED
      BY <1>3, <3>1, <3>2 DEF Reader
  <2>4. CASE Begins
    <3>1. ASSUME NEW b PROVE Sampled(b)'
      <4>1. rxBuffer' = {} /\ rxBitIdx' = 0 /\ b \cap 0 .. rxBitIdx' - 1 = {}
        BY <2>1, <2>4 DEF Begins
      <4>. QED
        BY ONLY <4>1 DEF Sampled, ART_BYTE
    <3>2. "RX_COMP" \notin statusReg'
      BY <2>1, <2>4 DEF Begins
    <3>. QED
      BY <2>2, <2>3, <2>4, <3>1, <3>2 DEF AsSent, AcceptedAsSent
  <2>5. CASE UNCHANGED artAllVars
    <3>1. {"RX", "RX_COMP"} \cap statusReg' = {}
      BY <2>1, <2>5 DEF artAllVars, artVars
    <3>. QED
      BY <2>2, <2>3, <3>1 DEF AsSent, AcceptedAsSent
  <2>. QED
    BY <2>1, <2>4, <2>5
<1>4. ASSUME NEW b \in HeaderBytes \cup DataBytes, PunctualTick(b)
      PROVE  AsSent'
  <2>1. PICK ones \in 0..Samples :
          /\ "RX" \in statusReg /\ sending = {b}
          /\ Art_rxTimerInterrupt(Dev_getPinAvg(ones))
          /\ rxBitIdx < ART_BYTE + 2 \/ Line = 0 => UNCHANGED sending
          /\ ~(rxBitIdx < ART_BYTE + 2 \/ Line = 0) => Session!ReaderSends(b)
          /\ late' = late
    BY <1>4, PunctualEffect
  <2>2. noises' \in Nat /\ late' \in Nat
    BY <2>1, NoiseBounded DEF AsSent
  <2>3. CASE ~RxEnds
    <3>1. Sampled(b)' /\ sending' = {b}
      BY <1>4, <2>3, SampledNext
    <3>. QED
      BY <2>2, <3>1 DEF AsSent, AcceptedAsSent
  <2>4. CASE RxEnds
    <3>1. Sampled(b) /\ rxBitIdx = ART_BYTE + 2
      BY <1>4, <2>1, <2>4 DEF AsSent, PunctualTick, RxEnds, Reception,
                             ART_BYTE
    <3>2. rxBuffer' = rxBuffer /\ "RX" \notin statusReg'
      BY <2>1, <2>4, <3>1 DEF Art_rxTimerInterrupt, RxStatus, ART_BYTE
    <3>3. CASE Line = 0
      <4>1. sending' = {b}
        BY <2>1, <3>3
      <4>. QED
        BY <2>2, <3>2, <4>1 DEF AsSent, AcceptedAsSent
    <3>4. CASE Line # 0
      <4>1. rxBuffer = b
        BY <3>1, <3>4 DEF Sampled, ART_BYTE
      <4>2. wire' = <<"reader", b>>
        BY <2>1, <3>1, <3>4 DEF Session!ReaderSends, ART_BYTE
      <4>. QED
        BY <2>2, <3>2, <4>1, <4>2 DEF AsSent, AcceptedAsSent
    <3>. QED
      BY <3>3, <3>4
  <2>. QED
    BY <2>3, <2>4
<1>5. ASSUME TransmitTick PROVE AsSent'
  <2>1. /\ "RX" \notin statusReg /\ "TX" \in statusReg
        /\ UNCHANGED <<sending, late, noises>>
    BY <1>5 DEF TransmitTick
  <2>2. PICK pin : Art_txTimerInterrupt(pin)
    BY <1>5 DEF TransmitTick
  <2>3. statusReg' \subseteq statusReg \cup {"PARITY_ERR"}
    BY <2>2 DEF Art_txTimerInterrupt, TxStatus
  <2>4. "RX_COMP" \notin statusReg
    BY <2>1 DEF Reception, FlagInv
  <2>. QED
    BY <2>1, <2>3, <2>4 DEF AsSent, AcceptedAsSent
<1>6. ASSUME ReceiveTick PROVE AsSent'
  <2>1. /\ "RX" \in statusReg /\ late' = late /\ late \in Nat
        /\ rxBitIdx \in 0 .. ART_BYTE + 2
    BY <1>6, TickEffect DEF AsSent, Reception
  <2>2. CASE late # 0
    BY <2>1, <2>2, NoiseBounded DEF AsSent, AcceptedAsSent
  <2>3. CASE late = 0
    <3>1. PICK b \in HeaderBytes \cup DataBytes : sending = {b}
      BY <2>1, <2>3 DEF AsSent
    <3>. QED
      BY <1>4, <1>6, <2>1, <2>3, <3>1 DEF PunctualTick
  <2>. QED
    BY <2>2, <2>3
<1>. QED
  BY <1>1, <1>2, <1>3, <1>5, <1>6 DEF Next, Timer

\* A character the reader takes for delivered is the one the card has, as
\* long as noise turns over too few samples to make two bits of it wrong: the
\* bit that three samples make wrong is always signalled, the parity bit
\* included (Dev_getPinAvg, Dev_calcParity, Art_rxTimerInterrupt).
THEOREM DeliveredAsSent ==
  ASSUME Prompt, MaxNoise <= 5
  PROVE  Spec => []AcceptedAsSent
<1>. DEFINE Inv == RxInv /\ AsSent /\ noises <= MaxNoise
<1>1. Inv => AcceptedAsSent
  BY DEF AsSent
<1>2. Init => Inv
  BY ReceptionInit, EnvironmentAssumption DEF Init, AsSent, AcceptedAsSent
<1>3. Inv /\ [Next]_vars => Inv'
  <2>. SUFFICES ASSUME Inv, [Next]_vars PROVE Inv'
    OBVIOUS
  <2>1. noises' \in Nat /\ noises' <= MaxNoise
    BY NoiseBounded DEF AsSent
  <2>. QED
    BY <2>1, ReceptionStep, AsSentStep, EnvironmentAssumption
<1>. HIDE DEF Inv
<1>. QED
  BY <1>1, <1>2, <1>3, PTL DEF Spec
-----------------------------------------------------------------------------
(***************************************************************************)
(* Card.tla implements Session.tla, for every answer to reset, every       *)
(* length of header and block, every byte and every decryption, on a calm  *)
(* line: noise turns over too few samples to make a bit wrong, the reader  *)
(* signals no error after 61 or 9D (card_reject shows what happens then),  *)
(* and main() takes each character before the next begins.                 *)
(*                                                                         *)
(* InStep relates main()'s place to the reader's, Flags the flags to       *)
(* main()'s place, Sending the line to the byte that is sent, and Blocks   *)
(* the block of the card to that of the reader.                            *)
(***************************************************************************)

\* main() is prompt, and the reader refuses neither 61 nor 9D.
Cooperative == Prompt /\ RejectAt \cap {"sw61", "sw9d"} = {}

Calm == Cooperative /\ MaxNoise <= 2

\* The character of main()'s place has passed, and main() is still there.
Ahead ==
  \/ step = "wait" /\ "TX" \notin statusReg
  \/ "RX_COMP" \in statusReg
  \/ step = "take"

\* The reader expects the character after character c of the part p.
Past(p, c) ==
  \/ p = "ins" /\ phase = "data" /\ count = c
  \/ /\ p # "ins" /\ c + 1 < Session!Length[p]
     /\ phase = (IF p = "data" THEN "ins" ELSE p) /\ count = c + 1
  \/ /\ p # "ins" /\ c + 1 = Session!Length[p]
     /\ phase = Session!Follower[p] /\ count = 0

InStep ==
  /\ byteSent \in 0 .. LoopLength[site] - 1
  /\ site = "aes" => phase = "sw61" /\ count = 0
  /\ site = "resume" => phase = "hdr1" /\ count = 0
  /\ site \notin Works /\ Ahead => Past(site, byteSent)
  /\ site \notin Works /\ ~Ahead => phase = site /\ count = byteSent

Flags ==
  /\ step \in {"duplex", "write", "start"} => statusReg = {}
  /\ step = "listen" => statusReg = {"MODE"}
  /\ step \in {"bkgnd", "poll", "store"} =>
       /\ statusReg \subseteq {"MODE", "RX", "RX_COMP"}
       /\ "RX" \in statusReg \/ gpioInt
       /\ ddrb = "in"
  /\ step = "store" => "RX_COMP" \in statusReg
  /\ step = "wait" =>
       /\ statusReg \subseteq {"TX", "PARITY_ERR"}
       /\ "PARITY_ERR" \in statusReg => site \notin {"sw61", "sw9d"}

\* The level of a slot.
LevelOf(b, i) == IF i < ART_BYTE THEN BitOf(b, i) ELSE Parity(b)

Sending ==
  /\ step # "start" => txFifo = << >>
  /\ step = "start" => txFifo = <<ByteToSend>>
  /\ site \in Sends /\ (site \in KeepsMode \cup KeepsStatus
                          \/ step \in {"write", "start", "wait"}) =>
       ddrb = "out"
  /\ "TX" \in statusReg =>
       /\ txBuffer = ByteToSend
       /\ txBitIdx \in 0 .. ART_BYTE + 1
       /\ txBitIdx = 0 => portb = 0
       /\ txBitIdx > 0 =>
            /\ portb = LevelOf(txBuffer, txBitIdx - 1)
            /\ heard = {i \in 0 .. txBitIdx - 2 : LevelOf(txBuffer, i) = 1}

Answering == {"sw61", "sw10", "hdr2", "c0", "resp"}

Blocks ==
  /\ stateText \in [1..BlockLen -> Byte]
  /\ block \in [1..BlockLen -> Byte]
  /\ site \in {"ins", "data"} =>
       \A i \in 1..byteSent : stateText[i] = block[i] /\ block[i] \in DataBytes
  /\ site = "data" /\ Ahead =>
       rxBuffer = block[byteSent + 1] /\ rxBuffer \in DataBytes
  /\ site = "data" /\ "RX" \in statusReg => sending \subseteq DataBytes
  /\ site = "aes" => stateText = block
  /\ site \in {"aes"} \cup Answering => block \in [1..BlockLen -> DataBytes]
  /\ site \in Answering => stateText = Aes(block)

Synchronized == InStep /\ Flags /\ Sending /\ Blocks

\* Every character is received with its start bit.
InTime == late = 0 /\ ~unnoticed

SessionInv == RxInv /\ AsSent /\ Synchronized /\ InTime
-----------------------------------------------------------------------------
(* The two tables of lengths and of successors.                            *)

LEMMA Lengths ==
  /\ \A s \in Site : LoopLength[s] \in Nat \ {0}
  /\ \A s \in Site \ Works :
       s \in Session!Phase /\ Session!Length[s] = LoopLength[s]
  /\ \A s \in {"ins", "data", "resp"} : LoopLength[s] = BlockLen
  /\ LoopLength["atr"] = Len(AtrBytes)
  /\ \A s \in Works : LoopLength[s] = 1
<1>1. Len(AtrBytes) \in Nat \ {0}
  BY LengthAssumption
<1>2. Site = {"atr", "ins", "sw61", "sw10", "c0", "resp", "sw9d", "sw00",
              "hdr1", "data", "hdr2", "aes", "resume"}
  BY DEF Site, Sends, Receives, Works
<1>3. Site \ Works = Session!Phase
  BY DEF Site, Sends, Receives, Works, Session!Phase, Session!ReaderTurn
<1>4. \A s \in Site :
        LoopLength[s] = IF s = "atr" THEN Len(AtrBytes)
                        ELSE IF s \in {"hdr1", "hdr2"} THEN HeaderLen
                        ELSE IF s \in {"ins", "data", "resp"} THEN BlockLen
                        ELSE 1
  BY DEF LoopLength
<1>5. \A s \in Session!Phase :
        Session!Length[s] = IF s = "atr" THEN Len(AtrBytes)
                            ELSE IF s \in {"hdr1", "hdr2"} THEN HeaderLen
                            ELSE IF s \in {"ins", "data", "resp"} THEN BlockLen
                            ELSE 1
  BY DEF Session!Length
<1>. QED
  BY <1>1, <1>2, <1>3, <1>4, <1>5, LengthAssumption DEF Works

LEMMA Successors ==
  /\ NextSite["atr"] = "hdr1" /\ NextSite["hdr1"] = "ins"
  /\ NextSite["data"] = "aes" /\ NextSite["aes"] = "sw61"
  /\ NextSite["sw61"] = "sw10" /\ NextSite["sw10"] = "hdr2"
  /\ NextSite["hdr2"] = "c0" /\ NextSite["c0"] = "resp"
  /\ NextSite["resp"] = "sw9d" /\ NextSite["sw9d"] = "sw00"
  /\ NextSite["sw00"] = "resume" /\ NextSite["resume"] = "hdr1"
BY DEF NextSite

LEMMA Followers ==
  /\ Session!Follower["data"] = "sw61" /\ Session!Follower["sw00"] = "hdr1"
  /\ \A s \in Site \ (Works \cup {"ins", "data", "sw00"}) :
       Session!Follower[s] = NextSite[s]
BY DEF Session!Follower, NextSite, Site, Sends, Receives, Works

LEMMA SameBlock ==
  ASSUME NEW S, NEW s \in [1..BlockLen -> Byte], NEW t \in [1..BlockLen -> Byte],
         \A i \in 1..BlockLen : s[i] = t[i] /\ t[i] \in S
  PROVE  s = t /\ t \in [1..BlockLen -> S]
<1>1. s = [i \in 1..BlockLen |-> s[i]] /\ t = [i \in 1..BlockLen |-> t[i]]
  OBVIOUS
<1>. QED
  BY <1>1

LEMMA ProceedCases ==
  ASSUME site \in Site, byteSent \in 0 .. LoopLength[site] - 1, Proceed
  PROVE  \/ /\ site = "ins" /\ site' = "data" /\ byteSent' = byteSent
         \/ /\ site = "data" /\ byteSent + 1 < LoopLength[site]
            /\ site' = "ins" /\ byteSent' = byteSent + 1
         \/ /\ site \in {"hdr1", "hdr2", "atr", "resp"}
            /\ byteSent + 1 < LoopLength[site]
            /\ site' = site /\ byteSent' = byteSent + 1
         \/ /\ site # "ins" /\ byteSent + 1 = LoopLength[site]
            /\ site' = NextSite[site] /\ byteSent' = 0
BY DEF Proceed, GoTo, KeepsMode

\* main() proceeds to the place where the reader already is.
LEMMA ProceedPlace ==
  ASSUME site \in Site, byteSent \in 0 .. LoopLength[site] - 1, Proceed,
         UNCHANGED <<phase, count>>,
         site \notin Works => Past(site, byteSent),
         site = "aes" => phase = "sw61" /\ count = 0,
         site = "resume" => phase = "hdr1" /\ count = 0
  PROVE  /\ byteSent' \in 0 .. LoopLength[site'] - 1
         /\ site' \notin Works => phase' = site' /\ count' = byteSent'
         /\ site' = "aes" => phase' = "sw61" /\ count' = 0
         /\ site' = "resume" => phase' = "hdr1" /\ count' = 0
<1>0. /\ site \notin Works => Session!Length[site] = LoopLength[site]
      /\ LoopLength[site] \in Nat \ {0} /\ byteSent \in Nat
  BY Lengths
<1>1. CASE /\ site = "ins" /\ site' = "data" /\ byteSent' = byteSent
  <2>1. LoopLength["ins"] = LoopLength["data"]
    BY Lengths
  <2>. QED
    BY <1>1, <2>1 DEF Past, Works
<1>2. CASE /\ site = "data" /\ byteSent + 1 < LoopLength[site]
           /\ site' = "ins" /\ byteSent' = byteSent + 1
  <2>1. LoopLength["ins"] = LoopLength["data"]
    BY Lengths
  <2>2. phase = "ins" /\ count = byteSent + 1
    BY <1>0, <1>2 DEF Past, Works
  <2>. QED
    BY <1>0, <1>2, <2>1, <2>2 DEF Works
<1>3. CASE /\ site \in {"hdr1", "hdr2", "atr", "resp"}
           /\ byteSent + 1 < LoopLength[site]
           /\ site' = site /\ byteSent' = byteSent + 1
  <2>1. phase = site /\ count = byteSent + 1
    BY <1>0, <1>3 DEF Past, Works
  <2>. QED
    BY <1>0, <1>3, <2>1 DEF Works
<1>4. CASE /\ site # "ins" /\ byteSent + 1 = LoopLength[site]
           /\ site' = NextSite[site] /\ byteSent' = 0
  <2>1. site' \in Site /\ LoopLength[site'] \in Nat \ {0}
    BY <1>4, Follows, Lengths
  <2>2. site \notin Works => phase = Session!Follower[site] /\ count = 0
    BY <1>0, <1>4 DEF Past
  <2>3. CASE site \in Works
    BY <1>4, <2>1, <2>3, Successors DEF Works
  <2>4. CASE site = "data" \/ site = "sw00"
    BY <1>4, <2>1, <2>2, <2>4, Successors, Followers DEF Works
  <2>5. CASE site \in Site \ (Works \cup {"ins", "data", "sw00"})
    <3>1. phase = site' /\ count = 0
      BY <1>4, <2>2, <2>5, Followers
    <3>2. site' \notin Works
      BY <1>4, <2>5, Successors DEF Site, Sends, Receives, Works
    <3>. QED
      BY <1>4, <2>1, <3>1, <3>2 DEF Works
  <2>. QED
    BY <1>4, <2>3, <2>4, <2>5
<1>. QED
  BY <1>1, <1>2, <1>3, <1>4, ProceedCases

\* What main() has of the block when it proceeds.
LEMMA ProceedBlocks ==
  ASSUME site \in Site \ {"aes"}, byteSent \in 0 .. LoopLength[site] - 1,
         Proceed, Blocks, block' = block, ~Ahead', "RX" \notin statusReg',
         stateText' \in [1..BlockLen -> Byte],
         site = "data" => \A i \in 1 .. byteSent + 1 :
                            stateText'[i] = block[i] /\ block[i] \in DataBytes,
         site # "data" => stateText' = stateText
  PROVE  Blocks'
<1>0. byteSent \in Nat /\ BlockLen \in Nat
  BY Lengths, LengthAssumption
<1>1. CASE /\ site = "ins" /\ site' = "data" /\ byteSent' = byteSent
  BY <1>1 DEF Blocks, Answering
<1>2. CASE /\ site = "data" /\ byteSent + 1 < LoopLength[site]
           /\ site' = "ins" /\ byteSent' = byteSent + 1
  BY <1>2 DEF Blocks, Answering
<1>3. CASE /\ site \in {"hdr1", "hdr2", "atr", "resp"}
           /\ byteSent + 1 < LoopLength[site]
           /\ site' = site /\ byteSent' = byteSent + 1
  BY <1>3 DEF Blocks, Answering
<1>4. CASE site = "data" /\ site' = "aes" /\ byteSent + 1 = BlockLen
  <2>1. \A i \in 1..BlockLen : stateText'[i] = block[i] /\ block[i] \in DataBytes
    BY <1>4
  <2>2. block \in [1..BlockLen -> Byte]
    BY DEF Blocks
  <2>3. stateText' = block /\ block \in [1..BlockLen -> DataBytes]
    BY <2>1, <2>2, SameBlock
  <2>. QED
    BY <1>4, <2>2, <2>3 DEF Blocks, Answering
<1>5. CASE /\ site \notin {"ins", "data", "aes"}
           /\ site' = NextSite[site] /\ byteSent' = 0
  <2>1. site' \notin {"data", "aes", "sw61"}
    BY <1>5, Successors DEF Site, Sends, Receives, Works
  <2>2. site' \in Answering => site \in Answering
    BY <1>5, Successors DEF Site, Sends, Receives, Works, Answering
  <2>3. stateText' = stateText
    BY <1>5
  <2>. QED
    BY <1>5, <2>1, <2>2, <2>3 DEF Blocks
<1>. QED
  BY <1>1, <1>2, <1>3, <1>4, <1>5, ProceedCases, Successors, Lengths
-----------------------------------------------------------------------------
(* The steps of main().                                                    *)

\* Where the flags are clear nothing is ahead.
LEMMA PlaceFacts ==
  ASSUME RxInv, Synchronized
  PROVE  /\ site \in Site /\ byteSent \in 0 .. LoopLength[site] - 1
         /\ step \notin {"poll", "bkgnd", "store"} => "RX_COMP" \notin statusReg
         /\ step \notin {"poll", "bkgnd"} => "RX" \notin statusReg
         /\ step # "wait" => "TX" \notin statusReg
         /\ step \in {"listen", "bkgnd", "poll", "store"} => site \in Receives
         /\ step \in {"write", "start", "wait"} => site \in Sends
         /\ step \in {"clear", "duplex", "write", "start", "listen"} => ~Ahead
         /\ step = "work" <=> site \in Works
<1>1. /\ step \notin {"poll", "bkgnd", "store"} => "RX_COMP" \notin statusReg
      /\ step \notin {"poll", "bkgnd"} => "RX" \notin statusReg
      /\ step # "wait" => "TX" \notin statusReg
  BY DEF RxInv, Reception, IInv, PlaceInv, FlagInv
<1>2. step = "work" <=> site \in Works
  BY DEF RxInv, IInv, PlaceInv, PcOK, Site, Sends, Receives, Works, Step
<1>. QED
  BY <1>1, <1>2 DEF RxInv, IInv, PlaceInv, PcOK, Synchronized, InStep, Ahead

LEMMA ClearKeeps ==
  ASSUME RxInv, Synchronized, ClearStatus
  PROVE  Synchronized'
<1>. USE DEF Synchronized
<1>1. /\ step = "clear" /\ statusReg' = {} /\ site' = site
      /\ byteSent' = byteSent
      /\ step' = (IF site \in KeepsMode THEN "write" ELSE "duplex")
      /\ UNCHANGED <<stateText, phase, count, block, sending, heard, rxBuffer,
                     txBuffer, txBitIdx, txFifo, ddrb, portb, gpioInt>>
  BY DEF ClearStatus, At, Then, readerVars, sessionVars, fifoVars, devVars
<1>2. ~Ahead /\ ~Ahead' /\ site \notin Works
  BY <1>1, PlaceFacts DEF Ahead
<1>3. InStep'
  BY <1>1, <1>2 DEF InStep
<1>4. Flags'
  BY <1>1 DEF Flags
<1>5. Sending'
  BY <1>1 DEF Sending, KeepsMode
<1>6. Blocks'
  BY <1>1, <1>2 DEF Blocks
<1>. QED
  BY <1>3, <1>4, <1>5, <1>6

LEMMA DirectionKeeps ==
  ASSUME RxInv, Synchronized, SetDirection
  PROVE  Synchronized'
<1>. USE DEF Synchronized
<1>1. /\ step = "duplex" /\ site' = site /\ byteSent' = byteSent
      /\ UNCHANGED <<stateText, phase, count, block, sending, heard, rxBuffer,
                     txBuffer, txBitIdx, txFifo>>
  BY DEF SetDirection, At, Then, Art_duplexMode, readerVars, sessionVars,
         fifoVars
<1>2. \/ site \in Receives /\ step' = "listen" /\ statusReg' = {"MODE"}
      \/ /\ site \in Sends /\ step' = "write" /\ statusReg' = {}
         /\ ddrb' = "out"
  BY <1>1 DEF SetDirection, Then, Art_duplexMode, Dev_setGpioOut, Flags
<1>3. ~Ahead /\ ~Ahead' /\ site \notin Works
  BY <1>1, <1>2, PlaceFacts DEF Ahead
<1>4. InStep'
  BY <1>1, <1>3 DEF InStep
<1>5. Flags'
  BY <1>2 DEF Flags
<1>6. Sending'
  <2>1. site \in Receives => site \notin Sends
    BY DEF Sends, Receives
  <2>. QED
    BY <1>1, <1>2, <2>1 DEF Sending
<1>7. Blocks'
  BY <1>1, <1>2, <1>3 DEF Blocks
<1>. QED
  BY <1>4, <1>5, <1>6, <1>7

LEMMA WriteKeeps ==
  ASSUME RxInv, Synchronized, WriteByte
  PROVE  Synchronized'
<1>. USE DEF Synchronized
<1>1. /\ step = "write" /\ step' = "start" /\ site' = site
      /\ byteSent' = byteSent /\ statusReg' = statusReg /\ Tx!Put(ByteToSend)
      /\ UNCHANGED <<stateText, phase, count, block, sending, heard, rxBuffer,
                     txBitIdx, ddrb, portb, gpioInt>>
  BY DEF WriteByte, At, Then, readerVars, sessionVars, devVars
<1>2. /\ ~Ahead /\ ~Ahead' /\ site \notin Works
      /\ "TX" \notin statusReg /\ "RX" \notin statusReg
  BY <1>1, PlaceFacts DEF Ahead
<1>3. txFifo' = <<ByteToSend>>
  <2>1. txFifo = << >> /\ Len(txFifo) = 0
    BY <1>1 DEF Sending
  <2>2. txFifo' = Append(txFifo, ByteToSend)
    BY <1>1, <2>1, FifoAssumption DEF Tx!Put
  <2>. QED
    BY <2>1, <2>2
<1>4. ByteToSend' = ByteToSend
  BY <1>1 DEF ByteToSend
<1>5. InStep'
  BY <1>1, <1>2 DEF InStep
<1>6. Flags'
  BY <1>1 DEF Flags
<1>7. Sending'
  BY <1>1, <1>2, <1>3, <1>4 DEF Sending
<1>8. Blocks'
  BY <1>1, <1>2 DEF Blocks
<1>. QED
  BY <1>5, <1>6, <1>7, <1>8

LEMMA StartKeeps ==
  ASSUME RxInv, Synchronized, StartByte
  PROVE  Synchronized'
<1>. USE DEF Synchronized
<1>1. /\ step = "start" /\ step' = "wait" /\ site' = site
      /\ byteSent' = byteSent /\ Art_txByteStart
      /\ UNCHANGED <<stateText, phase, count, block, sending, heard>>
  BY DEF StartByte, At, Then, readerVars, sessionVars
<1>2. statusReg = {} /\ txFifo = <<ByteToSend>>
  BY <1>1 DEF Flags, Sending
<1>3. /\ statusReg' = {"TX"} /\ Tx!Get /\ txBitIdx' = 0 /\ portb' = 0
      /\ UNCHANGED <<rxBuffer, ddrb, gpioInt>>
  BY <1>1, <1>2 DEF Art_txByteStart, TxReady, Dev_setPin
<1>4. txFifo' = << >> /\ txBuffer' = ByteToSend
  <2>1. txFifo # << >> /\ Head(txFifo) = ByteToSend /\ Tail(txFifo) = << >>
    BY <1>2
  <2>. QED
    BY <1>3, <2>1 DEF Tx!Get
<1>5. ByteToSend' = ByteToSend
  BY <1>1 DEF ByteToSend
<1>6. ~Ahead /\ ~Ahead' /\ site \notin Works /\ site \in Sends
  BY <1>1, <1>3, PlaceFacts DEF Ahead
<1>7. InStep'
  BY <1>1, <1>6 DEF InStep
<1>8. Flags'
  BY <1>1, <1>3 DEF Flags
<1>9. Sending'
  BY <1>1, <1>3, <1>4, <1>5, <1>6 DEF Sending, ART_BYTE
<1>10. Blocks'
  BY <1>1, <1>3, <1>6 DEF Blocks
<1>. QED
  BY <1>7, <1>8, <1>9, <1>10

\* Where main() arrives when it proceeds, and from where.
LEMMA ProceedWay ==
  ASSUME site \in Site, byteSent \in 0 .. LoopLength[site] - 1, Proceed
  PROVE  /\ step' \in {"clear", "write", "work", "poll"}
         /\ step' = "poll" => site \in {"hdr1", "hdr2"}
         /\ step' = "write" => site \in {"sw61", "sw9d"}
         /\ site' \in KeepsMode \cup KeepsStatus => site \in Sends
<1>1. /\ site' \in Site
      /\ \/ step' = FirstStep(site')
         \/ site' = site /\ site \in {"hdr1", "hdr2"} /\ step' = "poll"
  BY ProceedTo
<1>2. site' \in KeepsStatus => site \in {"sw61", "sw9d"}
  BY ProceedCases, Successors
  DEF KeepsStatus, Site, Sends, Receives, Works
<1>3. site' \in KeepsMode => site \in Sends
  BY ProceedCases, Successors
  DEF KeepsMode, Site, Sends, Receives, Works
<1>. QED
  BY <1>1, <1>2, <1>3 DEF FirstStep, Sends, KeepsStatus

LEMMA ProceedKeeps ==
  ASSUME RxInv, Synchronized, Proceed,
         step \in {"wait", "store", "take", "work"},
         {"TX", "RX", "RX_COMP"} \cap statusReg' = {},
         site \in {"sw61", "sw9d"} => statusReg' = {},
         site \in {"hdr1", "hdr2"} =>
           statusReg' \subseteq {"MODE"} /\ gpioInt' /\ ddrb = "in",
         site \notin Works => Ahead,
         UNCHANGED <<phase, count, block, txFifo, ddrb>>,
         stateText' \in [1..BlockLen -> Byte],
         site = "data" => \A i \in 1 .. byteSent + 1 :
                            stateText'[i] = block[i] /\ block[i] \in DataBytes,
         site \notin {"data", "aes"} => stateText' = stateText,
         site = "aes" => stateText' = Aes(stateText)
  PROVE  Synchronized'
<1>. USE DEF Synchronized
<1>1. site \in Site /\ byteSent \in 0 .. LoopLength[site] - 1
  BY PlaceFacts
<1>2. /\ step' \in {"clear", "write", "work", "poll"}
      /\ step' = "poll" => site \in {"hdr1", "hdr2"}
      /\ step' = "write" => site \in {"sw61", "sw9d"}
      /\ site' \in KeepsMode \cup KeepsStatus => site \in Sends
  BY <1>1, ProceedWay
<1>3. ~Ahead'
  BY <1>2 DEF Ahead
<1>4. InStep'
  <2>1. /\ byteSent' \in 0 .. LoopLength[site'] - 1
        /\ site' \notin Works => phase' = site' /\ count' = byteSent'
        /\ site' = "aes" => phase' = "sw61" /\ count' = 0
        /\ site' = "resume" => phase' = "hdr1" /\ count' = 0
    BY <1>1, ProceedPlace DEF InStep
  <2>. QED
    BY <1>3, <2>1 DEF InStep
<1>5. Flags'
  BY <1>2 DEF Flags
<1>6. Sending'
  <2>1. txFifo' = << >>
    BY DEF Sending
  <2>2. site \in Sends => step = "wait" /\ ddrb = "out"
    <3>1. site \in Sends => step = "wait"
      BY DEF RxInv, IInv, PlaceInv, PcOK, Sends, Receives, Works
    <3>. QED
      BY <3>1 DEF Sending
  <2>3. step' = "write" => site \in Sends
    BY <1>2 DEF Sends
  <2>. QED
    BY <1>2, <2>1, <2>2, <2>3 DEF Sending
<1>7. Blocks'
  <2>1. CASE site # "aes"
    BY <1>1, <1>3, <2>1, ProceedBlocks
  <2>2. CASE site = "aes"
    <3>1. site' = "sw61"
      BY <1>1, <2>2, ProceedTo
    <3>. QED
      BY <2>2, <3>1 DEF Blocks
  <2>. QED
    BY <2>1, <2>2
<1>. QED
  BY <1>4, <1>5, <1>6, <1>7

LEMMA AwaitKeeps ==
  ASSUME RxInv, Synchronized, AwaitSent
  PROVE  Synchronized'
<1>1. /\ step = "wait" /\ "TX" \notin statusReg /\ Proceed
      /\ UNCHANGED <<stateText, statusReg, phase, count, block, txFifo, ddrb>>
  BY DEF AwaitSent, At, Sent, readerVars, sessionVars, artAllVars, artVars,
         fifoVars, devVars
<1>2. Ahead /\ site \in Sends
  BY <1>1, PlaceFacts DEF Ahead
<1>3. statusReg \subseteq {"PARITY_ERR"}
      /\ (site \in {"sw61", "sw9d"} => statusReg = {})
  BY <1>1 DEF Synchronized, Flags
<1>4. site \notin {"hdr1", "hdr2", "data", "aes"}
  BY <1>2 DEF Sends
<1>5. stateText \in [1..BlockLen -> Byte]
  BY DEF Synchronized, Blocks
<1>. QED
  BY <1>1, <1>2, <1>3, <1>4, <1>5, ProceedKeeps

LEMMA ListenKeeps ==
  ASSUME RxInv, Synchronized, Listen
  PROVE  Synchronized'
<1>. USE DEF Synchronized
<1>1. /\ step = "listen" /\ step' \in {"bkgnd", "poll"} /\ site' = site
      /\ byteSent' = byteSent /\ Art_rxByteStart
      /\ UNCHANGED <<stateText, phase, count, block, sending, heard>>
  BY DEF Listen, At, Then, readerVars, sessionVars
<1>2. statusReg = {"MODE"}
  BY <1>1 DEF Flags
<1>3. /\ gpioInt' = TRUE /\ statusReg' = statusReg
      /\ UNCHANGED <<txBuffer, txBitIdx, txFifo, ddrb, portb>>
  BY <1>1, <1>2 DEF Art_rxByteStart, RxReady, Dev_enGpioInterrupt, fifoVars
<1>4. ~Ahead /\ ~Ahead' /\ site \notin Works
  BY <1>1, <1>2, <1>3, PlaceFacts DEF Ahead
<1>5. InStep'
  BY <1>1, <1>4 DEF InStep
<1>6. Flags'
  BY <1>1, <1>2, <1>3 DEF Flags, RxInv, Reception
<1>7. Sending'
  BY <1>1, <1>2, <1>3 DEF Sending
<1>8. Blocks'
  BY <1>1, <1>2, <1>3, <1>4 DEF Blocks
<1>. QED
  BY <1>5, <1>6, <1>7, <1>8

LEMMA PollKeeps ==
  ASSUME RxInv, Synchronized, Background \/ Poll
  PROVE  Synchronized'
<1>. USE DEF Synchronized
<1>1. /\ \/ step = "bkgnd" /\ step' = "poll"
         \/ step = "poll" /\ step' = "store" /\ "RX_COMP" \in statusReg
      /\ site' = site /\ byteSent' = byteSent
      /\ UNCHANGED <<stateText, phase, count, block, sending, heard, statusReg,
                     rxBuffer, txBuffer, txBitIdx, txFifo, ddrb, portb,
                     gpioInt>>
  BY DEF Background, Poll, At, Then, readerVars, sessionVars, artAllVars,
         artVars, fifoVars, devVars
<1>2. (Ahead' <=> Ahead) /\ site \notin Works
  BY <1>1, PlaceFacts DEF Ahead
<1>3. InStep'
  BY <1>1, <1>2 DEF InStep, Past
<1>4. Flags'
  BY <1>1 DEF Flags
<1>5. Sending'
  <2>1. "TX" \notin statusReg /\ site \notin Sends
    BY <1>1, PlaceFacts DEF Sends, Receives
  <2>. QED
    BY <1>1, <2>1 DEF Sending
<1>6. Blocks'
  BY <1>1, <1>2 DEF Blocks
<1>. QED
  BY <1>3, <1>4, <1>5, <1>6

LEMMA StoreKeeps ==
  ASSUME RxInv, Synchronized, Store
  PROVE  Synchronized'
<1>. USE DEF Synchronized
<1>1. /\ step = "store" /\ statusReg' = statusReg \ {"RX_COMP"}
      /\ UNCHANGED <<stateText, phase, count, block, sending, heard, rxBuffer,
                     txBuffer, txBitIdx, txFifo, ddrb, portb, gpioInt>>
  BY DEF Store, At, readerVars, sessionVars, fifoVars, devVars, RxInv, IInv,
         PlaceInv, FlagInv
<1>2. /\ {"RX", "TX"} \cap statusReg = {} /\ "RX_COMP" \in statusReg /\ Ahead
      /\ site \in Receives /\ statusReg' \subseteq {"MODE"} /\ gpioInt
      /\ ddrb = "in"
  BY <1>1, PlaceFacts DEF Flags, Ahead
<1>3. CASE site = "data" /\ Then("take")
  <2>1. site' = site /\ byteSent' = byteSent /\ step' = "take" /\ Ahead'
    BY <1>3 DEF Then, Ahead
  <2>2. InStep'
    BY <1>1, <1>2, <2>1 DEF InStep, Past
  <2>3. Flags'
    BY <2>1 DEF Flags
  <2>4. Sending'
    BY <1>1, <1>2, <1>3, <2>1 DEF Sending, Sends
  <2>5. Blocks'
    BY <1>1, <1>2, <2>1 DEF Blocks
  <2>. QED
    BY <2>2, <2>3, <2>4, <2>5
<1>4. CASE site # "data" /\ Proceed
  <2>1. site \in {"hdr1", "hdr2"} /\ site \notin Works
    BY <1>2, <1>4 DEF Receives, Works
  <2>2. stateText \in [1..BlockLen -> Byte]
    BY DEF Blocks
  <2>. QED
    BY <1>1, <1>2, <1>4, <2>1, <2>2, ProceedKeeps
<1>. QED
  BY <1>3, <1>4 DEF Store

LEMMA TakeKeeps ==
  ASSUME RxInv, Synchronized, Take
  PROVE  Synchronized'
<1>1. /\ step = "take" /\ Proceed
      /\ stateText' = [stateText EXCEPT ![byteSent + 1] = rxBuffer]
      /\ UNCHANGED <<statusReg, phase, count, block, txFifo, ddrb>>
  BY DEF Take, At, readerVars, sessionVars, artAllVars, artVars, fifoVars,
         devVars
<1>2. site = "data" /\ Ahead
  BY <1>1 DEF RxInv, IInv, PlaceInv, PcOK, Ahead
<1>3. {"TX", "RX", "RX_COMP"} \cap statusReg = {}
  BY <1>1, PlaceFacts
<1>4. byteSent + 1 \in 1..BlockLen
  BY <1>2, PlaceFacts, Lengths, LengthAssumption
<1>5. /\ stateText \in [1..BlockLen -> Byte] /\ block \in [1..BlockLen -> Byte]
      /\ rxBuffer = block[byteSent + 1] /\ rxBuffer \in DataBytes
      /\ \A i \in 1..byteSent : stateText[i] = block[i] /\ block[i] \in DataBytes
  BY <1>2 DEF Synchronized, Blocks
<1>6. \A i \in 1 .. byteSent + 1 :
        stateText'[i] = block[i] /\ block[i] \in DataBytes
  <2>. SUFFICES ASSUME NEW i \in 1 .. byteSent + 1
                PROVE  stateText'[i] = block[i] /\ block[i] \in DataBytes
    OBVIOUS
  <2>1. CASE i = byteSent + 1
    BY <1>1, <1>4, <1>5, <2>1
  <2>2. CASE i # byteSent + 1
    <3>1. i \in 1..byteSent /\ i \in 1..BlockLen
      BY <1>4, <2>2, PlaceFacts, LengthAssumption
    <3>. QED
      BY <1>1, <1>5, <2>2, <3>1
  <2>. QED
    BY <2>1, <2>2
<1>7. stateText' \in [1..BlockLen -> Byte]
  BY <1>1, <1>4, <1>5
<1>. QED
  BY <1>1, <1>2, <1>3, <1>6, <1>7, ProceedKeeps

LEMMA WorkKeeps ==
  ASSUME RxInv, Synchronized, Decrypt \/ Seed_resume
  PROVE  Synchronized'
<1>1. /\ step = "work" /\ site \in Works /\ Proceed
      /\ site = "aes" => stateText' = Aes(stateText)
      /\ site # "aes" => stateText' = stateText
      /\ UNCHANGED <<statusReg, phase, count, block, txFifo, ddrb>>
  BY DEF Decrypt, Seed_resume, At, readerVars, sessionVars, artAllVars,
         artVars, fifoVars, devVars, Works
<1>2. {"TX", "RX", "RX_COMP"} \cap statusReg = {}
  BY <1>1, PlaceFacts
<1>3. stateText' \in [1..BlockLen -> Byte]
  <2>1. site = "aes" => stateText \in [1..BlockLen -> DataBytes]
    BY DEF Synchronized, Blocks
  <2>2. stateText \in [1..BlockLen -> Byte]
    BY DEF Synchronized, Blocks
  <2>. QED
    BY <1>1, <2>1, <2>2, AesAssumption
<1>4. site \notin {"sw61", "sw9d", "hdr1", "hdr2", "data"}
  BY <1>1 DEF Works
<1>. QED
  BY <1>1, <1>2, <1>3, <1>4, ProceedKeeps

LEMMA MainKeeps ==
  ASSUME RxInv, Synchronized, Main
  PROVE  Synchronized'
BY ClearKeeps, DirectionKeeps, WriteKeeps, StartKeeps, AwaitKeeps,
   ListenKeeps, PollKeeps, StoreKeeps, TakeKeeps, WorkKeeps DEF Main
-----------------------------------------------------------------------------
(* The steps of the reader and of the handlers.                            *)

\* On a calm line every start bit is noticed.
LEMMA CalmReader ==
  ASSUME Cooperative, noises' <= 2, RxInv, AsSent, InTime, Reader
  PROVE  \E b \in HeaderBytes \cup DataBytes :
           /\ phase = "data" => b \in DataBytes
           /\ sending' = {b} /\ late' = 0
           /\ gpioInt /\ step \in {"poll", "bkgnd"} /\ "RX_COMP" \notin statusReg
           /\ Begins
           /\ UNCHANGED <<mainVars, sessionVars, heard, rejects>>
           /\ \E ones \in 0..Samples : Noise(0, ones, 0)
<1>1. ~(\E b : ReaderGoesOn(b))
  BY DEF ReaderGoesOn, InTime
<1>2. PICK b \in HeaderBytes \cup DataBytes :
        ReaderStarts(b) /\ (phase = "data" => b \in DataBytes)
  BY <1>1 DEF Reader
<1>3. /\ PinChanges(b, 0, 0) /\ sending' = {b} /\ late' = 0
      /\ UNCHANGED sessionVars
  BY <1>2 DEF ReaderStarts
<1>4. PICK ones \in 0..Samples :
        /\ Noise(0, ones, 0)
        /\ unnoticed' = (Dev_getPinAvg(ones) = 1)
  BY <1>3 DEF PinChanges, Level
<1>5. Dev_getPinAvg(ones) # 1
  <2>1. noises' = ones
    BY <1>4 DEF Noise, Flipped
  <2>. QED
    BY <2>1 DEF Dev_getPinAvg, Samples
<1>6. unnoticed' = FALSE
  BY <1>4, <1>5, Zenon
<1>7. Begins
  BY <1>3, <1>6, PinEffect
<1>8. /\ gpioInt /\ step \in {"poll", "bkgnd"} /\ "RX_COMP" \notin statusReg
      /\ UNCHANGED <<mainVars, heard, rejects>>
  BY ReaderEffect DEF Cooperative, RxInv
<1>. QED
  BY <1>2, <1>3, <1>4, <1>7, <1>8

LEMMA StartsKeep ==
  ASSUME Cooperative, noises' <= 2, RxInv, AsSent, InTime, Synchronized, Reader
  PROVE  Synchronized'
<1>. USE DEF Synchronized
<1>1. /\ "RX_COMP" \notin statusReg
      /\ statusReg' = statusReg \cup {"RX"}
      /\ phase = "data" => sending' \subseteq DataBytes
      /\ UNCHANGED <<site, step, byteSent, stateText, phase, count, block,
                     heard, txBuffer, txBitIdx, txFifo, ddrb, portb>>
  BY CalmReader DEF Begins, mainVars, sessionVars, fifoVars
<1>2. step \in {"poll", "bkgnd"}
  BY CalmReader
<1>3. ~Ahead /\ ~Ahead' /\ site \notin Works /\ site \in Receives
  BY <1>1, <1>2, PlaceFacts DEF Ahead
<1>4. InStep'
  BY <1>1, <1>3 DEF InStep
<1>5. Flags'
  BY <1>1, <1>2 DEF Flags
<1>6. Sending'
  <2>1. "TX" \notin statusReg' /\ site \notin Sends
    BY <1>1, <1>2, <1>3, PlaceFacts DEF Sends, Receives
  <2>. QED
    BY <1>1, <1>2, <2>1 DEF Sending
<1>7. Blocks'
  BY <1>1, <1>3 DEF Blocks, InStep
<1>. QED
  BY <1>4, <1>5, <1>6, <1>7

\* A character of the session takes the reader past its place.
LEMMA AdvancePast ==
  ASSUME Session!Advance, phase = site, count = byteSent,
         UNCHANGED <<site, byteSent>>
  PROVE  Past(site, byteSent)'
BY DEF Session!Advance, Past

\* On a calm line no sample is wrong, and no character is.
LEMMA CalmTick ==
  ASSUME Cooperative, noises' <= 2, RxInv, AsSent, Synchronized,
         NEW b \in HeaderBytes \cup DataBytes, PunctualTick(b)
  PROVE  /\ "RX" \in statusReg /\ sending = {b} /\ b \in Byte
         /\ UNCHANGED <<site, step, byteSent, stateText, heard, txBuffer,
                        txBitIdx, txFifo, loaded, rejects>>
         /\ ddrb' = "in"
         /\ \/ /\ ~RxEnds /\ statusReg' = statusReg
               /\ UNCHANGED <<sending, phase, count, block, wire, gpioInt>>
            \/ /\ RxEnds /\ rxBuffer' = b /\ gpioInt'
               /\ statusReg' = (statusReg \ {"RX"}) \cup {"RX_COMP"}
               /\ sending' = {} /\ Session!ReaderSends(b)
<1>1. PICK ones \in 0..Samples :
        LET pin == Dev_getPinAvg(ones)
        IN /\ "RX" \in statusReg /\ sending = {b}
           /\ Art_rxTimerInterrupt(pin)
           /\ noises' = noises + Flipped(ones, ReaderLevel(b, rxBitIdx))
           /\ noises' <= MaxNoise
           /\ rxBitIdx < ART_BYTE + 2 \/ Line = 0 =>
                UNCHANGED <<sending, sessionVars>>
           /\ ~(rxBitIdx < ART_BYTE + 2 \/ Line = 0) =>
                sending' = {} /\ Session!ReaderSends(b)
  BY PunctualEffect
<1>. DEFINE pin == Dev_getPinAvg(ones)
            level == ReaderLevel(b, rxBitIdx)
<1>2. /\ UNCHANGED <<site, step, byteSent, stateText, heard, loaded, rejects>>
      /\ UNCHANGED <<txBuffer, txBitIdx, txFifo>>
  BY <1>1 DEF PunctualTick, ReceiveTick, mainVars, Art_rxTimerInterrupt, fifoVars
<1>3. /\ step \in {"poll", "bkgnd"} /\ ddrb = "in"
      /\ "PARITY_ERR" \notin statusReg /\ rxBitIdx \in 0 .. ART_BYTE + 2
  BY <1>1 DEF RxInv, IInv, PlaceInv, FlagInv, Reception, Synchronized, Flags
<1>4. b \in Byte /\ noises \in Nat /\ Sampled(b) /\ MaxNoise \in Nat
  BY <1>1, ByteAssumption, EnvironmentAssumption DEF AsSent, PunctualTick
<1>5. /\ statusReg' = RxStatus(pin) /\ RxPin
      /\ rxBuffer' = IF rxBitIdx < ART_BYTE /\ pin = 1
                     THEN rxBuffer \cup {rxBitIdx} ELSE rxBuffer
      /\ RxEnds => gpioInt' = TRUE
      /\ ~RxEnds => gpioInt' = gpioInt
  BY <1>1 DEF Art_rxTimerInterrupt, Dev_enGpioInterrupt
<1>6. ddrb' = "in"
  BY <1>3, <1>5 DEF RxPin, Dev_setGpioIn
<1>7. CASE RxEnds
  <2>1. rxBitIdx = ART_BYTE + 2 /\ Line = 1
    BY <1>3, <1>7 DEF RxEnds, Line, ART_BYTE
  <2>2. rxBuffer' = rxBuffer /\ rxBuffer = b
    BY <1>3, <1>4, <1>5, <2>1 DEF Sampled, ART_BYTE
  <2>3. sending' = {} /\ Session!ReaderSends(b)
    BY <1>1, <2>1 DEF ART_BYTE
  <2>4. gpioInt' /\ statusReg' = (statusReg \ {"RX"}) \cup {"RX_COMP"}
    BY <1>5, <1>7 DEF RxStatus
  <2>. QED
    BY <1>1, <1>2, <1>4, <1>6, <1>7, <2>2, <2>3, <2>4
<1>8. CASE ~RxEnds
  <2>1. rxBitIdx \in 0 .. ART_BYTE + 1
    BY <1>3, <1>8 DEF RxEnds, ART_BYTE
  <2>2. UNCHANGED <<sending, phase, count, block, wire>>
    BY <1>1, <2>1 DEF ART_BYTE, sessionVars
  <2>3. pin = level
    <3>1. level \in {0, 1}
      BY <1>4, <2>1, LevelIsBit DEF ART_BYTE
    <3>2. /\ Flipped(ones, level) \in Nat
          /\ pin # level => Flipped(ones, level) >= 3
      BY <3>1, Vote
    <3>3. noises' = noises + Flipped(ones, level)
      BY <1>1
    <3>. HIDE DEF pin, level
    <3>. QED
      BY <1>4, <3>2, <3>3
  <2>4. rxBitIdx = ART_BYTE => rxBuffer = b /\ pin = Parity(b)
    <3>. SUFFICES ASSUME rxBitIdx = ART_BYTE
                  PROVE  rxBuffer = b /\ pin = Parity(b)
      OBVIOUS
    <3>1. ~(noises >= 3)
      <4>1. Flipped(ones, level) \in Nat
        BY <1>4, <2>1, LevelIsBit, Vote DEF ART_BYTE
      <4>2. noises' = noises + Flipped(ones, level)
        BY <1>1
      <4>. HIDE DEF level
      <4>. QED
        BY <1>4, <4>1, <4>2
    <3>2. b \cap 0 .. rxBitIdx - 1 = b
      BY <1>4 DEF Byte, Bit, ART_BYTE
    <3>3. rxBuffer = b
      BY <1>4, <3>1, <3>2 DEF Sampled, ART_BYTE
    <3>4. level = Parity(b)
      BY DEF ReaderLevel, ART_BYTE
    <3>. QED
      BY <2>3, <3>3, <3>4
  <2>. HIDE DEF pin, level
  <2>5. statusReg' = statusReg
    BY <1>5, <1>8, <2>4 DEF RxStatus, ParityIsWrong
  <2>. QED
    BY <1>1, <1>2, <1>4, <1>5, <1>6, <1>8, <2>2, <2>5
<1>. QED
  BY <1>7, <1>8

LEMMA ReceiveKeeps ==
  ASSUME Cooperative, noises' <= 2, RxInv, AsSent, Synchronized,
         NEW b \in HeaderBytes \cup DataBytes, PunctualTick(b)
  PROVE  Synchronized'
<1>. USE DEF Synchronized
<1>1. /\ "RX" \in statusReg /\ sending = {b} /\ b \in Byte
      /\ UNCHANGED <<site, step, byteSent, stateText, heard, txBuffer,
                     txBitIdx, txFifo>>
      /\ ddrb' = "in"
  BY CalmTick
<1>2. /\ step \in {"poll", "bkgnd"}
      /\ {"TX", "RX_COMP"} \cap statusReg = {}
  BY <1>1 DEF RxInv, IInv, PlaceInv, FlagInv
<1>3. ~Ahead /\ site \notin Works /\ site \in Receives /\ site \notin Sends
  BY <1>2, PlaceFacts DEF Ahead, Sends, Receives
<1>4. phase = site /\ count = byteSent
  BY <1>3 DEF InStep
<1>5. CASE /\ statusReg' = statusReg
           /\ UNCHANGED <<sending, phase, count, block, gpioInt>>
  <2>1. ~Ahead'
    BY <1>1, <1>2, <1>5 DEF Ahead
  <2>2. InStep'
    BY <1>1, <1>3, <1>5, <2>1 DEF InStep
  <2>3. Flags'
    BY <1>1, <1>2, <1>5 DEF Flags
  <2>4. Sending'
    BY <1>1, <1>2, <1>3, <1>5 DEF Sending
  <2>5. Blocks'
    BY <1>1, <1>3, <1>5, <2>1 DEF Blocks
  <2>. QED
    BY <2>2, <2>3, <2>4, <2>5
<1>6. CASE /\ rxBuffer' = b /\ gpioInt'
           /\ statusReg' = (statusReg \ {"RX"}) \cup {"RX_COMP"}
           /\ sending' = {} /\ Session!ReaderSends(b)
  <2>1. /\ Session!Advance
        /\ block' = IF phase = "data" THEN [block EXCEPT ![count + 1] = b]
                    ELSE block
    BY <1>6 DEF Session!ReaderSends
  <2>2. Ahead'
    BY <1>6 DEF Ahead
  <2>3. InStep'
    <3>1. Past(site, byteSent)'
      BY <1>1, <1>4, <2>1, AdvancePast
    <3>. QED
      BY <1>1, <1>3, <2>2, <3>1 DEF InStep, Works, Receives
  <2>4. Flags'
    BY <1>1, <1>2, <1>6 DEF Flags
  <2>5. Sending'
    BY <1>1, <1>2, <1>3, <1>6 DEF Sending
  <2>6. Blocks'
    <3>1. CASE site # "data"
      <4>1. block' = block
        BY <1>4, <2>1, <3>1
      <4>. QED
        BY <1>1, <1>3, <3>1, <4>1 DEF Blocks
    <3>2. CASE site = "data"
      <4>1. b \in DataBytes
        BY <1>1, <3>2 DEF Blocks
      <4>2. block \in [1..BlockLen -> Byte] /\ stateText \in [1..BlockLen -> Byte]
        BY DEF Blocks
      <4>3. byteSent + 1 \in 1..BlockLen /\ byteSent \in Nat
        BY <3>2, PlaceFacts, Lengths, LengthAssumption
      <4>4. block' = [block EXCEPT ![byteSent + 1] = b]
        BY <1>4, <2>1, <3>2
      <4>5. block' \in [1..BlockLen -> Byte] /\ block'[byteSent + 1] = b
        BY <1>1, <4>2, <4>3, <4>4
      <4>6. \A i \in 1..byteSent :
              stateText[i] = block'[i] /\ block'[i] \in DataBytes
        <5>. SUFFICES ASSUME NEW i \in 1..byteSent
                      PROVE  stateText[i] = block'[i] /\ block'[i] \in DataBytes
          OBVIOUS
        <5>1. i \in 1..BlockLen /\ i # byteSent + 1
          BY <4>3, LengthAssumption
        <5>2. block'[i] = block[i]
          BY <4>2, <4>4, <5>1
        <5>. QED
          BY <3>2, <5>2 DEF Blocks
      <4>. QED
        BY <1>1, <1>6, <3>2, <4>1, <4>2, <4>5, <4>6 DEF Blocks, Answering
    <3>. QED
      BY <3>1, <3>2
  <2>. QED
    BY <2>3, <2>4, <2>5, <2>6
<1>. QED
  BY <1>5, <1>6, CalmTick

LEMMA TickIsPunctual ==
  ASSUME RxInv, AsSent, InTime, ReceiveTick
  PROVE  \E b \in HeaderBytes \cup DataBytes : PunctualTick(b)
<1>1. "RX" \in statusReg /\ late = 0
  BY TickEffect DEF InTime
<1>. QED
  BY <1>1 DEF AsSent, RxInv, Reception, PunctualTick

\* What the reader hears of the byte that main() sends.
LEMMA ByteIsByte ==
  ASSUME RxInv, Synchronized, site \in Sends
  PROVE  ByteToSend \in Byte
<1>1. byteSent \in 0 .. LoopLength[site] - 1
  BY DEF Synchronized, InStep
<1>2. CASE site = "atr"
  <2>1. AtrBytes \in Seq(Byte) /\ Len(AtrBytes) \in Nat
    BY LengthAssumption
  <2>2. byteSent + 1 \in 1 .. Len(AtrBytes)
    BY <1>1, <1>2, <2>1, Lengths
  <2>3. AtrBytes[byteSent + 1] \in Byte
    BY <2>1, <2>2
  <2>. QED
    BY <1>2, <2>3 DEF ByteToSend
<1>3. CASE site = "resp"
  <2>1. byteSent + 1 \in 1..BlockLen
    BY <1>1, <1>3, Lengths, LengthAssumption
  <2>2. stateText[byteSent + 1] \in Byte
    BY <2>1 DEF Synchronized, Blocks
  <2>. QED
    BY <1>3, <2>2 DEF ByteToSend
<1>4. CASE site \in Sends \ {"atr", "resp"}
  <2>1. Coded[site] \in Byte
    BY <1>4, ByteAssumption DEF Sends
  <2>. QED
    BY <1>4, <2>1 DEF ByteToSend
<1>. QED
  BY <1>2, <1>3, <1>4

\* One interrupt of the transmitter, on a calm line: a level of the byte goes
\* out, or the character ends with all its levels heard.
LEMMA SentTick ==
  ASSUME Cooperative, RxInv, Synchronized, TransmitTick
  PROVE  /\ step = "wait" /\ site \in Sends /\ "TX" \in statusReg
         /\ phase = site /\ count = byteSent /\ ddrb' = "out"
         /\ UNCHANGED <<site, step, byteSent, stateText, block, rxBuffer,
                        txBuffer, txFifo, sending, gpioInt, loaded>>
         /\ \/ /\ txBitIdx \in 0 .. ART_BYTE /\ txBitIdx' = txBitIdx + 1
               /\ statusReg' = statusReg
               /\ portb' = LevelOf(txBuffer, txBitIdx)
               /\ heard' = {i \in 0 .. txBitIdx - 1 : LevelOf(txBuffer, i) = 1}
               /\ UNCHANGED <<phase, count, wire, rejects>>
            \/ /\ statusReg' \subseteq {"PARITY_ERR"}
               /\ site \in {"sw61", "sw9d"} => statusReg' = {}
               /\ heard' = {i \in 0 .. ART_BYTE : LevelOf(txBuffer, i) = 1}
               /\ CharacterHeard /\ Session!Advance
<1>1. /\ "TX" \in statusReg /\ "RX" \notin statusReg /\ Hears
      /\ UNCHANGED <<site, step, byteSent, stateText, sending, loaded>>
  BY DEF TransmitTick, mainVars
<1>2. step = "wait" /\ site \in Sends /\ statusReg \subseteq {"TX", "PARITY_ERR"}
      /\ ("PARITY_ERR" \in statusReg => site \notin {"sw61", "sw9d"})
  BY <1>1, PlaceFacts DEF Synchronized, Flags
<1>3. /\ ddrb = "out" /\ txBuffer = ByteToSend
      /\ txBitIdx \in 0 .. ART_BYTE + 1
      /\ txBitIdx > 0 =>
            /\ portb = LevelOf(txBuffer, txBitIdx - 1)
            /\ heard = {i \in 0 .. txBitIdx - 2 : LevelOf(txBuffer, i) = 1}
  BY <1>1, <1>2 DEF Synchronized, Sending
<1>4. phase = site /\ count = byteSent /\ site \notin Works
  <2>1. ~Ahead /\ site \notin Works
    BY <1>1, <1>2, PlaceFacts DEF Ahead
  <2>. QED
    BY <2>1 DEF Synchronized, InStep
<1>5. PICK pin :
        /\ Art_txTimerInterrupt(pin)
        /\ \/ /\ txBitIdx < ART_BYTE + 1
              /\ UNCHANGED <<sessionVars, rejects>>
           \/ /\ txBitIdx = ART_BYTE + 1
              /\ pin = 0 => phase \in RejectAt
              /\ CharacterHeard
  BY DEF TransmitTick
<1>6. UNCHANGED <<rxBuffer, txBuffer, txFifo, gpioInt>>
  BY <1>5 DEF Art_txTimerInterrupt, fifoVars
<1>7. heard' = {i \in 0 .. txBitIdx - 1 : LevelOf(txBuffer, i) = 1}
  <2>1. CASE txBitIdx = 0
    BY <1>1, <2>1 DEF Hears
  <2>2. CASE txBitIdx > 0
    <3>1. heard' = IF LevelOf(txBuffer, txBitIdx - 1) = 1
                   THEN heard \cup {txBitIdx - 1} ELSE heard
      BY <1>1, <1>3, <2>2 DEF Hears, Line
    <3>2. heard = {i \in 0 .. txBitIdx - 2 : LevelOf(txBuffer, i) = 1}
      BY <1>3, <2>2
    <3>3. 0 .. txBitIdx - 1 = (0 .. txBitIdx - 2) \cup {txBitIdx - 1}
      BY <1>3, <2>2 DEF ART_BYTE
    <3>. QED
      BY <3>1, <3>2, <3>3
  <2>. QED
    BY <1>3, <2>1, <2>2
<1>8. CASE txBitIdx < ART_BYTE + 1
  <2>1. txBitIdx \in 0 .. ART_BYTE
    BY <1>3, <1>8 DEF ART_BYTE
  <2>2. /\ statusReg' = statusReg /\ txBitIdx' = txBitIdx + 1
        /\ portb' = TxLevel /\ ddrb' = ddrb
    BY <1>5, <2>1 DEF Art_txTimerInterrupt, TxStatus, TxEnds, TxPin,
                      Dev_setPin, ART_BYTE
  <2>3. TxLevel = LevelOf(txBuffer, txBitIdx)
    BY <2>1 DEF TxLevel, LevelOf, ParityToSend, ART_BYTE
  <2>4. UNCHANGED <<phase, count, block, wire, rejects>>
    BY <1>5, <1>8, <2>1 DEF sessionVars, ART_BYTE
  <2>. QED
    BY <1>1, <1>2, <1>3, <1>4, <1>6, <1>7, <2>1, <2>2, <2>3, <2>4
<1>9. CASE txBitIdx = ART_BYTE + 1
  <2>1. /\ statusReg' = (statusReg \ {"TX"})
                          \cup (IF pin = 0 THEN {"PARITY_ERR"} ELSE {})
        /\ ddrb' = "out"
    BY <1>5, <1>9 DEF Art_txTimerInterrupt, TxStatus, TxEnds, TxPin,
                      Dev_setGpioOut, ART_BYTE
  <2>2. CharacterHeard /\ (pin = 0 => phase \in RejectAt)
    BY <1>5, <1>9 DEF ART_BYTE
  <2>3. site \in {"sw61", "sw9d"} => statusReg' = {}
    BY <1>2, <1>4, <2>1, <2>2 DEF Cooperative
  <2>4. statusReg' \subseteq {"PARITY_ERR"}
    BY <1>2, <2>1
  <2>5. Session!Advance /\ block' = block
    BY <1>2, <1>4, <2>2
    DEF CharacterHeard, Session!ReaderTurn, Sends
  <2>6. heard' = {i \in 0 .. ART_BYTE : LevelOf(txBuffer, i) = 1}
    BY <1>7, <1>9 DEF ART_BYTE
  <2>. QED
    BY <1>1, <1>2, <1>4, <1>6, <2>1, <2>2, <2>3, <2>4, <2>5, <2>6
<1>. QED
  BY <1>3, <1>8, <1>9 DEF ART_BYTE

LEMMA TransmitKeeps ==
  ASSUME Cooperative, RxInv, Synchronized, TransmitTick
  PROVE  Synchronized'
<1>. USE DEF Synchronized
<1>1. /\ step = "wait" /\ site \in Sends /\ "TX" \in statusReg
      /\ phase = site /\ count = byteSent /\ ddrb' = "out"
      /\ UNCHANGED <<site, step, byteSent, stateText, block, rxBuffer,
                     txBuffer, txFifo, sending, gpioInt>>
  BY SentTick
<1>2. site \notin Works /\ site # "data" /\ ByteToSend' = ByteToSend
  BY <1>1 DEF Sends, Works, ByteToSend
<1>3. Blocks'
  BY <1>1, <1>2 DEF Blocks
<1>4. CASE /\ txBitIdx \in 0 .. ART_BYTE /\ txBitIdx' = txBitIdx + 1
           /\ statusReg' = statusReg
           /\ portb' = LevelOf(txBuffer, txBitIdx)
           /\ heard' = {i \in 0 .. txBitIdx - 1 : LevelOf(txBuffer, i) = 1}
           /\ UNCHANGED <<phase, count>>
  <2>1. ~Ahead /\ ~Ahead'
    BY <1>1, <1>4, PlaceFacts DEF Ahead
  <2>2. InStep'
    BY <1>1, <1>4, <2>1 DEF InStep
  <2>3. Flags'
    BY <1>1, <1>4 DEF Flags
  <2>4. Sending'
    <3>1. /\ txBitIdx' \in 0 .. ART_BYTE + 1 /\ txBitIdx' > 0
          /\ txBitIdx' - 1 = txBitIdx /\ txBitIdx' - 2 = txBitIdx - 1
      BY <1>4 DEF ART_BYTE
    <3>2. portb' = LevelOf(txBuffer', txBitIdx' - 1)
      BY <1>1, <1>4, <3>1
    <3>3. heard' = {i \in 0 .. txBitIdx' - 2 : LevelOf(txBuffer', i) = 1}
      BY <1>1, <1>4, <3>1
    <3>. QED
      BY <1>1, <1>2, <3>1, <3>2, <3>3 DEF Sending
  <2>. QED
    BY <1>3, <2>2, <2>3, <2>4
<1>5. CASE /\ statusReg' \subseteq {"PARITY_ERR"}
           /\ site \in {"sw61", "sw9d"} => statusReg' = {}
           /\ Session!Advance
  <2>1. Ahead'
    BY <1>1, <1>5 DEF Ahead
  <2>2. Past(site, byteSent)'
    BY <1>1, <1>5, AdvancePast
  <2>3. InStep'
    BY <1>1, <1>2, <2>1, <2>2 DEF InStep, Works
  <2>4. Flags'
    BY <1>1, <1>5 DEF Flags
  <2>5. Sending'
    BY <1>1, <1>5 DEF Sending
  <2>. QED
    BY <1>3, <2>3, <2>4, <2>5
<1>. QED
  BY <1>4, <1>5, SentTick
-----------------------------------------------------------------------------
LEMMA SessionInit == Init => SessionInv
<1>. SUFFICES ASSUME Init PROVE SessionInv
  OBVIOUS
<1>1. /\ site = "atr" /\ step = "clear" /\ byteSent = 0 /\ statusReg = {}
      /\ stateText = [i \in 1..BlockLen |-> {}] /\ txFifo = << >>
      /\ ddrb = "out" /\ phase = "atr" /\ count = 0
      /\ block = [i \in 1..BlockLen |-> {}] /\ noises = 0 /\ late = 0
  BY DEF Init, Session!Init
<1>2. site \in Site /\ site \notin Works /\ ~Ahead
  BY <1>1 DEF Site, Sends, Works, Ahead
<1>3. LoopLength[site] \in Nat \ {0}
  BY <1>2, Lengths
<1>4. InStep
  BY <1>1, <1>2, <1>3 DEF InStep
<1>5. Flags
  BY <1>1 DEF Flags
<1>6. Sending
  BY <1>1 DEF Sending
<1>7. Blocks
  <2>1. {} \in Byte
    BY DEF Byte
  <2>. QED
    BY <1>1, <2>1 DEF Blocks, Answering
<1>8. AsSent
  BY <1>1 DEF AsSent, AcceptedAsSent
<1>9. InTime
  BY DEF Init, InTime
<1>. QED
  BY <1>4, <1>5, <1>6, <1>7, <1>8, <1>9, ReceptionInit
  DEF SessionInv, Synchronized

LEMMA SynchronizedStep ==
  ASSUME Cooperative, noises' <= 2, SessionInv, [Next]_vars
  PROVE  Synchronized'
<1>. USE DEF SessionInv
<1>1. CASE UNCHANGED vars
  <2>1. UNCHANGED <<site, step, byteSent, stateText, statusReg, rxBuffer,
                    txBuffer, txBitIdx, txFifo, ddrb, portb, gpioInt, phase,
                    count, block, sending, heard>>
    BY <1>1 DEF vars, mainVars, readerVars, sessionVars, artAllVars, artVars,
                fifoVars, devVars
  <2>2. (Ahead' <=> Ahead) /\ ByteToSend' = ByteToSend
    BY <2>1 DEF Ahead, ByteToSend
  <2>3. InStep'
    BY <2>1, <2>2 DEF Synchronized, InStep, Past
  <2>4. Flags'
    BY <2>1 DEF Synchronized, Flags
  <2>5. Sending'
    BY <2>1, <2>2 DEF Synchronized, Sending
  <2>6. Blocks'
    BY <2>1, <2>2 DEF Synchronized, Blocks
  <2>. QED
    BY <2>3, <2>4, <2>5, <2>6 DEF Synchronized
<1>2. CASE Main
  BY <1>2, MainKeeps
<1>3. CASE Timer
  BY <1>3, TransmitKeeps, TickIsPunctual, ReceiveKeeps DEF Timer
<1>4. CASE Reader
  BY <1>4, StartsKeep
<1>. QED
  BY <1>1, <1>2, <1>3, <1>4 DEF Next

LEMMA InTimeStep ==
  ASSUME Cooperative, noises' <= 2, RxInv, AsSent, InTime, [Next]_vars
  PROVE  InTime'
<1>1. CASE UNCHANGED <<late, unnoticed>>
  BY <1>1 DEF InTime
<1>2. CASE UNCHANGED vars
  BY <1>1, <1>2 DEF vars, readerVars
<1>3. CASE Main
  BY <1>1, <1>3, MainReceiver DEF readerVars
<1>4. CASE Timer
  BY <1>1, <1>4 DEF Timer, ReceiveTick, TransmitTick
<1>5. CASE Reader
  BY <1>5, CalmReader DEF Begins, InTime
<1>. QED
  BY <1>2, <1>3, <1>4, <1>5 DEF Next

LEMMA SessionStep ==
  ASSUME Cooperative, noises' <= 2, SessionInv, [Next]_vars
  PROVE  SessionInv'
<1>1. Prompt
  BY DEF Cooperative
<1>2. noises' <= 5
  <2>1. noises' \in Nat
    BY NoiseBounded DEF SessionInv, AsSent
  <2>. QED
    BY <2>1
<1>. QED
  BY <1>1, <1>2, ReceptionStep, AsSentStep, SynchronizedStep, InTimeStep
  DEF SessionInv

\* On a calm line every step is such a step.
CalmInv == SessionInv /\ noises <= MaxNoise

LEMMA CalmInit == Init => CalmInv
BY SessionInit, EnvironmentAssumption DEF Init, CalmInv

LEMMA CalmStep ==
  ASSUME Calm, CalmInv, [Next]_vars
  PROVE  Cooperative /\ noises' <= 2 /\ CalmInv'
<1>1. Cooperative /\ MaxNoise \in Nat /\ MaxNoise <= 2
  BY EnvironmentAssumption DEF Calm
<1>2. noises' \in Nat /\ noises' <= MaxNoise
  BY NoiseBounded DEF CalmInv, SessionInv, AsSent
<1>3. noises' <= 2
  BY <1>1, <1>2
<1>. QED
  BY <1>1, <1>2, <1>3, SessionStep DEF CalmInv

LEMMA AloneInStep == SessionInv => MainAlone
<1>. SUFFICES ASSUME SessionInv PROVE MainAlone
  OBVIOUS
<1>. USE DEF SessionInv
<1>1. step \notin {"poll", "bkgnd", "wait"} => ~cs10
  BY PlaceFacts DEF RxInv, IInv, PlaceInv, FlagInv
<1>2. ASSUME step \in {"clear", "duplex", "write", "start", "listen"}, gpioInt
      PROVE  phase \notin Session!ReaderTurn
  <2>1. site \in {"ins", "sw61", "c0"}
    BY <1>2 DEF RxInv, IInv, PlaceInv, FlagInv, Listening
  <2>2. phase = site
    BY <1>2, <2>1, PlaceFacts DEF Synchronized, InStep, Works
  <2>. QED
    BY <2>1, <2>2 DEF Session!ReaderTurn
<1>. QED
  BY <1>1, <1>2 DEF MainAlone

LEMMA TurnInStep == SessionInv => NoMutualWait
<1>. SUFFICES ASSUME SessionInv,
                     step = "poll" /\ {"RX", "RX_COMP"} \cap statusReg = {}
              PROVE  gpioInt /\ phase \in Session!ReaderTurn
  BY DEF NoMutualWait
<1>. USE DEF SessionInv
<1>1. gpioInt
  BY DEF Synchronized, Flags
<1>2. site \in Receives /\ ~Ahead /\ site \notin Works
  BY PlaceFacts DEF Ahead
<1>3. phase = site
  BY <1>2 DEF Synchronized, InStep
<1>. QED
  BY <1>1, <1>3, <1>2 DEF Receives, Session!ReaderTurn

LEMMA EmptyInStep == SessionInv => NothingLeftBehind
BY DEF SessionInv, Synchronized, Sending, NothingLeftBehind

\* At every instruction of main() that writes a register both handlers are
\* quiet, so that no update is lost (Atr.c, Art_duplexMode, Art_txByteStart,
\* Art_rxByteStart).
THEOREM UpdatesAlone ==
  ASSUME Calm
  PROVE  Spec => []MainAlone
BY AloneInStep, CalmInit, CalmStep, PTL DEF Spec, CalmInv

\* When the card polls for a character that has not begun it is the reader's
\* turn, and the start bit will be noticed (the loops of Atr.c without a
\* timeout).
THEOREM NeverBothWait ==
  ASSUME Calm
  PROVE  Spec => []NoMutualWait
BY TurnInStep, CalmInit, CalmStep, PTL DEF Spec, CalmInv

\* No byte stays in the FIFO once its transmission was due: Art_txByteStart,
\* whose result Atr.c ignores, is never refused.
THEOREM QueueEmptied ==
  ASSUME Calm
  PROVE  Spec => []NothingLeftBehind
BY EmptyInStep, CalmInit, CalmStep, PTL DEF Spec, CalmInv
-----------------------------------------------------------------------------
(* The characters on the wire.                                             *)

\* When the last moment has passed the reader has the byte and its parity.
LEMMA ByteHeard ==
  ASSUME NEW b \in Byte, txBuffer = b, CharacterHeard,
         heard' = {i \in 0 .. ART_BYTE : LevelOf(txBuffer, i) = 1}
  PROVE  wire' = <<"card", b>>
<1>1. b \subseteq Bit /\ Bit = 0..7
  BY DEF Byte, Bit, ART_BYTE
<1>2. \A i \in Bit : i \in heard' <=> i \in b
  BY <1>1 DEF LevelOf, BitOf, ART_BYTE
<1>3. heard' \cap Bit = b
  BY <1>1, <1>2
<1>4. ART_BYTE \in heard' <=> Parity(b) = 1
  BY DEF LevelOf, ART_BYTE
<1>5. Parity(b) \in {0, 1}
  BY LevelIsBit
<1>6. BitOf(heard', ART_BYTE) = Parity(b)
  BY <1>4, <1>5 DEF BitOf
<1>7. wire' = <<"card", IF BitOf(heard', ART_BYTE) = Parity(heard' \cap Bit)
                        THEN heard' \cap Bit ELSE Garbled>>
  BY DEF CharacterHeard
<1>. QED
  BY <1>3, <1>6, <1>7

\* What the session expects is what main() sends.
LEMMA ExpectedByte ==
  ASSUME Synchronized, site \in Sends, phase = site, count = byteSent
  PROVE  Session!Expected = ByteToSend
<1>1. CASE site = "resp"
  <2>1. stateText = Aes(block)
    BY <1>1 DEF Synchronized, Blocks, Answering
  <2>. QED
    BY <1>1, <2>1 DEF Session!Expected, ByteToSend
<1>2. CASE site # "resp"
  BY <1>2 DEF Session!Expected, ByteToSend
<1>. QED
  BY <1>1, <1>2

LEMMA SessionNext ==
  ASSUME Cooperative, noises' <= 2, SessionInv, [Next]_vars
  PROVE  [Session!Next]_(Session!vars)
<1>. USE DEF SessionInv
<1>1. CASE UNCHANGED sessionVars
  BY <1>1 DEF sessionVars, Session!vars
<1>2. CASE UNCHANGED vars
  BY <1>2 DEF vars, readerVars, sessionVars, Session!vars
<1>3. CASE Main
  <2>1. UNCHANGED readerVars
    BY <1>3, MainReceiver
  <2>. QED
    BY <1>1, <2>1 DEF readerVars
<1>4. CASE Reader
  BY <1>1, <1>4, CalmReader
<1>5. ASSUME NEW b \in HeaderBytes \cup DataBytes, PunctualTick(b)
      PROVE  [Session!Next]_(Session!vars)
  <2>1. CASE UNCHANGED <<phase, count, block, wire>>
    BY <2>1 DEF Session!vars
  <2>2. CASE Session!ReaderSends(b)
    BY <2>2 DEF Session!Next
  <2>. QED
    BY <1>5, <2>1, <2>2, CalmTick
<1>6. CASE TransmitTick
  <2>1. /\ site \in Sends /\ phase = site /\ count = byteSent
        /\ "TX" \in statusReg /\ block' = block
    BY <1>6, SentTick
  <2>2. CASE UNCHANGED <<phase, count, wire>>
    BY <2>1, <2>2 DEF Session!vars
  <2>3. CASE /\ CharacterHeard /\ Session!Advance
             /\ heard' = {i \in 0 .. ART_BYTE : LevelOf(txBuffer, i) = 1}
    <3>1. txBuffer = ByteToSend /\ ByteToSend \in Byte
      BY <2>1, ByteIsByte DEF Synchronized, Sending
    <3>2. wire' = <<"card", Session!Expected>>
      BY <2>1, <2>3, <3>1, ByteHeard, ExpectedByte
    <3>3. phase \notin Session!ReaderTurn
      BY <2>1 DEF Session!ReaderTurn, Sends
    <3>4. Session!CardSends
      BY <2>1, <2>3, <3>2, <3>3 DEF Session!CardSends
    <3>. QED
      BY <3>4 DEF Session!Next
  <2>. QED
    BY <1>6, <2>2, <2>3, SentTick
<1>. QED
  BY <1>2, <1>3, <1>4, <1>5, <1>6, TickIsPunctual DEF Next, Timer

\* The characters on the wire, with their values, parity and order, are those
\* of a session, and what the card returns is the decryption of what it was
\* sent: for every length of header and block and every decryption.
THEOREM SessionRefined ==
  ASSUME Calm
  PROVE  Spec => ImplementsSession
<1>1. Init => Session!Init
  BY DEF Init
<1>2. Init => CalmInv
  BY CalmInit
<1>3. CalmInv /\ [Next]_vars => CalmInv'
  BY CalmStep
<1>4. CalmInv /\ [Next]_vars => [Session!Next]_(Session!vars)
  BY CalmStep, SessionNext DEF CalmInv
<1>. QED
  BY <1>1, <1>2, <1>3, <1>4, PTL DEF Spec, ImplementsSession, Session!Spec
-----------------------------------------------------------------------------
\* The watchdog's interrupt, enabled, is enabled still after a step that keeps
\* it so between the same characters.
LEMMA SeedQuietStep ==
  ASSUME Cooperative, noises' <= 2, SessionInv, SeedQuiet, [Next]_vars
  PROVE  SeedQuiet'
<1>. USE DEF SessionInv
<1>0. SUFFICES ASSUME wdie'
               PROVE  \/ phase' = "atr"
                      \/ phase' = "hdr1" /\ count' = 0 /\ "RX" \notin statusReg'
  BY DEF SeedQuiet
<1>1. CASE UNCHANGED <<wdie, phase, count, statusReg>>
  BY <1>0, <1>1 DEF SeedQuiet
<1>2. CASE UNCHANGED vars
  BY <1>1, <1>2 DEF vars, readerVars, sessionVars, artAllVars, artVars
<1>3. CASE Main /\ ~Seed_resume
  <2>1. UNCHANGED <<phase, count>> /\ ("RX" \in statusReg' => "RX" \in statusReg)
    BY <1>3, MainReceiver DEF readerVars, sessionVars
  <2>2. wdie' = wdie
    BY <1>3 DEF Main, ClearStatus, SetDirection, Art_duplexMode, WriteByte,
                StartByte, Art_txByteStart, AwaitSent, Listen, Art_rxByteStart,
                Background, Poll, Store, Take, Decrypt, artAllVars
  <2>. QED
    BY <1>0, <2>1, <2>2 DEF SeedQuiet
<1>4. CASE Seed_resume
  <2>1. /\ step = "work" /\ site = "resume"
        /\ UNCHANGED <<phase, count, statusReg>>
    BY <1>4 DEF Seed_resume, At, readerVars, sessionVars, artVars
  <2>2. phase = "hdr1" /\ count = 0 /\ "RX" \notin statusReg
    BY <2>1, PlaceFacts DEF Synchronized, InStep
  <2>. QED
    BY <2>1, <2>2
<1>5. CASE Reader
  BY <1>0, <1>5, CalmReader DEF Begins
<1>6. ASSUME NEW b \in HeaderBytes \cup DataBytes, PunctualTick(b)
      PROVE  FALSE
  <2>1. "RX" \in statusReg /\ site \in Receives /\ phase = site /\ wdie' = wdie
    <3>1. "RX" \in statusReg
      BY <1>6, CalmTick
    <3>2. step \in {"poll", "bkgnd"} /\ "RX_COMP" \notin statusReg
      BY <3>1 DEF RxInv, IInv, PlaceInv, FlagInv
    <3>3. site \in Receives /\ ~Ahead /\ site \notin Works
      BY <3>2, PlaceFacts DEF Ahead
    <3>4. wdie' = wdie
      BY <1>6, PunctualEffect DEF Art_rxTimerInterrupt
    <3>. QED
      BY <3>1, <3>3, <3>4 DEF Synchronized, InStep
  <2>. QED
    BY <1>0, <2>1 DEF SeedQuiet, Receives
<1>7. CASE TransmitTick
  <2>1. /\ site \in Sends /\ phase = site /\ count = byteSent
        /\ "RX" \notin statusReg
    BY <1>7, SentTick DEF TransmitTick
  <2>2. PICK pin : Art_txTimerInterrupt(pin)
    BY <1>7 DEF TransmitTick
  <2>3. wdie' = wdie /\ "RX" \notin statusReg'
    BY <2>1, <2>2 DEF Art_txTimerInterrupt, TxStatus
  <2>4. phase = "atr"
    BY <1>0, <2>1, <2>3 DEF SeedQuiet, Sends
  <2>5. UNCHANGED <<phase, count>> \/ Session!Advance
    BY <1>7, SentTick
  <2>6. Session!Advance => phase' = "atr" \/ (phase' = "hdr1" /\ count' = 0)
    BY <2>4, Followers DEF Session!Advance, Session!Follower
  <2>. QED
    BY <2>3, <2>4, <2>5, <2>6
<1>. QED
  BY <1>2, <1>3, <1>4, <1>5, <1>6, <1>7, TickIsPunctual DEF Next, Timer

\* From a command's first start bit to Seed_resume no watchdog interrupt can
\* delay a bit (Art_gpioInterrupt pauses the seed, main() resumes it).
THEOREM SeedPaused ==
  ASSUME Calm
  PROVE  Spec => []SeedQuiet
<1>. DEFINE Inv == CalmInv /\ SeedQuiet
<1>1. Init => Inv
  BY CalmInit DEF Init, Session!Init, SeedQuiet
<1>2. Inv /\ [Next]_vars => Inv'
  BY CalmStep, SeedQuietStep DEF CalmInv
<1>3. Inv => SeedQuiet
  OBVIOUS
<1>. HIDE DEF Inv
<1>. QED
  BY <1>1, <1>2, <1>3, PTL DEF Spec
-----------------------------------------------------------------------------
(* Types.                                                                  *)

\* What the invariant leaves open of the type of a state.
Registers ==
  /\ loaded \subseteq Flag /\ statusReg \subseteq Flag
  /\ rxBuffer \in Byte /\ txBuffer \in Byte
  /\ rxBitIdx \in Stale \cup 0 .. ART_BYTE + 2
  /\ txBitIdx \in Stale \cup 0 .. ART_BYTE + 1
  /\ fifoRet \in {"OK", "NOK"}
  /\ ocr1a \in {Etu, FirstEtu}
  /\ ddrb \in {"in", "out"} /\ portb \in {0, 1}

Ether ==
  /\ sending = {} \/ \E b \in Byte : sending = {b}
  /\ heard \subseteq 0 .. ART_BYTE
  /\ noises \in 0..MaxNoise /\ noisy \in 0..MaxNoisy /\ rejects \in 0..MaxReject

LEMMA PlaceTypes ==
  ASSUME SessionInv
  PROVE  /\ site \in Site /\ step \in Step
         /\ byteSent \in 0 .. LoopLength[site] - 1
         /\ stateText \in [1..BlockLen -> Byte]
         /\ block \in [1..BlockLen -> Byte]
         /\ txFifo \in Seq(Byte) /\ Len(txFifo) <= FifoSize
         /\ phase \in Session!Phase /\ count \in 0 .. Session!Length[phase] - 1
<1>. USE DEF SessionInv
<1>1. /\ site \in Site /\ step \in Step
      /\ byteSent \in 0 .. LoopLength[site] - 1
      /\ stateText \in [1..BlockLen -> Byte]
      /\ block \in [1..BlockLen -> Byte]
  BY DEF RxInv, IInv, PlaceInv, PcOK, Synchronized, InStep, Blocks
<1>2. txFifo \in Seq(Byte) /\ Len(txFifo) <= FifoSize
  <2>1. CASE step = "start"
    <3>1. site \in Sends
      BY <2>1, PlaceFacts
    <3>2. ByteToSend \in Byte /\ txFifo = <<ByteToSend>>
      BY <2>1, <3>1, ByteIsByte DEF Synchronized, Sending
    <3>. QED
      BY <3>2, FifoAssumption
  <2>2. CASE step # "start"
    <3>1. txFifo = << >>
      BY <2>2 DEF Synchronized, Sending
    <3>. QED
      BY <3>1, FifoAssumption
  <2>. QED
    BY <2>1, <2>2
<1>3. \A p \in Session!Phase : Session!Length[p] \in Nat \ {0}
  <2>1. Session!Phase = Site \ Works
    BY DEF Session!Phase, Session!ReaderTurn, Site, Sends, Receives, Works
  <2>. QED
    BY <2>1, Lengths
<1>4. phase \in Session!Phase /\ count \in 0 .. Session!Length[phase] - 1
  <2>1. CASE site \in Works
    <3>1. phase \in {"sw61", "hdr1"} /\ count = 0
      BY <2>1 DEF Works, Synchronized, InStep
    <3>2. phase \in Session!Phase
      BY <3>1 DEF Session!Phase, Session!ReaderTurn
    <3>. QED
      BY <1>3, <3>1, <3>2
  <2>2. CASE site \notin Works /\ ~Ahead
    <3>1. phase = site /\ count = byteSent
      BY <2>2 DEF Synchronized, InStep
    <3>. QED
      BY <1>1, <2>2, <3>1, Lengths
  <2>3. CASE site \notin Works /\ Ahead
    <3>0. Past(site, byteSent)
      BY <2>3 DEF Synchronized, InStep
    <3>1. /\ site \in Session!Phase /\ Session!Length[site] = LoopLength[site]
          /\ byteSent \in Nat /\ LoopLength[site] \in Nat
      BY <1>1, <2>3, Lengths
    <3>2. Session!Length["ins"] = Session!Length["data"]
      BY DEF Session!Length, Session!Phase, Session!ReaderTurn
    <3>3. CASE site = "ins" /\ phase = "data" /\ count = byteSent
      BY <1>1, <3>1, <3>2, <3>3 DEF Session!Phase, Session!ReaderTurn
    <3>4. CASE /\ byteSent + 1 < Session!Length[site]
               /\ phase = (IF site = "data" THEN "ins" ELSE site)
               /\ count = byteSent + 1
      BY <1>1, <3>1, <3>2, <3>4 DEF Session!Phase, Session!ReaderTurn
    <3>5. CASE site # "ins" /\ phase = Session!Follower[site] /\ count = 0
      <4>1. \A p \in Session!Phase \ {"ins"} :
              Session!Follower[p] \in Session!Phase
        BY DEF Session!Follower, Session!Phase, Session!ReaderTurn
      <4>. QED
        BY <1>3, <3>1, <3>5, <4>1
    <3>. QED
      BY <3>0, <3>3, <3>4, <3>5 DEF Past
  <2>. QED
    BY <2>1, <2>2, <2>3
<1>. QED
  BY <1>1, <1>2, <1>4

LEMMA RegistersStep ==
  ASSUME Cooperative, noises' <= 2, SessionInv, Registers, [Next]_vars
  PROVE  Registers'
<1>. USE DEF SessionInv, Registers
<1>1. CASE UNCHANGED <<loaded, artVars, fifoRet, ocr1a, ddrb, portb>>
  BY <1>1 DEF artVars
<1>2. CASE UNCHANGED vars
  BY <1>1, <1>2 DEF vars, mainVars, artAllVars, fifoVars, devVars
<1>3. CASE AwaitSent \/ Background \/ Take \/ Decrypt \/ Seed_resume
  BY <1>1, <1>3 DEF AwaitSent, Background, Take, Decrypt, Seed_resume,
                    artAllVars, fifoVars, devVars
<1>4. CASE ClearStatus \/ Poll \/ Store
  BY <1>4 DEF ClearStatus, Poll, Store, artAllVars, artVars, fifoVars, devVars
<1>5. CASE SetDirection
  BY <1>5 DEF SetDirection, Art_duplexMode, Dev_setGpioIn, Dev_setGpioOut,
              fifoVars, Flag
<1>6. CASE WriteByte
  BY <1>6 DEF WriteByte, Tx!Put, devVars
<1>7. CASE StartByte
  <2>1. step = "start" /\ Art_txByteStart /\ loaded' = loaded
    BY <1>7 DEF StartByte, At
  <2>2. CASE UNCHANGED <<artVars, fifoVars, devVars>>
    BY <1>1, <2>1, <2>2 DEF fifoVars, devVars
  <2>3. CASE /\ statusReg' = {"TX"} /\ Tx!Get /\ txBitIdx' = 0 /\ portb' = 0
             /\ ocr1a' = FirstEtu /\ UNCHANGED <<rxBuffer, rxBitIdx, ddrb>>
    <3>1. txFifo = <<ByteToSend>> /\ ByteToSend \in Byte
      BY <2>1, PlaceFacts, ByteIsByte DEF Synchronized, Sending
    <3>2. txFifo # << >> /\ Head(txFifo) \in Byte
      BY <3>1
    <3>3. txBuffer' \in Byte /\ fifoRet' = "OK"
      BY <2>3, <3>2 DEF Tx!Get
    <3>. QED
      BY <2>1, <2>3, <3>3 DEF Flag, ART_BYTE
  <2>. QED
    BY <2>1, <2>2, <2>3
    DEF Art_txByteStart, Dev_setPin, Dev_updateTimerValue
<1>8. CASE Listen
  <2>1. {} \in Byte
    BY DEF Byte
  <2>. QED
    BY <1>8, <2>1 DEF Listen, Art_rxByteStart, artVars, fifoVars, devVars,
                      ART_BYTE
<1>9. CASE Reader
  <2>1. {} \in Byte
    BY DEF Byte
  <2>. QED
    BY <1>9, <2>1, CalmReader DEF Begins, mainVars, fifoVars, Flag
<1>10. ASSUME NEW b \in HeaderBytes \cup DataBytes, PunctualTick(b)
       PROVE  Registers'
  <2>1. PICK ones \in 0..Samples :
          "RX" \in statusReg /\ Art_rxTimerInterrupt(Dev_getPinAvg(ones))
    BY <1>10, PunctualEffect
  <2>2. /\ statusReg' \subseteq Flag /\ ddrb' = "in"
        /\ UNCHANGED <<loaded, txBuffer, txBitIdx>>
    BY <1>10, CalmTick DEF Flag
  <2>3. rxBitIdx \in 0 .. ART_BYTE + 2
    BY <2>1 DEF RxInv, Reception
  <2>4. rxBitIdx' \in 0 .. ART_BYTE + 2
    BY <2>1, <2>3 DEF Art_rxTimerInterrupt, RxEnds, ART_BYTE
  <2>5. rxBuffer' \in Byte
    <3>1. rxBitIdx < ART_BYTE => rxBitIdx \in Bit
      BY <2>3 DEF Bit, ART_BYTE
    <3>. QED
      BY <2>1, <3>1 DEF Art_rxTimerInterrupt, Byte
  <2>6. ocr1a' \in {Etu, FirstEtu} /\ portb' \in {0, 1} /\ fifoRet' = fifoRet
    BY <2>1 DEF Art_rxTimerInterrupt, Dev_updateTimerValue, Period, RxPin,
                Dev_setGpioIn, Dev_setPin, fifoVars
  <2>. QED
    BY <2>2, <2>4, <2>5, <2>6
<1>11. CASE TransmitTick
  <2>1. PICK pin : Art_txTimerInterrupt(pin)
    BY <1>11 DEF TransmitTick
  <2>2. "TX" \in statusReg /\ ddrb' = "out" /\ UNCHANGED <<loaded, txBuffer>>
    BY <1>11, SentTick
  <2>3. txBitIdx \in 0 .. ART_BYTE + 1
    BY <2>2 DEF Synchronized, Sending
  <2>4. txBitIdx' \in 0 .. ART_BYTE + 1
    BY <2>1, <2>3 DEF Art_txTimerInterrupt, TxEnds, ART_BYTE
  <2>5. statusReg' \subseteq Flag
    BY <2>1 DEF Art_txTimerInterrupt, TxStatus, Flag
  <2>6. portb' \in {0, 1}
    <3>1. Parity(txBuffer) \in {0, 1}
      BY LevelIsBit
    <3>. QED
      BY <2>1, <3>1 DEF Art_txTimerInterrupt, TxPin, Dev_setGpioOut,
                        Dev_setPin, TxLevel, ParityToSend, BitOf
  <2>7. /\ ocr1a' \in {Etu, FirstEtu}
        /\ UNCHANGED <<rxBuffer, rxBitIdx, fifoRet>>
    BY <2>1 DEF Art_txTimerInterrupt, Dev_updateTimerValue, Period, fifoVars
  <2>. QED
    BY <2>2, <2>4, <2>5, <2>6, <2>7
<1>. QED
  BY <1>2, <1>3, <1>4, <1>5, <1>6, <1>7, <1>8, <1>9, <1>10, <1>11,
     TickIsPunctual DEF Next, Main, Timer

LEMMA EtherStep ==
  ASSUME Cooperative, noises' <= 2, SessionInv, Ether, [Next]_vars
  PROVE  Ether'
<1>. USE DEF SessionInv, Ether
<1>1. CASE UNCHANGED readerVars
  BY <1>1 DEF readerVars
<1>2. CASE UNCHANGED vars
  BY <1>1, <1>2 DEF vars
<1>3. CASE Main
  BY <1>1, <1>3, MainReceiver
<1>4. noises' \in 0..MaxNoise
  <2>1. noises' \in Nat /\ noises' <= MaxNoise
    BY EnvironmentAssumption, NoiseBounded DEF AsSent
  <2>. QED
    BY <2>1, EnvironmentAssumption
<1>5. ASSUME NEW so_many, NEW ones, NEW level, Noise(so_many, ones, level)
      PROVE  noisy' \in 0..MaxNoisy
  BY <1>5, EnvironmentAssumption DEF Noise
<1>6. CASE Reader
  <2>1. PICK b \in HeaderBytes \cup DataBytes :
          /\ sending' = {b} /\ UNCHANGED <<heard, rejects>>
          /\ \E ones \in 0..Samples : Noise(0, ones, 0)
    BY <1>6, CalmReader
  <2>. QED
    BY <1>4, <1>5, <2>1, ByteAssumption
<1>7. ASSUME NEW b \in HeaderBytes \cup DataBytes, PunctualTick(b)
      PROVE  Ether'
  <2>1. /\ sending' = sending \/ sending' = {}
        /\ UNCHANGED <<heard, rejects>>
    BY <1>7, CalmTick
  <2>2. noisy' \in 0..MaxNoisy
    BY <1>5, <1>7 DEF PunctualTick, ReceiveTick
  <2>. QED
    BY <1>4, <2>1, <2>2
<1>8. CASE TransmitTick
  <2>1. "TX" \in statusReg /\ UNCHANGED <<sending, noises, noisy>>
    BY <1>8 DEF TransmitTick
  <2>2. heard' \subseteq 0 .. ART_BYTE
    <3>1. \/ /\ txBitIdx \in 0 .. ART_BYTE
             /\ heard' = {i \in 0 .. txBitIdx - 1 : LevelOf(txBuffer, i) = 1}
          \/ heard' = {i \in 0 .. ART_BYTE : LevelOf(txBuffer, i) = 1}
      BY <1>8, SentTick
    <3>. QED
      BY <3>1 DEF ART_BYTE
  <2>3. rejects' \in 0..MaxReject
    BY <1>8, EnvironmentAssumption DEF TransmitTick
  <2>. QED
    BY <2>1, <2>2, <2>3
<1>. QED
  BY <1>2, <1>3, <1>6, <1>7, <1>8, TickIsPunctual DEF Next, Timer

\* wdie is TRUE or FALSE.
LEMMA WdieStep ==
  ASSUME wdie \in BOOLEAN, [Next]_vars
  PROVE  wdie' \in BOOLEAN
<1>1. wdie' = wdie \/ wdie' = TRUE \/ wdie' = FALSE
  BY DEF Next, Main, ClearStatus, SetDirection, Art_duplexMode, WriteByte,
         StartByte, Art_txByteStart, AwaitSent, Listen, Art_rxByteStart,
         Background, Poll, Store, Take, Decrypt, Seed_resume, Timer,
         ReceiveTick, Art_rxTimerInterrupt, TransmitTick,
         Art_txTimerInterrupt, Reader, ReaderStarts, ReaderGoesOn,
         PinChanges, Art_gpioInterrupt, Seed_pause, artAllVars, vars
<1>. QED
  BY <1>1

LEMMA TypesInStep ==
  ASSUME SessionInv, Registers, Ether, wdie \in BOOLEAN
  PROVE  TypeOK
<1>1. sending \subseteq Byte /\ Cardinality(sending) <= 1
  <2>1. CASE sending = {}
    BY <2>1, FS_EmptySet
  <2>2. ASSUME NEW b \in Byte, sending = {b}
        PROVE  sending \subseteq Byte /\ Cardinality(sending) <= 1
    <3>1. Cardinality({b}) = 1
      BY FS_Singleton
    <3>2. Cardinality(sending) = 1 /\ sending \subseteq Byte
      BY <2>2, <3>1
    <3>. QED
      BY <3>2
  <2>. QED
    BY <2>1, <2>2 DEF Ether
<1>2. cs10 \in BOOLEAN /\ gpioInt \in BOOLEAN /\ wdie \in BOOLEAN
  BY DEF SessionInv, RxInv, IInv, PlaceInv
<1>3. late \in 0 .. ART_BYTE + 2 /\ unnoticed \in BOOLEAN
  BY DEF SessionInv, InTime, RxInv, IInv, NoticeInv, ART_BYTE
<1>. QED
  BY <1>1, <1>2, <1>3, PlaceTypes DEF TypeOK, Registers, Ether

\* Every register, index and counter stays in its range: no interrupt takes
\* an index past the moments of a character (rxBitIdx and txBitIdx of Art.c,
\* which main() leaves uninitialised), and no byte more than the FIFO holds
\* is queued.
THEOREM TypeCorrect ==
  ASSUME Calm
  PROVE  Spec => []TypeOK
<1>. DEFINE Inv == CalmInv /\ Registers /\ Ether /\ wdie \in BOOLEAN
<1>1. Init => Inv
  <2>1. {} \in Byte
    BY DEF Byte
  <2>. QED
    BY <2>1, CalmInit, EnvironmentAssumption
    DEF Init, Registers, Ether, Flag, ART_BYTE
<1>2. Inv /\ [Next]_vars => Inv'
  BY CalmStep, RegistersStep, EtherStep, WdieStep DEF CalmInv
<1>3. Inv => TypeOK
  BY TypesInStep DEF CalmInv
<1>. HIDE DEF Inv
<1>. QED
  BY <1>1, <1>2, <1>3, PTL DEF Spec
=============================================================================
