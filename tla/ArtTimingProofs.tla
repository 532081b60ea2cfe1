--------------------------- MODULE ArtTimingProofs ---------------------------
(***************************************************************************)
(* The moments of a character are on time for all delays that              *)
(* DelayAssumption allows, not just those TLC tries, once the card has     *)
(* received; the variables stay in their ranges from the start.            *)
(***************************************************************************)
EXTENDS ArtTiming, TLAPS

\* When the match of slot k is due after a start at offset o.
Due(o, k) == o + 351 + 373 * k

\* Before the first reception nothing is known of rxBitIdx, and so nothing of
\* the periods.
AnswerInv == role = "answer" => "RX" \notin statusReg /\ ~gpioInt

\* The transmitter: its matches are evenly spaced, as rxBitIdx is 0.
TxInv ==
  role = "transmitter" =>
    /\ "RX" \notin statusReg /\ ~gpioInt /\ rxBitIdx = 0
    /\ cs10 => /\ txBitIdx \in 0 .. ART_BYTE + 1
               /\ \E s \in StartDelay : next = Due(0 - s, txBitIdx)

\* The receiver: rxBitIdx is 0 whenever a start bit may come, and when a
\* character has been received.
RxInv ==
  role = "receiver" =>
    /\ "TX" \notin statusReg
    /\ gpioInt \/ (~cs10 /\ slot = ART_BYTE + 2) => rxBitIdx = 0
    /\ gpioInt => ~cs10
    /\ cs10 => /\ rxBitIdx \in 0 .. ART_BYTE + 2
               /\ \E e \in EntryDelay : next = Due(e, rxBitIdx)
               /\ rxBitIdx > 0 => ocr1a = Etu

IInv ==
  /\ role \in {"answer", "transmitter", "receiver"}
  /\ cs10 \in BOOLEAN /\ gpioInt \in BOOLEAN
  /\ AnswerInv /\ TxInv /\ RxInv
  /\ EdgesOnTime /\ SamplesOnTime

\* The arithmetic of the transmitter: 351 cycles, then 373 a bit, stay within
\* 0.2 etu of the end of every moment.
LEMMA TxMoment ==
  ASSUME NEW s \in StartDelay, NEW j \in IsrDelay, NEW k \in 0 .. ART_BYTE
  PROVE  Near(Due(0 - s, k) + j, 2 * k + 2)
<1>1. s \in Nat /\ j \in Nat /\ s <= j + 53 /\ j <= s + 87
  BY DelayAssumption
<1>. QED
  BY <1>1, ClockAssumption DEF Near, Due, ART_BYTE

\* The arithmetic of the receiver, up to the release at 11.5 etu.
LEMMA RxMoment ==
  ASSUME NEW e \in EntryDelay, NEW j \in IsrDelay, NEW k \in 0 .. ART_BYTE + 2
  PROVE  Near(Due(e, k) + j, 2 * k + 3)
<1>1. e \in Nat /\ j \in Nat /\ e + j \in 133..271
  BY DelayAssumption
<1>. QED
  BY <1>1, ClockAssumption DEF Near, Due, ART_BYTE

LEMMA InitInv == Init => IInv
BY DEF Init, IInv, AnswerInv, TxInv, RxInv, EdgesOnTime, SamplesOnTime, NoSlot,
       ART_BYTE

\* A transmit interrupt acts at the end of its moment, and the next match is
\* one regular period later.
LEMMA TxTickInv ==
  ASSUME IInv, NEW j \in IsrDelay, NEW pin \in {0, 1}, TxTick(j, pin)
  PROVE  IInv'
<1>1. /\ cs10 /\ "RX" \notin statusReg /\ "TX" \in statusReg
      /\ ocr1a' = Period /\ statusReg' = TxStatus(pin)
      /\ txBitIdx' = (IF TxEnds THEN 0 ELSE txBitIdx + 1)
      /\ cs10' = (~TxEnds /\ cs10)
      /\ rxBitIdx' = rxBitIdx /\ gpioInt' = gpioInt
      /\ slot' = txBitIdx /\ at' = next + j /\ next' = next + ocr1a' + 1
      /\ role' = role
  BY DEF TxTick, Art_txTimerInterrupt, Dev_denTimer, Dev_updateTimerValue
<1>2. role # "receiver" /\ ~gpioInt
  BY <1>1 DEF IInv, AnswerInv, TxInv, RxInv
<1>3. AnswerInv'
  BY <1>1, <1>2 DEF AnswerInv, TxStatus
<1>4. RxInv' /\ SamplesOnTime'
  BY <1>1, <1>2 DEF RxInv, SamplesOnTime
<1>5. CASE role = "answer"
  BY <1>1, <1>2, <1>3, <1>4, <1>5 DEF IInv, TxInv, EdgesOnTime
<1>6. CASE role = "transmitter"
  <2>1. rxBitIdx = 0 /\ txBitIdx \in 0 .. ART_BYTE + 1
    BY <1>1, <1>6 DEF IInv, TxInv
  <2>2. PICK s \in StartDelay : next = Due(0 - s, txBitIdx)
    BY <1>1, <1>6 DEF IInv, TxInv
  <2>3. s \in Nat /\ j \in Nat
    BY DelayAssumption
  <2>4. ocr1a' = 372
    BY <1>1, <2>1, ClockAssumption DEF Period
  <2>5. TxInv'
    <3>1. "RX" \notin statusReg'
      BY <1>1 DEF TxStatus
    <3>2. txBitIdx' \in 0 .. ART_BYTE + 1
      BY <1>1, <2>1 DEF TxEnds, ART_BYTE
    <3>3. cs10' => next' = Due(0 - s, txBitIdx')
      <4>. SUFFICES ASSUME cs10' PROVE next' = Due(0 - s, txBitIdx')
        OBVIOUS
      <4>1. ~TxEnds /\ txBitIdx' = txBitIdx + 1
        BY <1>1
      <4>. QED
        BY <1>1, <2>1, <2>2, <2>3, <2>4, <4>1 DEF Due, ART_BYTE
    <3>. QED
      BY <1>1, <1>2, <2>1, <3>1, <3>2, <3>3 DEF TxInv
  <2>6. EdgesOnTime'
    <3>. SUFFICES ASSUME slot' \in 0 .. ART_BYTE
                  PROVE  Near(at', 2 * slot' + 2)
      BY DEF EdgesOnTime, Near
    <3>. QED
      BY <1>1, <2>2, TxMoment
  <2>. QED
    BY <1>1, <1>2, <1>3, <1>4, <1>6, <2>5, <2>6 DEF IInv
<1>. QED
  BY <1>2, <1>5, <1>6 DEF IInv

\* A receive interrupt samples its moment, and the next match is one regular
\* period later.
LEMMA RxTickInv ==
  ASSUME IInv, NEW j \in IsrDelay, NEW pin \in {0, 1}, RxTick(j, pin)
  PROVE  IInv'
<1>1. /\ cs10 /\ "RX" \in statusReg
      /\ ocr1a' = Period /\ statusReg' = RxStatus(pin)
      /\ rxBitIdx' = (IF RxEnds THEN 0 ELSE rxBitIdx + 1)
      /\ RxEnds => cs10' = FALSE /\ gpioInt' = TRUE
      /\ ~RxEnds => cs10' = cs10 /\ gpioInt' = gpioInt
      /\ slot' = rxBitIdx /\ at' = next + j /\ next' = next + ocr1a' + 1
      /\ role' = role
  BY DEF RxTick, Art_rxTimerInterrupt, Dev_denTimer, Dev_enGpioInterrupt,
         Dev_updateTimerValue
<1>2. role = "receiver" /\ rxBitIdx \in 0 .. ART_BYTE + 2
      /\ "TX" \notin statusReg /\ ~gpioInt
  BY <1>1 DEF IInv, AnswerInv, TxInv, RxInv
<1>3. PICK e \in EntryDelay : next = Due(e, rxBitIdx)
  BY <1>1, <1>2 DEF IInv, RxInv
<1>4. e \in Nat /\ j \in Nat
  BY DelayAssumption
<1>5. ocr1a' = 372
  BY <1>1, <1>2, ClockAssumption DEF Period, IInv, RxInv
<1>6. AnswerInv' /\ TxInv'
  BY <1>1, <1>2 DEF AnswerInv, TxInv
<1>7. RxInv'
  <2>1. "TX" \notin statusReg'
    BY <1>1, <1>2 DEF RxStatus
  <2>2. rxBitIdx' \in 0 .. ART_BYTE + 2
    BY <1>1, <1>2 DEF RxEnds, ART_BYTE
  <2>3. cs10' => next' = Due(e, rxBitIdx')
    <3>. SUFFICES ASSUME cs10' PROVE next' = Due(e, rxBitIdx')
      OBVIOUS
    <3>1. ~RxEnds /\ rxBitIdx' = rxBitIdx + 1
      BY <1>1
    <3>. QED
      BY <1>1, <1>2, <1>3, <1>4, <1>5, <3>1 DEF Due, ART_BYTE
  <2>4. gpioInt' \/ (~cs10' /\ slot' = ART_BYTE + 2) => rxBitIdx' = 0 /\ ~cs10'
    <3>1. CASE RxEnds
      BY <1>1, <3>1
    <3>2. CASE ~RxEnds
      BY <1>1, <1>2, <3>2
    <3>. QED
      BY <3>1, <3>2
  <2>. QED
    BY <1>1, <1>2, <1>5, <2>1, <2>2, <2>3, <2>4, ClockAssumption DEF RxInv
<1>8. EdgesOnTime'
  BY <1>1, <1>2 DEF EdgesOnTime
<1>9. SamplesOnTime'
  <2>. SUFFICES ASSUME slot' \in 0 .. ART_BYTE + 2
                PROVE  Near(at', 2 * slot' + 3)
    BY DEF SamplesOnTime, Near
  <2>. QED
    BY <1>1, <1>3, RxMoment
<1>. QED
  BY <1>1, <1>2, <1>6, <1>7, <1>8, <1>9 DEF IInv

\* The other steps start a character, or leave the timer alone.
LEMMA StepInv ==
  ASSUME IInv, [Next]_vars
  PROVE  IInv'
<1>. USE DEF IInv
<1>1. CASE Clear \/ \E b \in Sent : Load(b)
  <2>1. /\ statusReg' = {}
        /\ UNCHANGED <<rxBitIdx, txBitIdx, cs10, ocr1a, gpioInt, timeVars>>
    BY <1>1 DEF Clear, Load, devVars
  <2>. QED
    BY <2>1 DEF AnswerInv, TxInv, RxInv, EdgesOnTime, SamplesOnTime, Near,
                Due, timeVars
<1>2. ASSUME NEW s \in StartDelay, StartTx(s) PROVE IInv'
  <2>1. role # "receiver" /\ role' = role /\ slot' = NoSlot
        /\ next' = FirstEtu + 1 - s /\ ~cs10
        /\ UNCHANGED <<rxBitIdx, gpioInt>>
    BY <1>2 DEF StartTx, Art_txByteStart, artVars, devVars
  <2>2. /\ \/ statusReg' = {"TX"} /\ txBitIdx' = 0 /\ cs10' = TRUE
           \/ UNCHANGED <<statusReg, txBitIdx, cs10>>
        /\ cs10' \in BOOLEAN
    BY <1>2, <2>1 DEF StartTx, Art_txByteStart, Dev_enTimer, artVars, devVars
  <2>3. next' = Due(0 - s, 0)
    BY <2>1, ClockAssumption, DelayAssumption DEF Due
  <2>4. AnswerInv' /\ RxInv' /\ EdgesOnTime' /\ SamplesOnTime'
    BY <2>1, <2>2
    DEF AnswerInv, RxInv, EdgesOnTime, SamplesOnTime, NoSlot, ART_BYTE
  <2>5. TxInv'
    BY <2>1, <2>2, <2>3 DEF TxInv, ART_BYTE
  <2>. QED
    BY <2>1, <2>2, <2>4, <2>5
<1>3. ASSUME NEW e \in EntryDelay, StartRx(e) PROVE IInv'
  <2>1. /\ role' = role /\ slot' = NoSlot /\ next' = e + FirstEtu + 1
        /\ gpioInt /\ cs10' = TRUE /\ gpioInt' = FALSE
        /\ statusReg' = statusReg \cup {"RX"} /\ rxBitIdx' = rxBitIdx
    BY <1>3 DEF StartRx, Art_gpioInterrupt, Dev_denGpioInterrupt, Dev_enTimer
  <2>2. role = "receiver" /\ rxBitIdx = 0 /\ "TX" \notin statusReg
    BY <2>1 DEF AnswerInv, TxInv, RxInv
  <2>3. next' = Due(e, rxBitIdx')
    BY <2>1, <2>2, ClockAssumption, DelayAssumption DEF Due
  <2>4. AnswerInv' /\ TxInv' /\ EdgesOnTime' /\ SamplesOnTime'
    BY <2>1, <2>2
    DEF AnswerInv, TxInv, EdgesOnTime, SamplesOnTime, NoSlot, ART_BYTE
  <2>5. RxInv'
    BY <2>1, <2>2, <2>3 DEF RxInv, ART_BYTE
  <2>. QED
    BY <2>1, <2>2, <2>4, <2>5
<1>4. CASE Take
  <2>1. /\ statusReg' = statusReg \ {"RX_COMP"}
        /\ UNCHANGED <<rxBitIdx, txBitIdx, cs10, ocr1a, gpioInt, timeVars>>
    BY <1>4 DEF Take, devVars
  <2>. QED
    BY <2>1 DEF AnswerInv, TxInv, RxInv, EdgesOnTime, SamplesOnTime, Near,
                Due, timeVars
<1>5. CASE Turn
  <2>1. /\ ~cs10 /\ statusReg = {} /\ slot' = NoSlot /\ cs10' = FALSE
        /\ rxBitIdx' = rxBitIdx
        /\ role = "receiver" => slot = ART_BYTE + 2
    BY <1>5 DEF Turn, Idle, Art_duplexMode, Dev_denTimer
  <2>2. EdgesOnTime' /\ SamplesOnTime'
    BY <2>1 DEF EdgesOnTime, SamplesOnTime, NoSlot, ART_BYTE
  <2>3. CASE role = "receiver"
    <3>1. role' = "transmitter" /\ gpioInt' = FALSE /\ statusReg' = {}
      BY <1>5, <2>1, <2>3
      DEF Turn, Art_duplexMode, Dev_denGpioInterrupt
    <3>2. rxBitIdx = 0
      BY <2>1, <2>3 DEF RxInv
    <3>. QED
      BY <2>1, <2>2, <3>1, <3>2 DEF AnswerInv, TxInv, RxInv
  <2>4. CASE role # "receiver"
    <3>1. role' = "receiver" /\ gpioInt' = gpioInt /\ statusReg' = {"MODE"}
      BY <1>5, <2>1, <2>4 DEF Turn, Art_duplexMode
    <3>2. ~gpioInt
      BY <2>4 DEF AnswerInv, TxInv
    <3>3. AnswerInv' /\ TxInv'
      BY <3>1 DEF AnswerInv, TxInv
    <3>4. RxInv'
      BY <2>1, <3>1, <3>2 DEF RxInv, NoSlot, ART_BYTE
    <3>5. cs10' \in BOOLEAN /\ gpioInt' \in BOOLEAN
      BY <2>1, <3>1
    <3>. QED
      BY <2>2, <3>1, <3>3, <3>4, <3>5
  <2>. QED
    BY <2>3, <2>4
<1>6. CASE Listen
  <2>1. role = "receiver" /\ ~cs10 /\ ~gpioInt /\ UNCHANGED timeVars
        /\ UNCHANGED <<statusReg, cs10, ocr1a>>
    BY <1>6 DEF Listen, Art_rxByteStart, artVars, devVars
  <2>2. \/ rxBitIdx' = 0 /\ gpioInt' = TRUE
        \/ UNCHANGED <<rxBitIdx, gpioInt>>
    BY <1>6 DEF Listen, Art_rxByteStart, Dev_enGpioInterrupt, artVars, devVars
  <2>3. role' = "receiver" /\ slot' = slot /\ at' = at /\ ~cs10'
    BY <2>1 DEF timeVars
  <2>4. AnswerInv' /\ TxInv' /\ EdgesOnTime'
    BY <2>3 DEF AnswerInv, TxInv, EdgesOnTime
  <2>5. SamplesOnTime'
    BY <2>1, <2>3 DEF SamplesOnTime, Near
  <2>6. RxInv'
    BY <2>1, <2>2, <2>3 DEF RxInv
  <2>. QED
    BY <2>1, <2>2, <2>3, <2>4, <2>5, <2>6
<1>7. CASE UNCHANGED vars
  BY <1>7 DEF vars, timeVars, artVars, devVars, AnswerInv, TxInv, RxInv,
              EdgesOnTime, SamplesOnTime, Near, Due
<1>. QED
  BY <1>1, <1>2, <1>3, <1>4, <1>5, <1>6, <1>7, TxTickInv, RxTickInv DEF Next

\* After its first reception the card sends every moment of every character
\* within 0.2 etu of its place, for all delays in the range and whatever the
\* indices held at power-up.
THEOREM EdgesAlwaysOnTime == Spec => []EdgesOnTime
<1>1. IInv => EdgesOnTime
  BY DEF IInv
<1>. QED
  BY <1>1, InitInv, StepInv, PTL DEF Spec

\* It samples every moment, and signals errors, within 0.2 etu of the times
\* that the comments of Art_rxTimerInterrupt give.
THEOREM SamplesAlwaysOnTime == Spec => []SamplesOnTime
<1>1. IInv => SamplesOnTime
  BY DEF IInv
<1>. QED
  BY <1>1, InitInv, StepInv, PTL DEF Spec
-----------------------------------------------------------------------------
(* Types, whatever the indices start with.                                 *)

\* A transmitter never receives, and a receiver never sends; an index that is
\* counted has been set.
RoleInv ==
  /\ role # "receiver" => "RX" \notin statusReg /\ ~gpioInt
  /\ role = "receiver" => "TX" \notin statusReg
  /\ gpioInt \/ "RX" \in statusReg => rxBitIdx \in 0 .. ART_BYTE + 2
  /\ "TX" \in statusReg => txBitIdx \in 0 .. ART_BYTE + 1

TypeInv == TypeOK /\ RoleInv

LEMMA Periods == Etu \in Int /\ FirstEtu \in Int
BY ClockAssumption

LEMMA TypeInit == Init => TypeInv
<1>. SUFFICES ASSUME Init PROVE TypeInv
  OBVIOUS
<1>1. cs10 \in BOOLEAN /\ gpioInt \in BOOLEAN /\ ~gpioInt
  BY DEF Init
<1>. QED
  BY <1>1 DEF Init, TypeInv, TypeOK, RoleInv, Flag, NoSlot, ART_BYTE

LEMMA TickTypes ==
  ASSUME TypeInv, NEW j \in IsrDelay, NEW pin, TxTick(j, pin) \/ RxTick(j, pin)
  PROVE  TypeInv'
<1>. USE DEF TypeInv, TypeOK
<1>1. j \in Nat
  BY DelayAssumption
<1>2. /\ cs10 /\ ocr1a' = Period /\ at' = next + j
      /\ next' = next + ocr1a' + 1 /\ role' = role
  BY DEF TxTick, RxTick, Art_txTimerInterrupt, Art_rxTimerInterrupt,
         Dev_updateTimerValue
<1>3. ocr1a' \in {Etu, FirstEtu} /\ next' \in Int /\ at' \in Int
  <2>1. ocr1a' \in {Etu, FirstEtu}
    BY <1>2 DEF Period
  <2>. QED
    BY <1>1, <1>2, <2>1, Periods
<1>4. CASE TxTick(j, pin)
  <2>1. /\ "TX" \in statusReg /\ statusReg' = TxStatus(pin)
        /\ txBitIdx' = (IF TxEnds THEN 0 ELSE txBitIdx + 1)
        /\ cs10' = (~TxEnds /\ cs10) /\ slot' = txBitIdx
        /\ UNCHANGED <<rxBitIdx, gpioInt>>
    BY <1>2, <1>4 DEF TxTick, Art_txTimerInterrupt, Dev_denTimer
  <2>2. role # "receiver" /\ txBitIdx \in 0 .. ART_BYTE + 1
    BY <2>1 DEF RoleInv
  <2>3. txBitIdx' \in 0 .. ART_BYTE + 1
    BY <2>1, <2>2 DEF TxEnds, ART_BYTE
  <2>4. statusReg' \subseteq Flag /\ "RX" \notin statusReg'
    BY <2>1, <2>2 DEF TxStatus, Flag, RoleInv
  <2>5. cs10' \in BOOLEAN /\ gpioInt' \in BOOLEAN
    BY <2>1
  <2>6. slot' \in 0 .. ART_BYTE + 2 \cup {NoSlot}
    BY <2>1, <2>2 DEF ART_BYTE
  <2>. QED
    BY <1>2, <1>3, <2>1, <2>2, <2>3, <2>4, <2>5, <2>6 DEF RoleInv
<1>5. CASE RxTick(j, pin)
  <2>1. /\ "RX" \in statusReg /\ statusReg' = RxStatus(pin)
        /\ rxBitIdx' = (IF RxEnds THEN 0 ELSE rxBitIdx + 1)
        /\ RxEnds => cs10' = FALSE /\ gpioInt' = TRUE
        /\ ~RxEnds => cs10' = cs10 /\ gpioInt' = gpioInt
        /\ slot' = rxBitIdx /\ txBitIdx' = txBitIdx
    BY <1>5 DEF RxTick, Art_rxTimerInterrupt, Dev_denTimer,
                Dev_enGpioInterrupt
  <2>2. role = "receiver" /\ rxBitIdx \in 0 .. ART_BYTE + 2
    BY <2>1 DEF RoleInv
  <2>3. rxBitIdx' \in 0 .. ART_BYTE + 2
    BY <2>1, <2>2 DEF RxEnds, ART_BYTE
  <2>4. statusReg' \subseteq Flag /\ "TX" \notin statusReg'
    BY <2>1, <2>2 DEF RxStatus, Flag, RoleInv
  <2>5. cs10' \in BOOLEAN /\ gpioInt' \in BOOLEAN
    BY <2>1
  <2>. QED
    BY <1>2, <1>3, <2>1, <2>2, <2>3, <2>4, <2>5 DEF RoleInv
<1>. QED
  BY <1>4, <1>5

LEMMA TypeStep ==
  ASSUME TypeInv, [Next]_vars
  PROVE  TypeInv'
<1>. USE DEF TypeInv, TypeOK
<1>1. CASE UNCHANGED vars
  BY <1>1 DEF vars, timeVars, artVars, devVars, RoleInv
<1>2. ASSUME Take \/ Clear \/ \E b \in Sent : Load(b) PROVE TypeInv'
  <2>1. /\ statusReg' \subseteq statusReg
        /\ UNCHANGED <<rxBitIdx, txBitIdx, cs10, ocr1a, gpioInt, timeVars>>
    BY <1>2 DEF Take, Clear, Load, devVars
  <2>. QED
    BY <2>1 DEF timeVars, RoleInv
<1>3. ASSUME NEW s \in StartDelay, StartTx(s) PROVE TypeInv'
  <2>1. /\ role # "receiver" /\ role' = role /\ slot' = NoSlot /\ at' = 0
        /\ next' = FirstEtu + 1 - s /\ s \in Nat
        /\ UNCHANGED <<rxBitIdx, gpioInt>>
    BY <1>3, DelayAssumption DEF StartTx, Art_txByteStart, artVars, devVars
  <2>2. \/ /\ statusReg' = {"TX"} /\ txBitIdx' = 0 /\ cs10' = TRUE
           /\ ocr1a' = FirstEtu
        \/ UNCHANGED <<statusReg, txBitIdx, cs10, ocr1a>>
    BY <1>3 DEF StartTx, Art_txByteStart, Dev_enTimer, Dev_updateTimerValue,
                artVars, devVars
  <2>3. next' \in Int
    BY <2>1, Periods
  <2>4. cs10' \in BOOLEAN /\ gpioInt' \in BOOLEAN
    BY <2>1, <2>2
  <2>5. RoleInv'
    BY <2>1, <2>2 DEF RoleInv, ART_BYTE
  <2>6. statusReg' \subseteq Flag
    BY <2>2 DEF Flag
  <2>7. /\ txBitIdx' \in StaleIdx \cup 0 .. ART_BYTE + 1
        /\ ocr1a' \in {Etu, FirstEtu}
    BY <2>2 DEF ART_BYTE
  <2>. QED
    BY <2>1, <2>3, <2>4, <2>5, <2>6, <2>7
<1>4. ASSUME NEW e \in EntryDelay, StartRx(e) PROVE TypeInv'
  <2>1. /\ gpioInt /\ role' = role /\ slot' = NoSlot /\ at' = 0
        /\ next' = e + FirstEtu + 1 /\ e \in Nat
        /\ statusReg' = statusReg \cup {"RX"} /\ ocr1a' = FirstEtu
        /\ cs10' = TRUE /\ gpioInt' = FALSE
        /\ UNCHANGED <<rxBitIdx, txBitIdx>>
    BY <1>4, DelayAssumption
    DEF StartRx, Art_gpioInterrupt, Dev_denGpioInterrupt, Dev_enTimer,
        Dev_updateTimerValue
  <2>2. role = "receiver" /\ next' \in Int
    BY <2>1, Periods DEF RoleInv
  <2>3. cs10' \in BOOLEAN /\ gpioInt' \in BOOLEAN
    BY <2>1
  <2>. QED
    BY <2>1, <2>2, <2>3 DEF RoleInv, Flag
<1>5. CASE Turn
  <2>1. /\ statusReg = {} /\ statusReg' \subseteq {"MODE"}
        /\ slot' = NoSlot /\ at' = 0 /\ next' = next
        /\ role' \in {"receiver", "transmitter"} /\ role' # role
        /\ cs10' = FALSE
        /\ gpioInt' = (IF role = "receiver" THEN FALSE ELSE gpioInt)
        /\ UNCHANGED <<rxBitIdx, txBitIdx, ocr1a>>
    BY <1>5 DEF Turn, Art_duplexMode, Dev_denTimer, Dev_denGpioInterrupt
  <2>2. cs10' \in BOOLEAN /\ gpioInt' \in BOOLEAN /\ ~gpioInt'
    BY <2>1 DEF RoleInv
  <2>3. RoleInv'
    BY <2>1, <2>2 DEF RoleInv
  <2>4. statusReg' \subseteq Flag
    BY <2>1 DEF Flag
  <2>5. /\ slot' \in 0 .. ART_BYTE + 2 \cup {NoSlot}
        /\ role' \in {"answer", "transmitter", "receiver"}
        /\ next' \in Int /\ at' \in Int
    BY <2>1
  <2>6. /\ rxBitIdx' \in StaleIdx \cup 0 .. ART_BYTE + 2
        /\ txBitIdx' \in StaleIdx \cup 0 .. ART_BYTE + 1
        /\ ocr1a' \in {Etu, FirstEtu}
    BY <2>1
  <2>. QED
    BY <2>2, <2>3, <2>4, <2>5, <2>6
<1>6. CASE Listen
  <2>1. /\ role = "receiver" /\ UNCHANGED timeVars
        /\ UNCHANGED <<statusReg, cs10, ocr1a, txBitIdx>>
    BY <1>6 DEF Listen, Art_rxByteStart, artVars, devVars
  <2>2. \/ rxBitIdx' = 0 /\ gpioInt' = TRUE
        \/ UNCHANGED <<rxBitIdx, gpioInt>>
    BY <1>6 DEF Listen, Art_rxByteStart, Dev_enGpioInterrupt, artVars, devVars
  <2>3. gpioInt' \in BOOLEAN
    BY <2>2
  <2>. QED
    BY <2>1, <2>2, <2>3 DEF timeVars, RoleInv, ART_BYTE
<1>. QED
  BY <1>1, <1>2, <1>3, <1>4, <1>5, <1>6, TickTypes DEF Next

\* Neither index runs past the moments of a character, and no handler of the
\* other role ever acts, whatever rxBitIdx holds at power-up.
THEOREM TypeCorrect == Spec => []TypeOK
<1>1. TypeInv => TypeOK
  BY DEF TypeInv
<1>. QED
  BY <1>1, TypeInit, TypeStep, PTL DEF Spec
=============================================================================
