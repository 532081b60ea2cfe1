----------------------------- MODULE SeedProofs -----------------------------
(***************************************************************************)
(* Proofs about Seed.tla, for every size of the buffer and of the group,   *)
(* every end of the log and any number of power failures.                  *)
(*                                                                         *)
(* Owned says who owns the sample buffer at each step of main() and what   *)
(* of it is fresh; Counted relates the counters to the flags; Placed says  *)
(* where the log stands relative to the EEPROM's cell 0.                   *)
(***************************************************************************)
EXTENDS Seed, TLAPS

Restarting == {"clr_write", "set_write", "save"}

Owned ==
  /\ held => step \in Change /\ loaded = Effect(step, status)
  /\ "FIFO_FULL" \notin status => fresh = 0 .. wdtIdx - 1
  /\ "FIFO_FULL" \in status => wdtIdx = 0
  /\ step = "mix" => /\ "FIFO_FULL" \in status
                     /\ "WHITE_DONE" \notin status
                     /\ fresh = dataIdx .. RawSize - 1
  /\ step \in Change \cup {"save"} => "FIFO_FULL" \in status /\ fresh = {}
  /\ step \in {"task", "command"} /\ "FIFO_FULL" \in status =>
       fresh = IF "WHITE_DONE" \in status THEN {} ELSE Cells
  /\ step \in {"task", "command"} /\ "WHITE_DONE" \in status =>
       "FIFO_FULL" \in status
  /\ step \in Restarting \cup {"clr_white"} => "WHITE_DONE" \in status
  /\ step \in {"set_white", "clr_full"} => "WHITE_DONE" \notin status

Counted ==
  /\ eepromCount <= seedCount
  /\ eepromCount = seedCount => byteCount = 0
  /\ step \in {"task", "command", "mix"} =>
       (seedCount = Words <=> "WHITE_DONE" \in status)
  /\ step = "set_white" => seedCount = Words
  /\ step = "clr_full" => seedCount < Words
  /\ step \in Restarting \cup {"clr_white"} =>
       seedCount = 0 /\ eepromCount = 0 /\ byteCount = 0

Placed ==
  /\ step \notin Restarting =>
       seedAddr = First(start) + WordBytes * eepromCount + byteCount
  /\ step \in Restarting =>
       /\ seedAddr = Log!Following(Log!First(start))
       /\ seedAddr \in 1 .. Top - 1

IInv == TypeOK /\ Owned /\ Counted /\ Placed

\* Where the log goes on is a place below its end.
LEMMA FirstInRange ==
  ASSUME NEW a \in 0..Top
  PROVE  First(a) \in 1 .. Top - 1 /\ Log!First(a) = First(a)
BY SizeAssumption DEF First, Log!First

LEMMA InitInv == Init => IInv
<1> SUFFICES ASSUME Init PROVE IInv
  OBVIOUS
<1>1. TypeOK
  <2>1. seedAddr \in 1 .. Top + WordBytes * Words
    BY SizeAssumption, FirstInRange DEF Init, WordBytes
  <2>2. written \in [addr : 0 .. Top + WordBytes * Words,
                     word : 0 .. Words - 1, byte : 0 .. WordBytes - 1]
    BY SizeAssumption DEF Init, NoByte, WordBytes
  <2>3. held \in BOOLEAN /\ wdie \in BOOLEAN /\ settled \in BOOLEAN
    BY DEF Init
  <2> QED
    BY <2>1, <2>2, <2>3, SizeAssumption, FailAssumption
       DEF Init, TypeOK, Flag, Cells, Step, WordBytes
<1>2. Owned
  BY DEF Init, Owned, Change, Restarting
<1>3. Counted
  BY SizeAssumption DEF Init, Counted, Restarting
<1>4. Placed
  BY SizeAssumption, FirstInRange DEF Init, Placed, Restarting, WordBytes
<1> QED
  BY <1>1, <1>2, <1>3, <1>4 DEF IInv
-----------------------------------------------------------------------------
LEMMA WatchdogInv == IInv /\ WDT_vect => IInv'
<1> SUFFICES ASSUME IInv, WDT_vect PROVE IInv'
  OBVIOUS
<1> USE DEF IInv, WDT_vect, countVars, eepromVars
<1>0. step \in {"task", "command"}
  BY DEF TypeOK, Owned, Step
<1>1. TypeOK'
  <2>1. wdtIdx' \in Cells /\ fresh' \subseteq Cells
    BY SizeAssumption DEF TypeOK, Cells
  <2>2. status' \subseteq Flag
    BY DEF TypeOK, Flag
  <2> QED
    BY <2>1, <2>2 DEF TypeOK
<1>2. Owned'
  <2>1. CASE wdtIdx + 1 < RawSize
    BY <2>1, <1>0, SizeAssumption DEF Owned, TypeOK, Cells, Change, Restarting
  <2>2. CASE wdtIdx + 1 = RawSize
    <3>1. fresh' = Cells
      BY <2>2, SizeAssumption DEF Owned, TypeOK, Cells
    <3>2. status' = status \cup {"FIFO_FULL"} /\ "WHITE_DONE" \notin status'
      BY <2>2, <1>0, SizeAssumption DEF Owned, TypeOK, Cells
    <3> QED
      BY <2>2, <3>1, <3>2, <1>0 DEF Owned, Change, Restarting
  <2> QED
    BY <2>1, <2>2, SizeAssumption DEF TypeOK, Cells
<1>3. Counted'
  BY <1>0 DEF Counted, Restarting
<1>4. Placed'
  BY DEF Placed
<1> QED
  BY <1>1, <1>2, <1>3, <1>4

LEMMA PauseInv == IInv /\ (Seed_pause \/ Seed_resume \/ Settle) => IInv'
<1> SUFFICES ASSUME IInv, Seed_pause \/ Seed_resume \/ Settle PROVE IInv'
  OBVIOUS
<1> USE DEF IInv, Seed_pause, Seed_resume, Settle, countVars, eepromVars,
            statusVars, wdtVars
<1>1. TypeOK'
  BY DEF TypeOK, Step
<1>2. Owned'
  BY DEF Owned, Change, Restarting
<1>3. Counted'
  BY DEF Counted, Restarting
<1>4. Placed'
  BY DEF Placed, Restarting
<1> QED
  BY <1>1, <1>2, <1>3, <1>4

LEMMA WhiteningInv == IInv /\ Seed_whitening => IInv'
<1> SUFFICES ASSUME IInv, Seed_whitening PROVE IInv'
  OBVIOUS
<1> USE DEF IInv, Seed_whitening, CanWhiten, countVars, eepromVars,
            statusVars, wdtVars
<1>1. TypeOK'
  BY SizeAssumption DEF TypeOK, Step, NextTask
<1>2. Owned'
  BY SizeAssumption DEF Owned, Change, Restarting, Cells
<1>3. Counted'
  BY DEF Counted, Restarting
<1>4. Placed'
  BY DEF Placed, Restarting
<1> QED
  BY <1>1, <1>2, <1>3, <1>4

LEMMA MixInv == IInv /\ Mix => IInv'
<1> SUFFICES ASSUME IInv, Mix PROVE IInv'
  OBVIOUS
<1> USE DEF IInv, Mix, countVars, eepromVars, statusVars
<1>1. TypeOK'
  BY SizeAssumption DEF TypeOK
<1>2. Owned'
  <2>1. fresh' = dataIdx' .. RawSize - 1
    BY SizeAssumption DEF Owned, TypeOK
  <2> QED
    BY <2>1 DEF Owned, Change, Restarting
<1>3. Counted'
  BY DEF Counted, Restarting
<1>4. Placed'
  BY DEF Placed, Restarting
<1> QED
  BY <1>1, <1>2, <1>3, <1>4

LEMMA MixedInv == IInv /\ Mixed => IInv'
<1> SUFFICES ASSUME IInv, Mixed PROVE IInv'
  OBVIOUS
<1> USE DEF IInv, Mixed, eepromVars, statusVars, wdtVars
<1>1. seedCount < Words
  BY SizeAssumption DEF Owned, Counted, TypeOK
<1>2. TypeOK'
  BY <1>1, SizeAssumption DEF TypeOK, Step, Change
<1>3. Owned'
  <2>1. fresh' = {} /\ ~held'
    BY SizeAssumption DEF Owned, TypeOK, Change
  <2> QED
    BY <2>1 DEF Owned, Change, Restarting
<1>4. Counted'
  BY <1>1, SizeAssumption DEF Counted, Restarting, TypeOK
<1>5. Placed'
  BY DEF Placed, Restarting
<1> QED
  BY <1>2, <1>3, <1>4, <1>5

LEMMA WriteInv == IInv /\ Seed_writeEeprom => IInv'
<1> SUFFICES ASSUME IInv, Seed_writeEeprom PROVE IInv'
  OBVIOUS
<1> USE DEF IInv, Seed_writeEeprom, eepromVars, statusVars, wdtVars
<1>0. step \notin Restarting /\ step' \notin Restarting
  BY DEF Restarting
<1>1. CASE CanWrite
  <2>1. First(start) \in 1 .. Top - 1
    BY FirstInRange DEF TypeOK
  <2>2. seedAddr = First(start) + 4 * eepromCount + byteCount
    BY <1>0 DEF Placed, WordBytes
  <2>3. /\ eepromCount \in 0 .. Words - 1 /\ eepromCount < seedCount
        /\ byteCount \in 0..3
        /\ seedCount \in 0..Words
    BY <1>1, SizeAssumption DEF CanWrite, TypeOK, WordBytes
  <2>4. CASE byteCount = 3
    <3>1. byteCount' = 0 /\ eepromCount' = eepromCount + 1
      BY <1>1, <2>4 DEF CanWrite, WordBytes
    <3>2. seedAddr' = First(start) + 4 * eepromCount' + byteCount'
      BY <1>1, <2>1, <2>2, <2>3, <2>4, <3>1
    <3>3. TypeOK'
      <4>1. seedAddr' \in 1 .. Top + 4 * Words
        BY <2>1, <2>3, <3>1, <3>2, SizeAssumption
      <4>2. written' \in [addr : 0 .. Top + 4 * Words, word : 0 .. Words - 1,
                          byte : 0..3]
        <5>1. seedAddr \in 0 .. Top + 4 * Words
          BY SizeAssumption DEF TypeOK, WordBytes
        <5> QED
          BY <1>1, <2>3, <5>1
      <4> QED
        BY <4>1, <4>2, <2>3, <3>1, SizeAssumption
           DEF TypeOK, WordBytes, NextTask, Step
    <3>4. Owned'
      BY DEF Owned, Change, Restarting
    <3>5. Counted'
      BY <2>3, <3>1 DEF Counted, Restarting
    <3>6. Placed'
      BY <3>2, <1>0 DEF Placed, WordBytes
    <3> QED
      BY <3>3, <3>4, <3>5, <3>6
  <2>5. CASE byteCount # 3
    <3>1. byteCount' = byteCount + 1 /\ eepromCount' = eepromCount
      BY <1>1, <2>3, <2>5 DEF WordBytes
    <3>2. seedAddr' = First(start) + 4 * eepromCount' + byteCount'
      BY <1>1, <2>1, <2>2, <2>3, <3>1
    <3>3. TypeOK'
      <4>1. seedAddr' \in 1 .. Top + 4 * Words
        BY <2>1, <2>3, <2>5, <3>1, <3>2, SizeAssumption
      <4>2. written' \in [addr : 0 .. Top + 4 * Words, word : 0 .. Words - 1,
                          byte : 0..3]
        <5>1. seedAddr \in 0 .. Top + 4 * Words
          BY SizeAssumption DEF TypeOK, WordBytes
        <5> QED
          BY <1>1, <2>3, <5>1
      <4> QED
        BY <4>1, <4>2, <2>3, <2>5, <3>1, SizeAssumption
           DEF TypeOK, WordBytes, NextTask, Step
    <3>4. Owned'
      BY DEF Owned, Change, Restarting
    <3>5. Counted'
      BY <2>3, <3>1 DEF Counted, Restarting
    <3>6. Placed'
      BY <3>2, <1>0 DEF Placed, WordBytes
    <3> QED
      BY <3>3, <3>4, <3>5, <3>6
  <2> QED
    BY <2>4, <2>5
<1>2. CASE ~CanWrite
  <2>1. TypeOK'
    BY <1>2 DEF TypeOK, NextTask, Step
  <2>2. Owned'
    BY <1>2 DEF Owned, Change, Restarting
  <2>3. Counted'
    BY <1>2 DEF Counted, Restarting
  <2>4. Placed'
    BY <1>2 DEF Placed, Restarting
  <2> QED
    BY <2>1, <2>2, <2>3, <2>4
<1> QED
  BY <1>1, <1>2

LEMMA ReInitInv == IInv /\ Seed_seedReInit => IInv'
<1> SUFFICES ASSUME IInv, Seed_seedReInit PROVE IInv'
  OBVIOUS
<1> USE DEF IInv, Seed_seedReInit, eepromVars, statusVars, wdtVars
<1>1. CASE "WHITE_DONE" \in status /\ eepromCount = Words
  <2>1. First(start) \in 1 .. Top - 1 /\ Log!First(start) = First(start)
    BY FirstInRange DEF TypeOK
  <2>2. seedCount = Words /\ byteCount = 0
    BY <1>1 DEF Counted, TypeOK
  <2>3. seedAddr = First(start) + 4 * Words
    BY <1>1, <2>1, <2>2, SizeAssumption DEF Placed, Restarting, WordBytes
  <2>4. seedAddr' = Log!Following(Log!First(start)) /\ seedAddr' \in 1 .. Top - 1
    BY <1>1, <2>1, <2>3, SizeAssumption DEF Log!Following, Wrapped, WordBytes
  <2>5. step' \in {"clr_write", "save"}
    BY <1>1
  <2>6. TypeOK'
    BY <1>1, <2>4, <2>5, SizeAssumption
       DEF TypeOK, NextTask, Step, Change, WordBytes
  <2>7. Owned'
    <3>1. "FIFO_FULL" \in status /\ fresh = {}
      BY <1>1 DEF Owned
    <3> QED
      BY <1>1, <2>5, <3>1 DEF Owned, Change, Restarting
  <2>8. Counted'
    BY <1>1, <2>2, <2>5 DEF Counted, Restarting
  <2>9. Placed'
    BY <2>4, <2>5 DEF Placed, Restarting
  <2> QED
    BY <2>6, <2>7, <2>8, <2>9
<1>2. CASE ~("WHITE_DONE" \in status /\ eepromCount = Words)
  <2>1. TypeOK'
    BY <1>2 DEF TypeOK, NextTask, Step
  <2>2. Owned'
    BY <1>2 DEF Owned, Change, Restarting
  <2>3. Counted'
    BY <1>2 DEF Counted, Restarting
  <2>4. Placed'
    BY <1>2 DEF Placed, Restarting
  <2> QED
    BY <2>1, <2>2, <2>3, <2>4
<1> QED
  BY <1>1, <1>2

LEMMA SaveInv == IInv /\ Save => IInv'
<1> SUFFICES ASSUME IInv, Save PROVE IInv'
  OBVIOUS
<1> USE DEF IInv, Save, countVars, statusVars, wdtVars
<1>1. start' = seedAddr /\ seedAddr \in 1 .. Top - 1
  BY SizeAssumption DEF Placed, Restarting
<1>2. TypeOK'
  <2>1. start' \in 0..Top /\ step' \in Step
    BY <1>1, SizeAssumption DEF Step, Change
  <2> QED
    BY <2>1 DEF TypeOK
<1>3. Owned'
  BY DEF Owned, Change, Restarting
<1>4. Counted'
  BY DEF Counted, Restarting
<1>5. Placed'
  BY <1>1, SizeAssumption DEF Placed, Counted, Restarting, First, WordBytes
<1> QED
  BY <1>2, <1>3, <1>4, <1>5

LEMMA LoadInv == IInv /\ Load => IInv'
<1> SUFFICES ASSUME IInv, Load PROVE IInv'
  OBVIOUS
<1> USE DEF IInv, Load, countVars, eepromVars, wdtVars
<1>1. Effect(step, status) \subseteq Flag
  BY DEF TypeOK, Effect, Change, Flag
<1>2. TypeOK'
  BY <1>1 DEF TypeOK
<1>3. Owned'
  BY DEF Owned, Restarting
<1>4. Counted'
  BY DEF Counted
<1>5. Placed'
  BY DEF Placed
<1> QED
  BY <1>2, <1>3, <1>4, <1>5

\* The last change is the one that hands the buffer back.
LEMMA StoreInv == IInv /\ Store => IInv'
<1> SUFFICES ASSUME IInv, Store PROVE IInv'
  OBVIOUS
<1> USE DEF IInv, Store, countVars, eepromVars, wdtVars
<1>0. /\ loaded = Effect(step, status) /\ "FIFO_FULL" \in status
      /\ fresh = {} /\ wdtIdx = 0
  BY DEF Owned
<1>1. TypeOK'
  BY DEF TypeOK, After, Step, Change
<1>2. Owned'
  <2>1. CASE step \in {"clr_write", "set_write", "clr_white"}
    BY <1>0, <2>1 DEF Owned, Effect, After, Change, Restarting
  <2>2. CASE step = "set_white"
    BY <1>0, <2>2 DEF Owned, Effect, After, Change, Restarting
  <2>3. CASE step = "clr_full"
    BY <1>0, <2>3 DEF Owned, Effect, After, Change, Restarting
  <2> QED
    BY <2>1, <2>2, <2>3 DEF Change
<1>3. Counted'
  <2>1. CASE step \in {"clr_write", "set_write", "clr_white"}
    BY <1>0, <2>1, SizeAssumption
       DEF Counted, Owned, Effect, After, Change, Restarting
  <2>2. CASE step = "set_white"
    BY <1>0, <2>2 DEF Counted, Effect, After, Restarting
  <2>3. CASE step = "clr_full"
    BY <1>0, <2>3, SizeAssumption
       DEF Counted, Owned, TypeOK, Effect, After, Restarting
  <2> QED
    BY <2>1, <2>2, <2>3 DEF Change
<1>4. Placed'
  BY DEF Placed, After, Restarting, Change
<1> QED
  BY <1>1, <1>2, <1>3, <1>4

LEMMA PowerInv == IInv /\ PowerFails => IInv'
<1> SUFFICES ASSUME IInv, PowerFails PROVE IInv'
  OBVIOUS
<1> USE DEF IInv, PowerFails
<1>1. start' \in 0..Top
  BY DEF TypeOK
<1>2. First(start') \in 1 .. Top - 1
  BY <1>1, FirstInRange
<1>3. TypeOK'
  <2>1. seedAddr' \in 1 .. Top + WordBytes * Words
    BY <1>2, SizeAssumption DEF WordBytes
  <2>2. written' \in [addr : 0 .. Top + WordBytes * Words,
                      word : 0 .. Words - 1, byte : 0 .. WordBytes - 1]
    BY SizeAssumption DEF NoByte, WordBytes
  <2>3. held' \in BOOLEAN /\ wdie' \in BOOLEAN /\ settled' \in BOOLEAN
    OBVIOUS
  <2>4. fails' \in 0..MaxFails
    BY FailAssumption DEF TypeOK
  <2> QED
    BY <1>1, <2>1, <2>2, <2>3, <2>4, SizeAssumption
       DEF TypeOK, Flag, Cells, Step, WordBytes
<1>4. Owned'
  BY DEF Owned, Change, Restarting
<1>5. Counted'
  BY SizeAssumption DEF Counted, Restarting
<1>6. Placed'
  BY <1>2, SizeAssumption DEF Placed, Restarting, WordBytes
<1> QED
  BY <1>3, <1>4, <1>5, <1>6

LEMMA StepInv == IInv /\ [Next]_vars => IInv'
<1> SUFFICES ASSUME IInv, [Next]_vars PROVE IInv'
  OBVIOUS
<1>1. CASE Main
  BY <1>1, WhiteningInv, MixInv, MixedInv, WriteInv, ReInitInv, SaveInv,
     LoadInv, StoreInv, PauseInv DEF Main
<1>2. CASE WDT_vect \/ Seed_pause \/ Settle \/ PowerFails
  BY <1>2, WatchdogInv, PauseInv, PowerInv
<1>3. CASE UNCHANGED vars
  <2> USE <1>3 DEF IInv, vars, wdtVars, statusVars, countVars, eepromVars
  <2>1. TypeOK'
    BY DEF TypeOK
  <2>2. Owned'
    BY DEF Owned
  <2>3. Counted'
    BY DEF Counted
  <2>4. Placed'
    BY DEF Placed
  <2> QED
    BY <2>1, <2>2, <2>3, <2>4
<1> QED
  BY <1>1, <1>2, <1>3 DEF Next
-----------------------------------------------------------------------------
\* What the invariant means for the properties of Seed.tla.
LEMMA InvMeans ==
  IInv => EachSampleOnce /\ NoUpdateLost /\ WordsLoggedWhole
<1>1. IInv => EachSampleOnce
  BY SizeAssumption DEF IInv, Owned, EachSampleOnce, TypeOK, Cells
<1>2. IInv => NoUpdateLost
  BY DEF IInv, Owned, NoUpdateLost
<1>3. IInv => WordsLoggedWhole
  BY SizeAssumption DEF IInv, Owned, Counted, TypeOK, WordsLoggedWhole
<1> QED
  BY <1>1, <1>2, <1>3

\* Every variable stays in its range, the indices of both arrays included
\* (Seed.c, BkrndTask.c).
THEOREM TypeCorrect == Spec => []TypeOK
<1>1. IInv => TypeOK
  BY DEF IInv
<1> QED
  BY <1>1, InitInv, StepInv, PTL DEF Spec

\* No sample is overwritten before it is whitened, or whitened twice: the
\* handler and Seed_whitening never meet in the buffer.
THEOREM SamplesWhitenedOnce == Spec => []EachSampleOnce
BY InvMeans, InitInv, StepInv, PTL DEF Spec

\* The unprotected changes of Seed_StatusReg in main() lose no flag of the
\* handler.
THEOREM StatusUpdatesKept == Spec => []NoUpdateLost
BY InvMeans, InitInv, StepInv, PTL DEF Spec

\* Seed_whitening stays within Seed_seed, and no word changes between its
\* first and its last byte in the EEPROM.
THEOREM WordsStayWhole == Spec => []WordsLoggedWhole
BY InvMeans, InitInv, StepInv, PTL DEF Spec
-----------------------------------------------------------------------------
\* The bytes of the group that are in place, as ImplementsLog maps them.
Filled == IF step \in {"clr_write", "set_write", "save"}
          THEN WordBytes * Words
          ELSE WordBytes * eepromCount + byteCount

LogVars == <<start, settled, Filled,
             <<written.addr, WordBytes * written.word + written.byte>>>>

\* A step of Seed.c is a step of the log or leaves it as it is.
LEMMA StepRefines == IInv /\ IInv' /\ [Next]_vars => [Log!Next]_LogVars
<1> SUFFICES ASSUME IInv, IInv', [Next]_vars PROVE [Log!Next]_LogVars
  OBVIOUS
<1> USE DEF LogVars, Filled, wdtVars, statusVars, countVars, eepromVars
<1>1. CASE WDT_vect \/ Seed_pause \/ Seed_whitening \/ Mix \/ Load
  BY <1>1 DEF WDT_vect, Seed_pause, Seed_whitening, Mix, Load
<1>2. CASE Seed_resume \/ Mixed
  BY <1>2 DEF Seed_resume, Mixed
<1>3. CASE Store
  <2>1. step' \in Restarting \/ (step \notin Restarting)
    BY <1>3 DEF Store, After, Change, Restarting
  <2>2. step \in Restarting <=> step' \in Restarting
    BY <1>3 DEF Store, After, Change, Restarting
  <2> QED
    BY <1>3, <2>2 DEF Store, Restarting
<1>4. CASE Seed_writeEeprom
  <2>1. CASE CanWrite
    <3>1. Log!First(start) = First(start)
      BY FirstInRange DEF IInv, TypeOK
    <3>2. /\ eepromCount \in 0 .. Words - 1 /\ byteCount \in 0..3
          /\ Filled = 4 * eepromCount + byteCount
          /\ Filled' = 4 * eepromCount' + byteCount'
      BY <1>4, <2>1, SizeAssumption
         DEF IInv, TypeOK, Seed_writeEeprom, CanWrite, WordBytes
    <3>3. First(start) \in Nat
      BY FirstInRange, SizeAssumption DEF IInv, TypeOK
    <3>4. seedAddr = First(start) + Filled
      BY <1>4, <3>2, <3>3
         DEF IInv, Placed, Restarting, Seed_writeEeprom, WordBytes
    <3>5. Filled' = Filled + 1
      BY <1>4, <2>1, <3>2 DEF Seed_writeEeprom, WordBytes
    <3>6. Filled < WordBytes * Words
      BY <3>2, SizeAssumption DEF WordBytes
    <3>7. <<written.addr, WordBytes * written.word + written.byte>>'
            = <<Log!First(start) + Filled, Filled>>
      BY <1>4, <2>1, <3>1, <3>2, <3>4 DEF Seed_writeEeprom, WordBytes
    <3>8. Log!Lay
      BY <1>4, <3>5, <3>6, <3>7 DEF Log!Lay, Seed_writeEeprom
    <3> QED
      BY <3>8 DEF Log!Next
  <2>2. CASE ~CanWrite
    BY <1>4, <2>2 DEF Seed_writeEeprom
  <2> QED
    BY <2>1, <2>2
<1>5. CASE Seed_seedReInit
  <2>1. CASE "WHITE_DONE" \in status /\ eepromCount = Words
    <3>1. byteCount = 0
      BY <1>5, <2>1 DEF IInv, Counted, Seed_seedReInit, TypeOK
    <3>2. Filled = WordBytes * Words
      BY <1>5, <2>1, <3>1, SizeAssumption DEF Seed_seedReInit, WordBytes
    <3>3. Filled' = WordBytes * Words
      BY <1>5, <2>1 DEF Seed_seedReInit
    <3> QED
      BY <1>5, <3>2, <3>3 DEF Seed_seedReInit
  <2>2. CASE ~("WHITE_DONE" \in status /\ eepromCount = Words)
    BY <1>5, <2>2 DEF Seed_seedReInit
  <2> QED
    BY <2>1, <2>2
<1>6. CASE Save
  <2>1. start' = Log!Following(Log!First(start))
    BY <1>6, SizeAssumption DEF Save, IInv, Placed, Restarting
  <2>2. Filled = WordBytes * Words
    BY <1>6 DEF Save
  <2>3. Filled' = 0
    BY <1>6 DEF Save, IInv, Counted, Restarting, WordBytes
  <2>4. Log!Commit
    BY <1>6, <2>1, <2>2, <2>3 DEF Save, Log!Commit
  <2> QED
    BY <2>4 DEF Log!Next
<1>7. CASE Settle
  <2>1. Log!Settle
    BY <1>7 DEF Settle, Log!Settle
  <2> QED
    BY <2>1 DEF Log!Next
<1>8. CASE PowerFails
  <2>1. Filled' = 0
    BY <1>8 DEF PowerFails, WordBytes
  <2>2. <<written.addr, WordBytes * written.word + written.byte>>'
          = Log!Nowhere
    BY <1>8 DEF PowerFails, NoByte, WordBytes, Log!Nowhere
  <2>3. Log!PowerFails
    BY <1>8, <2>1, <2>2 DEF PowerFails, Log!PowerFails
  <2> QED
    BY <2>3 DEF Log!Next
<1>9. CASE UNCHANGED vars
  BY <1>9 DEF vars
<1> QED
  BY <1>1, <1>2, <1>3, <1>4, <1>5, <1>6, <1>7, <1>8, <1>9 DEF Next, Main

LEMMA InitRefines == Init => Log!Init
BY DEF Init, Log!Init, NoByte, WordBytes, Log!Nowhere

\* The EEPROM is a log of groups as SeedLog.tla describes it, power failures
\* included: what Seed_init finds in cell 0 is the start of the first
\* group that is not complete.
THEOREM LogRefinement == Spec => ImplementsLog
<1>1. Init => Log!Init
  BY InitRefines
<1>2. IInv /\ IInv' /\ [Next]_vars => [Log!Next]_(Log!vars)
  BY StepRefines DEF LogVars, Filled, Log!vars
<1> QED
  BY <1>1, <1>2, InitInv, StepInv, PTL DEF Spec, ImplementsLog, Log!Spec
=============================================================================
