-------------------------------- MODULE Seed --------------------------------
(***************************************************************************)
(* The entropy source: the watchdog handler of Seed.c samples a free-      *)
(* running counter into WDTBUFF, and main() runs one of three background   *)
(* tasks per command (BkrndTask.c): whiten the samples into a word, write  *)
(* a byte of a word to the EEPROM, start over once all words are written.  *)
(* The watchdog is paused from a command's start bit to its end.           *)
(*                                                                         *)
(* Seed_StatusReg is shared with the handler and changed by SET_BIT and    *)
(* CLR_BIT, each a load and a store.  The samples themselves are left out: *)
(* fresh is the set of the cells of WDTBUFF that hold one that has not     *)
(* been whitened yet.  Power may fail at any moment; the EEPROM survives.  *)
(***************************************************************************)
EXTENDS Naturals, FiniteSets

CONSTANTS
  RawSize,   \* SEED_RAW_BUFFER_SIZE
  Words,     \* SEED_BUFFER_SIZE
  Top,       \* 0xFF
  MaxFails   \* power failures

ASSUME SizeAssumption ==
  RawSize \in Nat \ {0} /\ Words \in Nat \ {0} /\ Top \in Nat \ {0, 1}
ASSUME FailAssumption == MaxFails \in Nat

WordBytes == 4  \* of a uint32_t

VARIABLES
  status,       \* Seed_StatusReg, the set of its flags
  wdie,         \* the watchdog interrupt is enabled
  wdtIdx,       \* WDTBUFFIdx
  fresh,        \* see above
  val,          \* the next background task
  step,         \* where main() is
  held, loaded, \* the status register is being changed, to this
  dataIdx,      \* the loop of Seed_whitening
  seedCount,    \* Seed_seedCount
  eepromCount,  \* Seed_eepromCount
  byteCount,    \* count of Seed_writeEeprom, in bytes
  seedAddr,     \* Seed_seedAddr
  written,      \* the last byte written: its address, its word, its place
  start,        \* the EEPROM's cell 0
  settled,      \* no write of that cell is under way
  fails

wdtVars == <<wdie, wdtIdx, fresh>>
statusVars == <<status, held, loaded>>
countVars == <<seedCount, eepromCount, byteCount, seedAddr, written>>
eepromVars == <<start, settled, fails>>
vars == <<wdtVars, statusVars, val, step, dataIdx, countVars, eepromVars>>

Cells == 0 .. RawSize - 1
Flag == {"FIFO_FULL", "WHITE_DONE", "WRITE_DONE"}
Change == {"set_white", "clr_full", "clr_write", "set_write", "clr_white"}
Step == Change \cup {"task", "mix", "save", "command"}

NoByte == [addr |-> 0, word |-> 0, byte |-> 0]

\* Where the log goes on: an erased cell 0 reads Top.
First(a) == IF a \in {0, Top} THEN 1 ELSE a

\* Static storage is 0; Seed_init has read cell 0 and set the watchdog up.
Init ==
  /\ status = {} /\ held = FALSE /\ loaded = {}
  /\ wdie = TRUE /\ wdtIdx = 0 /\ fresh = {}
  /\ val = 0 /\ step = "task" /\ dataIdx = 0
  /\ seedCount = 0 /\ eepromCount = 0 /\ byteCount = 0
  /\ start \in 0..Top
  /\ seedAddr = First(start)
  /\ written = NoByte
  /\ settled = TRUE /\ fails = 0
-----------------------------------------------------------------------------
(* The watchdog and the reader.                                            *)

WDT_vect ==
  /\ wdie
  /\ "FIFO_FULL" \notin status
  /\ fresh' = fresh \cup {wdtIdx}
  /\ \/ wdtIdx + 1 < RawSize /\ wdtIdx' = wdtIdx + 1 /\ UNCHANGED status
     \/ /\ wdtIdx + 1 = RawSize
        /\ status' = status \cup {"FIFO_FULL"}
        /\ wdtIdx' = 0
  /\ UNCHANGED <<wdie, held, loaded, val, step, dataIdx, countVars, eepromVars>>

\* The start bit of a command: Art_gpioInterrupt calls Seed_pause.
Seed_pause ==
  /\ wdie
  /\ wdie' = FALSE
  /\ UNCHANGED <<wdtIdx, fresh, statusVars, val, step, dataIdx, countVars,
                 eepromVars>>

\* The rest of the command, which ends with Seed_resume.
Seed_resume ==
  /\ step = "command" /\ ~wdie
  /\ wdie' = TRUE
  /\ step' = "task"
  /\ UNCHANGED <<wdtIdx, fresh, statusVars, val, dataIdx, countVars,
                 eepromVars>>
-----------------------------------------------------------------------------
(* BkrndTask.                                                              *)

NextTask_NoReInit == (val + 1) % 2  \* mutant
NextTask == (val + 1) % 3

\* Mutant: whitening goes on after the last word.
CanWhiten_NoLimit == "FIFO_FULL" \in status
CanWhiten == "FIFO_FULL" \in status /\ "WHITE_DONE" \notin status

Seed_whitening ==
  /\ step = "task" /\ val = 0
  /\ val' = NextTask
  /\ dataIdx' = 0
  /\ step' = IF CanWhiten THEN "mix" ELSE "command"
  /\ UNCHANGED <<wdtVars, statusVars, countVars, eepromVars>>

Mix ==
  /\ step = "mix" /\ dataIdx < RawSize
  /\ fresh' = fresh \ {dataIdx}
  /\ dataIdx' = dataIdx + 1
  /\ UNCHANGED <<wdie, wdtIdx, statusVars, val, step, countVars, eepromVars>>

Mixed ==
  /\ step = "mix" /\ dataIdx = RawSize
  /\ seedCount' = seedCount + 1
  /\ step' = IF seedCount + 1 = Words THEN "set_white" ELSE "clr_full"
  /\ UNCHANGED <<wdtVars, statusVars, val, dataIdx, eepromCount, byteCount,
                 seedAddr, written, eepromVars>>

CanWrite_OffByOne == eepromCount <= seedCount /\ eepromCount < Words  \* mutant
CanWrite == eepromCount < seedCount

\* eeprom_busy_wait holds the write back while one is under way.
Seed_writeEeprom ==
  /\ step = "task" /\ val = 1
  /\ val' = NextTask
  /\ step' = "command"
  /\ \/ /\ CanWrite
        /\ settled
        /\ written' = [addr |-> seedAddr, word |-> eepromCount,
                       byte |-> byteCount]
        /\ seedAddr' = seedAddr + 1
        /\ byteCount' = (byteCount + 1) % WordBytes
        /\ eepromCount' = IF byteCount + 1 = WordBytes THEN eepromCount + 1
                          ELSE eepromCount
     \/ ~CanWrite /\ UNCHANGED <<written, seedAddr, byteCount, eepromCount>>
  /\ UNCHANGED <<wdtVars, statusVars, dataIdx, seedCount, eepromVars>>

Wrapped_Never == seedAddr  \* mutant
Wrapped == IF seedAddr >= Top \/ seedAddr = 0 THEN 1 ELSE seedAddr

Seed_seedReInit ==
  /\ step = "task" /\ val = 2
  /\ val' = NextTask
  /\ IF "WHITE_DONE" \in status /\ eepromCount = Words
     THEN /\ seedCount' = 0
          /\ eepromCount' = 0
          /\ seedAddr' = Wrapped
          /\ step' = IF seedAddr >= Top \/ seedAddr = 0 THEN "clr_write"
                     ELSE "save"
     ELSE step' = "command" /\ UNCHANGED <<seedCount, eepromCount, seedAddr>>
  /\ UNCHANGED <<wdtVars, statusVars, dataIdx, byteCount, written, eepromVars>>

\* The value is converted to the byte that eeprom_write_byte takes.
Save ==
  /\ step = "save"
  /\ settled
  /\ start' = seedAddr % (Top + 1)
  /\ settled' = FALSE
  /\ step' = "clr_white"
  /\ UNCHANGED <<wdtVars, statusVars, val, dataIdx, countVars, fails>>

Effect(s, flags) ==
  CASE s = "set_white" -> flags \cup {"WHITE_DONE"}
    [] s = "clr_white" -> flags \ {"WHITE_DONE"}
    [] s = "set_write" -> flags \cup {"WRITE_DONE"}
    [] s = "clr_write" -> flags \ {"WRITE_DONE"}
    [] s = "clr_full" -> flags \ {"FIFO_FULL"}

\* Mutant: the buffer is handed back before the last change.
After_FullFirst(s) ==
  CASE s = "clr_write" -> "set_write" [] s = "set_write" -> "save"
    [] s = "clr_full" -> "clr_white" [] OTHER -> "command"

After(s) ==
  CASE s = "clr_write" -> "set_write" [] s = "set_write" -> "save"
    [] s = "clr_white" -> "clr_full" [] OTHER -> "command"

\* SET_BIT and CLR_BIT: the register is loaded and changed, then stored.
Load ==
  /\ step \in Change /\ ~held
  /\ held' = TRUE
  /\ loaded' = Effect(step, status)
  /\ UNCHANGED <<wdtVars, status, val, step, dataIdx, countVars, eepromVars>>

Store ==
  /\ step \in Change /\ held
  /\ status' = loaded
  /\ held' = FALSE /\ loaded' = {}
  /\ step' = After(step)
  /\ UNCHANGED <<wdtVars, val, dataIdx, countVars, eepromVars>>
-----------------------------------------------------------------------------
(* The EEPROM and the power supply.                                        *)

Settle ==
  /\ ~settled
  /\ settled' = TRUE
  /\ UNCHANGED <<wdtVars, statusVars, val, step, dataIdx, countVars, start,
                 fails>>

\* A write of cell 0 that is cut off leaves any value in it.  The static
\* storage is cleared and Seed_init runs again.
PowerFails ==
  /\ fails < MaxFails
  /\ fails' = fails + 1
  /\ settled' = TRUE
  /\ \/ settled /\ UNCHANGED start
     \/ ~settled /\ start' \in 0..Top
  /\ status' = {} /\ held' = FALSE /\ loaded' = {}
  /\ wdie' = TRUE /\ wdtIdx' = 0 /\ fresh' = {}
  /\ val' = 0 /\ step' = "task" /\ dataIdx' = 0
  /\ seedCount' = 0 /\ eepromCount' = 0 /\ byteCount' = 0
  /\ seedAddr' = First(start')
  /\ written' = NoByte

Main ==
  \/ Seed_whitening \/ Mix \/ Mixed \/ Seed_writeEeprom \/ Seed_seedReInit
  \/ Save \/ Load \/ Store \/ Seed_resume

Next == WDT_vect \/ Seed_pause \/ Main \/ Settle \/ PowerFails

\* main() and the EEPROM go on, commands keep coming, and again and again the
\* reader leaves the watchdog the time of a period between two of them.
Spec ==
  /\ Init /\ [][Next]_vars
  /\ WF_vars(Main) /\ WF_vars(Settle) /\ WF_vars(Seed_pause) /\ SF_vars(WDT_vect)
-----------------------------------------------------------------------------
TypeOK ==
  /\ status \subseteq Flag /\ loaded \subseteq Flag /\ held \in BOOLEAN
  /\ wdie \in BOOLEAN /\ wdtIdx \in Cells /\ fresh \subseteq Cells
  /\ val \in 0..2 /\ step \in Step /\ dataIdx \in 0..RawSize
  /\ seedCount \in 0..Words /\ eepromCount \in 0..Words
  /\ byteCount \in 0 .. WordBytes - 1
  /\ seedAddr \in 1 .. Top + WordBytes * Words
  /\ written \in [addr : 0 .. Top + WordBytes * Words, word : 0 .. Words - 1,
                  byte : 0 .. WordBytes - 1]
  /\ start \in 0..Top /\ settled \in BOOLEAN /\ fails \in 0..MaxFails

\* Each sample is whitened once: the handler never overwrites one that is
\* waiting, and the loop of Seed_whitening never meets a cell that has not
\* been sampled again.  One flag, in a register both of them change, hands the
\* buffer to and fro (WDT_vect, Seed_whitening, Seed_seedReInit).
EachSampleOnce ==
  /\ "FIFO_FULL" \notin status => wdtIdx \notin fresh
  /\ step = "mix" /\ dataIdx < RawSize => dataIdx \in fresh

\* What main() stores into Seed_StatusReg takes every flag of the handler into
\* account: the handler never sets one between the load and the store.
NoUpdateLost == held => loaded = Effect(step, status)

\* Whitening works on a word that exists, and of which no byte has been
\* written to the EEPROM yet: Seed_seed[Seed_seedCount] stays in the array, and
\* a word does not change between its first and its last byte in the log.
WordsLoggedWhole ==
  step = "mix" => /\ seedCount < Words
                  /\ eepromCount <= seedCount
                  /\ eepromCount = seedCount => byteCount = 0

Log == INSTANCE SeedLog
         WITH Group <- WordBytes * Words,
              filled <- IF step \in {"clr_write", "set_write", "save"}
                        THEN WordBytes * Words
                        ELSE WordBytes * eepromCount + byteCount,
              written <- <<written.addr,
                           WordBytes * written.word + written.byte>>

\* The EEPROM holds what SeedLog.tla says: groups complete and in order, bytes
\* in the order of their words, the start moved only after the group, and after
\* a power failure the log resumes at the start (Seed_init, Seed_writeEeprom,
\* Seed_seedReInit).
ImplementsLog == Log!Spec

\* New seeds are completed again and again (BkrndTask's three tasks feed one
\* another, and each waits for the others' counters).
SeedsRenewed == []<>(step = "save")
=============================================================================
