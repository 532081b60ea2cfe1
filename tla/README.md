# A TLA+ model of the smart card emulator

The firmware under `src/smartcard_emulator` turns an ATmega644 into an ISO 7816
smart card: it answers a reset, takes commands character by character over one
half-duplex line, decrypts the 16-byte block of each command with AES-128, and
sends the result back. Beside that it collects entropy from the watchdog timer
for the random numbers that protect the decryption.

The modules here model that firmware as a concurrent system: `main()`, the
interrupt handlers that preempt it, the timer hardware, the reader at the other
end of the line, and, for the entropy source, the EEPROM and the power supply.

## Inventory

| component | state | operations | interacts with | hard part |
|---|---|---|---|---|
| FIFO (`Fifo.c`) | `buff`, `rd`, `wr`, `fl` per handle | `Fifo_write`, `Fifo_read` | Atr writes, Art reads | positions wrap; full and empty differ by `fl` only; refusals are ignored by every caller |
| transceiver (`Art.c`) | `statusReg`, `rxBuffer`, `rxBitIdx`, `txBuffer`, `txBitIdx` | `Art_duplexMode`, `Art_txByteStart`, `Art_rxByteStart` from main(); `Art_gpioInterrupt`, `Art_rxTimerInterrupt`, `Art_txTimerInterrupt` from vectors | Dev registers, FIFO, Seed_pause | a byte is spread over eleven interrupts; status flags are changed by handlers and main() without protection |
| device (`Dev.c`) | `TCCR1B.CS10`, `OCR1A`, `PB6`, `PCICR/PCMSK1` | set-up, timer, pin and interrupt helpers; `TIMER1_COMPA`, `PCINT1` vectors | Art | direction of the line; which interrupt is enabled when |
| protocol (`Atr.c`) | a loop counter, `stateText` | `Atr_main`, `Apdu_decryptKey`, `Apdu_getResponse` | Art, FIFO, BkrndTask | polling loops with no timeout; whole-register writes to `statusReg` |
| main loop (`main.c`) | the structs of the above, automatic and uninitialised | start-up, command loop | all | order of the initialisation; stale indices |
| seed (`Seed.c`) | `WDTBUFF`, `Seed_StatusReg`, `Seed_seed`, counters, EEPROM | watchdog vector, whitening, EEPROM log, pause and resume | BkrndTask, Rng, Art | buffer shared with a handler; a log that survives resets |
| background (`BkrndTask.c`) | `val` | one of three tasks per call | Seed | one step per command |
| random numbers (`Rng.c`, `lib/rand.c`) | pool index, `Rng_rand`, `Rng_seed`; state, block and buffer of the generator | init, fill, reseed | Seed, AES | the pool runs out at 1024; a parameter block that hashing and drawing share |
| AES (`AES_DEC_128.c`) | `stateText`, `shuffling_array`, masks, `completed_ops` | `aes_dec_128` and its passes | Rng | shuffled in-place passes; compile-time variants |
| debug output (`USART.c`, `IoStream.c`) | USART registers | `USART_PutChar` | stdout | nothing prints |
| Skein/Threefish (`lib/`), `asrc/` | - | - | Rng | vendored, assembler |

What makes each correct: the FIFO is a queue; the transceiver moves each byte
unchanged, on time, in one direction at a time, and never leaves the timer
running for nobody; the protocol's characters are those of a session and
commands complete; the seed's buffer has one owner at a time and its log
survives a reset; no random number is used twice; the decryption is that of
FIPS-197 in every variant.

## Modules

| module | what it is | code |
|---|---|---|
| `ByteQueue` | abstract bounded queue with refusals | - |
| `Fifo` | the ring buffer, one action per function; refines `ByteQueue` | `Fifo.c` |
| `Art` | one operator per function and handler of the transceiver, with the registers it writes | `Art.c`, the helpers of `Dev.c` |
| `Session` | abstract specification: the characters of a session as the reader sees them | order of `Atr.c` |
| `Card` | main(), handlers and reader interleaved over `Art`; refines `Session` | `main.c`, `Atr.c`, vectors of `Dev.c` |
| `ArtTiming` | `Art` under a clock | `Art.c`, ISO 7816-3 clause 7 |
| `SeedLog` | abstract specification: the EEPROM as a log of complete groups | - |
| `Seed` | watchdog handler, background tasks, EEPROM and power failures; refines `SeedLog` | `Seed.c`, `BkrndTask.c` |
| `AesBlock` | blocks, the transformations of FIPS-197's inverse cipher, and what is assumed of bytes | pure parts of `AES_DEC_128.c` |
| `InvCipher` | abstract specification: one transformation of the whole block after the other | - |
| `Aes` | `aes_dec_128` with its macros, one byte a step; refines `InvCipher` | `AES_DEC_128.c` |
| `Fips197` | reference: bytes and blocks, the field, the S-box and the cipher of FIPS-197, from their definitions | - |
| `AesTables` | the tables, the macro and the compiled-out key expansion, with what they amount to by `Fips197` as assumptions that TLC evaluates | tables and macros of `AES_DEC_128.c` |
| `AesBytes` | `aes_dec_128` of the NORMAL and DUMMY build on real bytes, its in-place passes one assignment a step; refines `InvCipher` | passes of `AES_DEC_128.c` |
| `Rng` | the pool of random numbers, the reading of seeds and the generator under them | `Rng.c`, `Seed_readEEprom`, `lib/rand.c` |
| `Firmware` | `Card` with `Seed` in place of its background step, and power failures; refines `Seed`, and `Session` from one power failure to the next | `main.c`, `BkrndTask.c` |
| `MCFifo`, `MCCard`, `MCFirmware`, `MCArtTiming`, `MCSeed`, `MCAes`, `MCAesBytes`, `MCRng` | constants for TLC | |
| `FifoProofs`, `CardProofs`, `ArtTimingProofs`, `SeedProofs`, `FirmwareProofs`, `AesProofs`, `AesBytesProofs`, `RngProofs` | theorems | |

`Art` holds no specification of its own: `Card` decides when its operators
happen relative to main() and the reader, `ArtTiming` when they happen in
time. Both use the same definitions. `Art`'s transmit queue is a `ByteQueue`,
and `Fifo` (with the theorem `Refinement`) says why it may be.

`Card` and `Seed` meet in three places. `Card` has BkrndTask as one step that
takes time, and the watchdog's enable bit `wdie`, which the start bit of a
command clears and its end sets; `Seed` has the inside of BkrndTask and the same
bit, and takes a command's characters as one step. `Firmware` puts the two
together: at the site of `Apdu_decryptKey` that calls BkrndTask main() runs the
steps of one of `Seed`'s tasks, between which start bit, bit timer, watchdog and
power failure may come, and everything else is `Card`'s. The steps of `Card` that
touch the seed (`StartBit`, `Resume`) do what `Art` and `Card` say they do, not
what `Seed` says; that it is the same is the property `ImplementsSeed`. `SeedQuiet` of
`Card` says the same from the other side: no watchdog interrupt falls into a
command.

`Rng` and `AesBytes` are sequential and stay apart: `Rng_fill`, `aes_dec_128` and
`Rng_reseed` are called one after the other, with the bit timer stopped and the watchdog
paused, while it is the card's turn to send, so that in `Card` they are one step, `Decrypt`. `Aes` takes what
`Rng` leaves in `Rng_rand` as any bytes.

### Correspondence

A byte is the set of its bits that are 1, so that shifting, masking and parity
are set operations, and `statusReg` is the set of the names of its flags.
Variables carry the names of the struct's fields; `cs10`, `ocr1a`, `ddrb`,
`portb`, `gpioInt` and `wdie` are the register bits of the same names
(`gpioInt` stands for PCIE1 and PCINT14, which the code always changes
together). A handler is one action: the AVR does not nest interrupts, and main()
cannot observe one half done. A call that main() makes is one action too; where
main() loads, changes and stores a register that a handler also changes, `Card`
either has the two halves (`Poll` and `Store`) or the invariant `MainAlone`
shows that no handler can run there.

main() is the pair `site`, `step`: a site is a stretch of `Atr.c` that sends or
receives characters (`hdr1`, `ins`, `data`, ...), and all sites go through the
same steps (`clear`, `duplex`, `write`, `start`, `wait`, ...), with the
differences between them in `FirstStep`, `ClearStatus` and `Listen`: 0x10 and
0x00 are sent without clearing `statusReg`, the answer to reset and the response
without a change of direction, and only the first header calls `BkrndTask`.

The handlers see the line: what the card drives, else the pull-up, else what the
reader sends (`WireLevel`, of which `ReceiveTick` takes five
samples, some of them wrong). The pin change handler takes five samples as well and
ignores the change if most of them are high (`Art.c:78`): a start bit may so be missed,
and the character be taken up at a later change of the level, or never. `unnoticed` says
that the card has not taken it up yet, and `late` at which moment of the character it did;
`ReaderGoesOn` is the rest of such a character, `PinChanges` each change of the level in it.
The moments the card samples are then `late` moments behind those it takes them for. The reader hears the
card's levels one slot at a time (`Hears`) and has a character when its slots
are over; `wire`, `phase`, `count` and `block` are what it knows, and they are
the variables of `Session`.

`ArtTiming` has no session, but three roles. Until the card has listened for the first
time it is sending the answer to reset (`answer`), with an `rxBitIdx` nobody has
initialised (`main.c:23`); after that it is a `receiver` or a `transmitter`, and turns round
between two characters (`Clear`, `Turn`, `Listen`, as `Atr.c` does).

In `Seed` a sample is only whether it is fresh: `fresh` is the set of the cells of
`WDTBUFF` with a sample that has not been mixed into a word yet. The loop of the
whitening is one step a cell, because the watchdog may interrupt it. `SET_BIT` and
`CLR_BIT` on `Seed_StatusReg`, which the handler changes too, are the steps `Load`
and `Store`; `After` is the order in which `Seed_seedReInit` makes its changes.
`written` is the last byte written to the EEPROM: its address, the word and the
place within the word. Cell 0 is the variable `start`, and `settled` is
FALSE while the EEPROM is writing it, which takes milliseconds that main() waits
for only before the next access.

In `Aes` the macros that are defined are the variable `build`, chosen at the start and
never changed, and the loop bodies contain every `#ifdef` in its order. `pc` is
the pass and `i` its loop variable. A byte is an element of an abstract group,
the S-box any function and the mixing of a column any linear map; `AesBytes`
has the tables and macros of the code instead. `m_out_inv_col`,
`mask_out`, `masked_round_key` and `masked_aes_invsbox` are definitions, as
the code computes all of them in one go from `mask_in` and `m_in_inv_col`. Row
shifting and column mixing are not spread over steps in any build and are one
action each. `given` is a history variable: the block the call began with.
`Card` has the decryption as the operator `Aes(_)` of a block; `Aes` is what that
operator stands for.

In `AesBytes` a byte is a number. `line` counts the assignments of
`inverse_shift_rows` and `inverse_mix_coloumns`, `temp` is what they save first, and
`before` is a history variable, the block as the pass began, for the mapping to
`InvCipher`. The reader's host is `Call`: it encrypts with `CipherOf` of `Fips197`
under a key schedule that the compiled-out `gen_roundkey` makes of the first 16
bytes of `roundkeyarr` and the S-box computed from inverses, so that a wrong entry of
either table of the code shows. The dummy look-ups are their count; nothing
depends on their result.

In `Rng` a hash is opaque. What skein_rand_reseed makes of a seed is state 1, and
each restart goes on to the next state; `key` is the state that the parameter block
`tparam` is keyed with, or `NoKey` once a message has been hashed with it. A random
number is known by key, block and place, so that two are the same byte exactly if
these agree. `Rng_seed` holds the addresses its bytes were read from. Which bytes
are hashed besides the old state is undefined in C (disagreements, below), so that a new
state is only taken to be another one.

### Environment

The reader is not in the repository; it is what `Atr.c` needs it to be:

- it starts a character only when it is its turn and the card is listening
  (`gpioInt`): the turnaround time of ISO 7816-3 is many times the hundred
  instructions between the card's last interrupt and `Art_rxByteStart`;
- with `Prompt` true, main() has taken a character and is back in a waiting loop
  before the next start bit. The loop takes a few instructions and characters
  are at least an etu apart, so this holds everywhere but after `BkrndTask`,
  whose whitening takes some 16 etu. `MCCardLate` drops the assumption. `Firmware`
  keeps it: a start bit may come at any step of a task, and the next one waits
  until the first header character has been taken;
- noise falls on the reader's characters, start bit included, and not on an idle line. There a
  change of the level that most samples do not confirm does nothing at all (`Art.c:78`), and one that
  they do confirm would be a start bit without a character;
- it leaves a card that took a character up late the time to come to the end of what it
  takes for one: a repetition, or the next character, comes after that.
  Within a moment it does not matter when the card takes the character up: the moments it
  samples are then the same ones, each a little later;
- it may signal a transmission error on any card character in the parts
  `RejectAt` names, at most `MaxReject` times, and noise may turn over `MaxNoise` of
  the samples of a character of its own, of which `Dev_getPinAvg` takes five a bit, in at
  most `MaxNoisy` characters (the theorems are for any number). The reader repeats a character the card signalled to be
  wrong. The error signal of the last slot is a choice of the sampled level,
  whenever that slot is sampled; where it ought to be is `ArtTiming`'s concern;
- after an error signal of its own it expects no repetition. ISO 7816-3 has the transmitter
  repeat the character, and the card never does: what the runs and theorems say of
  error signals is for a reader that puts up with that.

In `Seed` the power may fail at any step. Static storage is then 0 again and
`Seed_init` runs; the EEPROM keeps its contents, but a write of cell 0 that was
cut off leaves any value there. The address is incremented as in the code, and
the value written to cell 0 is its low byte. In `Firmware` a power failure also puts
main(), the handlers' state and the registers back, and the reader starts the session
over; the counts of noisy characters and of error signals are for the whole behaviour.

In `Rng` nothing happens at the same time; the reader sends another command. The
seed's cells are read whatever `Seed` has written there.

## Runs

| run | question | bounds |
|---|---|---|
| `fifo` | is the ring a queue? | 3 cells, 2 bytes: all 3 x 3 alignments of positions and fill levels |
| `card` | is a session what it should be, and does it go on? | headers of 5, blocks of 4, two data bytes of different parity, 2 error signals anywhere but after 61 and 9D, 2 samples of one character turned over |
| `firmware` | with noise and power failures, is nothing wrong accepted, has the line and the timer one owner, does the session drive the seed as `Seed` assumes, is it one session from each power-up to the next, and do seeds keep coming? | headers of 2, blocks of 1, characters of both parities, 4 samples of one character turned over, start bit included, 2 samples to a word, 1 word, 1 power failure at any step, each value of cell 0 |
| `card_reject` | an error signal after 61 | one error signal |
| `card_late` | main() not prompt | `Prompt` FALSE |
| `card_noise` | is a rejected byte taken? | three samples of one character, one bit |
| `timing` | are edges and samples on time, once the card has received? | the extreme delays of the assumption, stale indices of 0 and 255 |
| `timing_answer` | and the edges of the answer to reset? | the same |
| `seed` | is each sample used once, each word logged whole, the log resumed where it should be, and do seeds keep coming? | 3 samples, 2 words of 4 bytes, log of 20 places entered at each value of cell 0, 2 power failures at any steps |
| `aes` | does each build decrypt as FIPS-197 says, call after call? | 2 x 2 cells, 3 rounds, bytes of 3 bits, a non-affine S-box, 2 blocks, 48 vectors of random bytes: all 24 orders, on top of those of earlier calls, and 12 sets of masks |
| `aes_bytes` | do the tables, the arithmetic and the in-place passes decrypt what FIPS-197 encrypts? | 16 cells, 10 rounds, 16 blocks with 16 values in every cell, call after call in any order; random bytes that ask for none, all or some dummy look-ups |
| `rng` | does each decryption get new numbers, is none used twice, do new seeds come? | the sizes of the code: seeds of 32 bytes from all 255 starting addresses, a pool of 1024, 16 numbers a command, blocks of 32 |

The block and header lengths only bound loops; every loop is entered, repeated
and left. The bytes the card sends are the code's own; two data bytes suffice
because bits of a byte are handled one by one and only parity combines them.
`Aes` is a permutation of blocks that moves and changes each byte, so that a
byte out of place or from another command shows. The timing run takes the
corners of the delay intervals, and the moments are linear in the delays; the
proofs cover the interior. In `seed` the log ends in the middle of a group for
some start values and at its end for others, so that both ways of wrapping
happen; the second power failure may cut off what the first one started again. In `aes`
three rounds are the first, the last and one between, which is all the code
distinguishes, and two columns of two make rows shift and columns mix; the proof covers
the other shapes. `aes_bytes` and `rng` have the sizes of the code. In `firmware` four turned
samples are enough for a bit that is read wrong or a start bit that is missed, and for two of them should two samples
of five ever carry the vote, which parity would not notice; blocks and headers are short because `card` has the
long ones, but two header characters are needed for what a parity error leaves behind in the
next; 2 samples and 1 word let every task of `Seed` find its condition both true and
false. Start bits are missed in each way `ReaderGoesOn` has: noticed at the end of
the disturbance, at a later bit, or not at all. The log has room for one group, so that it wraps each time; `seed` has the other case.

`firmware`, `card_reject`, `card_late` and `card_noise` do not check for deadlock:
in them a session may get stuck, because a bit turned over by noise costs the card a
character (findings 1 and 3). `card` checks it.

### Properties

- `MainAlone`: in every step where main() updates a shared register without
  protection, no handler can run. It relates main()'s place in Atr.c to the
  reader's place in the session; it is why main() may write `statusReg = 0`.
- `NoMutualWait`: whenever the card waits for a character it is the reader's
  turn and the start bit will be noticed.
- `NothingLeftBehind`: the FIFO is empty whenever no byte is about to be started.
- `SeedQuiet`: no watchdog interrupt between a command's first start bit and its
  end.
- `AcceptedAsSent`: a character that the card began to receive with its start bit, and
  accepted, is the one that the reader sent. One whose start bit the card missed is left
  out, because the code may accept it wrong (disagreements, below).
- `NoContention`, `OneDirection`, `TimerHasOwner`: the card keeps off the line while the
  reader has it, whether or not it has noticed; it does not receive and send at once; the timer
  runs exactly for a character in progress. These hold with missed start bits too. `Prompt` excludes
  the lost flag of finding 2 from all of them, and from `MainAlone`: only `card_late` shows that one.
- `ImplementsSession`: every character on the wire, its bits, parity and place, is
  that of a session; the response is the decryption of the block of this command.
- `CommandsComplete`: commands complete again and again.
- `EachSampleOnce`, `NoUpdateLost`: one flag passes the sample buffer between main()
  and the handler, in a register both change by load and store. No sample is
  overwritten or mixed twice, and no flag is lost.
- `WordsLoggedWhole`: a word does not change between the first and the last of its
  bytes in the EEPROM, although whitening and writing alternate.
- `ImplementsLog`: the bytes lie in groups in the order of their words, cell 0 moves
  only when a group is complete, and after a power failure the log resumes there.
- `ImplementsSeed`: what `Seed` takes for granted of the rest of the firmware, and its
  invariants and theorems rest on, is what the session does: one task per command, run to
  its end, the watchdog paused by the first start bit even in the middle of a task, and
  resumed only afterwards.
- `ImplementsSessions`: between two power failures the characters are those of one session, whatever
  task, watchdog interrupt or EEPROM write comes between them, and after a failure the session
  starts over from the answer to reset with nothing left of the last one. Noise that can turn a bit over
  ends that (finding 3), so that the property then looks at it until there is some; where noise is too
  little for that it looks at every step.
- `SeedsCompleted`: seeds are completed again and again by the session as it really runs,
  through power failures, unless noise turns a bit over (finding 3 may then stop it).
- `SeedsRenewed`: groups are completed again and again; the three tasks and the
  watchdog each wait for the others' counters.
- `EachPositionOnce`: `shuffling_array` is never reset, so the order of a call is built
  on the orders of all calls before; it must still name every byte once.
- `DecryptsAsStandard`: input and output of a call are those of FIPS-197's InvCipher,
  computed as one recursive function. Each build has one macro: it does not speak of two together.
- `ImplementsInvCipher`: the same step by step: with the masks taken off, each pass is
  one transformation and nothing else changes the block.
- `DecryptsEncrypted`: the code's tables, macro and passes undo the cipher of FIPS-197.
  `ImplementsInvCipher` of `AesBytes` says so pass by pass: twelve and sixteen assignments in place,
  each on what the ones before have left, are one transformation.
- `DummiesInFirstCall`: the 80 dummy look-ups of DUMMY are all done in the first
  decryption after power-up and none ever after, because their count is static. That is hardly
  what DUMMY is meant to do, but no line of the repository says otherwise: it is recorded here as
  what the code does.
- `FilledWhole`: a decryption never starts on a random number of an earlier one; the
  pool ends exactly with a command, since `main()` ignores `Rng_fill`'s refusal.
- `KeyedByState`: the generator never computes a block under the key that hashing a
  seed left behind, nor hands a byte of the seed out as a random number.
- `NeverAgain`: between two seeds the numbers come in a strict order, through blocks and
  restarts, so that none comes twice.
- `ReseedsKeepComing`: the count always meets the 1024 that `Rng_reseed` tests for.
- `EdgesOnTime`, `SamplesOnTime`: the times of ISO 7816-3 7.2 and of the comments of
  Art.c lines 96 and 116, for all that the card sends and receives once it has listened for the
  first time, whatever `rxBitIdx` was before. `AnswerOnTime` says the same of the answer to reset
  and is violated.

### Fairness

Weak fairness of `Main` (the CPU runs between interrupts), of `Timer` (the timer
counts while CS10 is set and its vector is enabled) and of `Reader` (a reader
that has begun a session goes on with it). Each is enabled continuously until it
happens: a handler never disables a step of main() except by being due, and
polling loops are steps that are simply not enabled until the flag changes.
`CommandsComplete` is the only property of `Card` that needs them. None of the
violations depends on fairness.

`Seed` has weak fairness of `Main`, of `Settle` (a write of the EEPROM ends) and of
`Seed_pause` (the reader goes on sending commands), and strong fairness of
`WDT_vect`: the watchdog runs from start to end of the gap between two commands,
and again and again the reader leaves a gap longer than its period. Weak fairness
would not do, as every command disables the interrupt; a reader that never leaves
such a gap gets no new seeds, which is how the code is meant to work.
`SeedsRenewed` is the only property that needs it.

`Firmware` has the fairness of both: weak of main(), the bit timer, the start bits of the
reader and the EEPROM, strong of the watchdog, for the reasons above. Commands are no
assumption here but follow from those. `Rng` has weak fairness of its next step, as main()
runs on. `SeedsCompleted` and `ReseedsKeepComing` need them.

### Mutants

Each property has a mutated definition next to the original, marked
`mutant`: a dropped guard, a late end of a character, a flag not cleared, a
counter not advanced. With the mutant in place of the original TLC finds the
property violated. They are not used in any specification.

## What the runs found

1. **An error signal after 61 stops the session** (`card_reject`).
   `Art_txTimerInterrupt` sets PARITY_ERR when the reader signals an error;
   0x10 is started without clearing the register, `Art_txByteStart` refuses
   (`Art.c:164`) and nobody looks at the result. Card and reader then wait for
   each other. After the other characters the flag is cleared before it matters.
2. **A lost RX flag** (`card_late`). `Atr.c:73` clears RX_COMP by load, mask and store. If
   the next start bit's interrupt falls between, RX is lost. Only the first
   header is exposed, because only there does main() come late (BkrndTask).
3. **A rejected byte is taken** (`card_noise`). RX_COMP is set for a byte with
   bad parity too; nothing reads PARITY_ERR on reception, so the repetition counts as the next
   byte.
4. **The answer to reset may be too fast** (`timing_answer`). `Art_txTimerInterrupt` loads the period
   of a bit only if `rxBitIdx`, the receiver's index, is 0 (`Art.c:129`). Before the first
   reception it is what the stack held (`main.c:23`). If that is not 0 the
   bits of the answer to reset last 351 cycles instead of 373, and its later edges miss their
   moments by more than the 0.2 etu of ISO 7816-3 (7.2, p. 13). Any reception
   sets the index to 0, so that it goes unnoticed later.

More disagreements have no run: in the first two a single line does otherwise than clause 7 of
ISO 7816-3 (docs/) asks, and the others are outside what a property here speaks of.

- Error signals are sampled with the tenth transmit interrupt, at 10 etu
  (`Art.c:133`), and the standard says 11; with a reader that keeps to it (a signal from
  10.5 etu on) the sample never sees one, which hides finding 1.
- TX is cleared by that same interrupt (`Art.c:153`) and the next character follows at once,
  where the standard asks for 12 etu between leading edges.
- PARITY_ERR after a transmission is never read: the card does not repeat a character
  ("the transmitter shall repeat the character", 7.3, p. 14).
- A character whose start bit was missed for noise (`Art.c:78`) is taken up at a later change of the
  level, and the byte framed from there is stored if its parity happens to be right. Three wrong
  samples are enough. In the model that is a reception with `late` greater than 0.
- `rand.c:41` hashes 64 bytes from `data.state` to take in the seed it has just copied to
  `skein_rand_data` (`fkein.h:116`: "add new randomness to the existing state"). The two are
  separate objects with the 16 bits of `data.block` between them at the
  least: at most 30 of the 32 bytes of a seed are hashed, and none if the linker puts the
  buffer elsewhere. The read leaves its object, which is undefined in C.

## Proofs

TLAPS checks every leaf; nothing is assumed but the named `ASSUME`s of the
modules, which TLC evaluates in the runs.

- `FifoProofs`: `TypeCorrect`, `CountersAlwaysAgree` and `Refinement` (the ring
  implements `ByteQueue`) for every size from 1 to 255. The inductive invariant
  is `TypeOK /\ CountersAgree`: without the second conjunct a write at a position
  unrelated to `rd` would not append. `WriteAppends` and `ReadRemovesHead` show that
  the two functions act on the abstract content as `Append`
  and `Tail`.
- `CardProofs`: for every length, byte set and number of error signals, assuming
  `Prompt`. `TimerOwned` and `HalfDuplex`: the invariant says for each step of main()
  which flags may be set and whether the timer and the pin change interrupt are
  on: neither property is inductive without knowing that main()
  clears the register only when the timer is off, and the timer is off there
  because of what the previous step waited for (`PlaceInv`). Start bits that are missed need
  `NoticeInv` besides: until the card notices the character it is in one of the two steps that
  wait for one, with the interrupt on and nothing received. Both hold whatever the noise. `NeverContends` adds `Reception`: while the
  reader drives the line the card receives or has not noticed, so that the pin is an
  input. `DeliveredAsSent` adds `AsSent`, which is about the characters begun with their start bit
  (`late = 0`) and accounts for every turned-over sample, the start bit's too:
  a wrong bit has cost three samples, so five in a character are not enough for two of them, and one alone
  the parity notices. Hence `MaxNoise <= 5`, in each of any number of characters; six samples can turn two
  bits over and keep the parity. `Prompt` is needed (finding 2).
  The second half of the module is about the session: `SessionRefined`, `UpdatesAlone`, `NeverBothWait`, `QueueEmptied`,
  `SeedPaused` and `TypeCorrect` of `Card`, for every answer to reset, length of header and
  block, byte and decryption, on a calm line. `Calm` is `Prompt`, noise in any number of characters but in no
  more than two samples of each, and no error signal after 61 or 9D. Each part is there because the code
  needs it: without the first there is finding 2; three samples may make a bit wrong, which the
  code notices but does not act on (finding 3), or a start bit be missed (that none is, is
  the part `InTime` of the invariant); an error signal after 61 stops the session
  (finding 1), and so does one after 9D, as the 0x00 behind it is started like the 0x10. Error signals in all other parts
  are included, and the run `card` is such a line. The invariant is `SessionInv`: the two above and `Synchronized`,
  in four parts. `InStep` relates main()'s place in Atr.c to the reader's place in the session
  and says who is ahead by how much; `Flags` says what statusReg, timer and pin are at each
  place; `Sending` says which bit of the byte at `fifoTx`'s head is on the line; `Blocks` says
  which bytes of the block have arrived and which have been returned. None is inductive alone: that
  main() is in step depends on flags not being lost, and that on where the reader is.
  `SeedPaused` and `TypeCorrect` add the watchdog's bit and the ranges of the registers.
- `ArtTimingProofs`: `EdgesAlwaysOnTime`, `SamplesAlwaysOnTime`, for every set of
  delays in the assumed range and any `StaleIdx`: the invariant says that `rxBitIdx` is 0
  whenever the card sends after it has received, because a reception that has ended leaves it 0
  and the card turns round only then. It also gives
  the exact time of the next compare match as a function of the slot; the rest is linear
  arithmetic. The answer to reset is left out (finding 4), but for `TypeCorrect`: even with a stale
  index the transmitter ends and no index leaves its range. The range of the delays
  (`DelayAssumption`) is solved back from the tolerance of 0.2 etu. It was not measured on the
  compiled handlers: the theorems say which delays the periods 350 and 372 allow.
- `SeedProofs`: `TypeCorrect`, `SamplesWhitenedOnce`, `StatusUpdatesKept`,
  `WordsStayWhole` and `LogRefinement`, for every size of the buffer, the group and
  the log and any number of power failures. The inductive invariant is `Owned`
  (which step of main() owns the buffer, and that `fresh` is exactly the cells the
  handler has filled or the loop has not reached), `Counted` (the counters agree
  with WHITE_DONE; without it the write task could overtake whitening) and `Placed`
  (`seedAddr` is the start plus the bytes written). The refinement maps a
  group that main() is about to commit to a full one (`Filled`), because the counters are
  reset before cell 0 is written.
- `FirmwareProofs`: `SeedImplemented`, with no assumption but the modules' own. The invariant
  (`CallerInv`) is about where main() can be: a background task is under way only at the site of
  the first header before it polls, and the watchdog is enabled only until main() has seen the
  command's first start bit. Neither `Prompt` nor a calm line is needed.
  `FirmwareSeedSafe` and `FirmwareLog` carry the invariants and the refinement of `SeedProofs` over,
  so that they hold of the entropy source in the whole firmware. The other direction is
  `FirmwareTransceives`, `FirmwareDeliversAsSent`, `FirmwareInSession` and `FirmwareSessions`: what
  `CardProofs` proves of the line holds in the whole firmware, under the same assumptions. A step of the firmware
  is one of `Card`, a stutter of it (the inside of a task, the watchdog, the EEPROM) or a restart
  (`FirmwareInStep`); the restart, which leaves the registers as a reset does and the indices on the stack as they
  happen to be, is shown to lead into the invariants again (`RestartReceiver`, `RestartAsSent`,
  `RestartSession`). Power may fail at any step, any number of times. `FirmwareSessions` needs less than a
  calm line: of `Calm` only `Cooperative` (main() is prompt, 61 and 9D are not refused), because its
  invariant `InStepUntilNoise` says that, until noise is counted, no sample has been turned over
  and the card is in step; so it covers the constants of the run `firmware`.
- `RngProofs`: `TypeCorrect`, `AlwaysFilledWhole`, `AlwaysKeyedByState` and `NumbersNeverAgain`, for
  every size of seed, pool and block, and every count of numbers per command that
  `NumberAssumption` allows. The invariant is `Counted` (the pool's index is a multiple of
  a command's numbers and meets the size exactly), `Keyed` (after a hash the block number
  is 255, so that the next number restarts the generator before it computes anything) and `Drawn`
  (the last number tells key, block and place that the generator stands at, which makes the order strict).
- `AesProofs`: `TypeCorrect` and `AlwaysAPermutation` for every build, and
  `DecryptionRefined` and `DecryptsRight` for each single macro, for every number of rows, columns and
  rounds, every group, S-box, linear mixing, key and random numbers. The mapping takes
  a pass as done when its first byte is: bytes still to come are mapped with the
  transformation applied, and the mask that a byte wears at each place (`Worn`,
  `WornAfterKey`) is taken off. That the bytes done and those to come are disjoint and
  together all (`AtNext`) is where the permutation is needed; that a masked key
  replaces one mask by the next (`KeyMaskIs`, `KeyUnderMask`) and that mixing turns
  `m_in_inv_col` into `m_out_inv_col` (`MixUnderMask`) is the rest. `DecryptsRight` relates
  the end of a call to its beginning: `Underway` says which value of the recursive
  function in `InvCipherOf` the mapped block is at each pass. That the function exists for every number
  of rounds (`StatesExist`) is an induction over a set of numbers (`SetInduction`), as
  the library's theorem takes an operator. The assumption of one
  macro is needed: with SHUFFLING and MASKING both defined, which `AES_DEC_128.c:208` and
  `Rng.h:8` provide for, the lines for each alone are compiled too, every byte is looked
  up three times (lines 242 to 252), and `DecryptsAsStandard` fails with
  `Builds <- BothVariants`.
- `AesBytesProofs`: `TypeCorrect`, `DummiesAllFirst`, `PassesRefined` and `DecryptsWhatWasEncrypted` of
  `AesBytes`, for every set of blocks and all random numbers, where the run has sixteen blocks. What a table
  of 256 bytes or a product in the field is has to be computed: the named assumptions of `AesTables`
  say it (exclusive or is bitwise, `aes_invsbox` undoes the S-box, `roundkeyarr` is the expanded key, the macro
  is the field's product, products are linear, one column of the product of the matrices
  is that of the identity), and TLC evaluates each of them for every byte, so that
  nothing in them is left open. From them follow the group laws of `Xor`, that `InvMix` undoes `Mix` on
  columns of any bytes (`ColumnRestored`: 2^32 of them, and a sum by rows is one by columns), and that
  each transformation undoes the other (`KeyRemoved`, `BytesRestored`, `RowsRestored`, `ColumnsRestored`). The
  invariant says of each line of a pass in place which bytes are done and which of the old ones are
  saved (`Shifting`, `Mixing`); without the second a line would use bytes that have been replaced.
  `Underway` says which state of FIPS-197's cipher the block has come back to.

Model-checked only:

- `CommandsComplete`, `SeedsRenewed`, `SeedsCompleted` and `ReseedsKeepComing`: they are liveness
  under fairness, which is beyond the prover.
- The facts about the tables (`ASSUME`s of `AesTables`): computed by TLC, completely.
- The four violations: the findings above.
- `Card` off a calm line, but for the theorems of `CardProofs`: that is what `card_noise`,
  `card_late` and `card_reject` are for, and `firmware`, which has noise.

## Not modelled

- Auxiliary timer 0, INT0 and the DeInit functions of `Art.c` (never called or
  commented out), `Seed_deInit` (never called), the TESTING build, port and trigger-pin
  set-up, `rxFifo` (never used), debug output (nothing prints).
- The values of samples and words: whitening is a matter of their statistics, of which no
  property here speaks. Wear of the EEPROM.
- The hash and the cipher of the vendored library (`skein.c`, `threefish_enc.s`, `ubi.h`):
  `Rng` needs to know only which memory they read and leave changed.
- RNG_NUMBER other than 16: `Rng.h` defines SHUFFLING itself, so that a MASKING of the
  command line gives 26 and DUMMY 10, which do not divide 1024. `NumberAssumption` excludes them; with them
  `FilledWhole` fails. The restart at block 255 in the middle of a seed is in `Rng`, but a pool of
  1024 ends at block 32.
- SHUFFLING and MASKING together, see `DecryptionRefined`.
- What a character means when the session has lost its place by noise: the reader repeats
  it, and the session may stop there (finding 3).
- The electrical side of the line.

What is modelled in part is said under `components` in `PROJECT.json`.

## Plan

All modules of the table are written, and every safety property and refinement that a passing run
checks is a theorem. What could be added:

1. The session of `CardProofs` under more noise: up to finding 3, which characters are in step and
   which are not.
2. `SHUFFLING` and `MASKING` of `Aes` on the bytes and tables of `AesTables`, whose facts are the assumptions
   of `AesBlock`.
