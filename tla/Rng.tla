--------------------------------- MODULE Rng ---------------------------------
(***************************************************************************)
(* The random numbers of a decryption: Rng.c, the reading of seeds from    *)
(* the EEPROM (Seed.c), and the generator of the Skein library (rand.c).   *)
(* A hash is opaque: the states that follow from a seed are numbered from  *)
(* 1, and a number is known by the key, the block and the place in the     *)
(* block that it comes from.                                               *)
(***************************************************************************)
EXTENDS Integers

CONSTANTS
  SeedSize,     \* RNG_SEED_SIZE, and the bytes of a state of the generator
  Pool,         \* RNG_MAX_POOL
  Number,       \* RNG_NUMBER
  BlockBytes,   \* the numbers of a block
  LastAddress,  \* UINT8_MAX
  RestartAt     \* the block that stands for none

ASSUME SizeAssumption ==
  /\ SeedSize \in Nat \ {0} /\ BlockBytes \in Nat \ {0}
  /\ LastAddress \in Nat \ {0} /\ RestartAt \in Nat \ {0}
  /\ Number \in Nat \ {0} /\ Pool \in Nat \ {0}
ASSUME NumberAssumption == Pool % Number = 0

VARIABLES
  pc, idx,                     \* where main is, and the loop of Rng_fill
  address, Rng_seed,           \* Rng_seed: the addresses its bytes are from
  Rng_rand, Rng_randPoolIdx,
  state, block,                \* data
  skein_rand_data, skein_rand_len,
  key,                         \* of tparam
  filled, last                 \* history: see below

seedVars == <<address, Rng_seed>>
libVars == <<state, block, skein_rand_data, skein_rand_len, key>>
vars == <<pc, idx, seedVars, Rng_rand, Rng_randPoolIdx, libVars,
          filled, last>>

SeedBytes == 0 .. SeedSize - 1
Numbers == 0 .. Number - 1
Draw == [key : Nat, block : Nat, place : Nat]
NoDraw == [key |-> 0, block |-> 0, place |-> 0]
NoKey == -1      \* the key that a message has been hashed with
SeedCopied == -1  \* for the block in skein_rand_data

\* filled: the numbers that Rng_fill has replaced for this decryption;
\* last: the last number drawn from this seed.
Init ==
  /\ pc = "init" /\ idx = 0
  /\ address = 1 /\ Rng_seed = [k \in SeedBytes |-> 0]
  /\ Rng_rand = [k \in Numbers |-> NoDraw] /\ Rng_randPoolIdx = 0
  /\ state = 0 /\ block = 0
  /\ skein_rand_data = [key |-> 0, block |-> SeedCopied] /\ skein_rand_len = 0
  /\ key = NoKey
  /\ filled = {} /\ last = NoDraw
-----------------------------------------------------------------------------
(* A new seed.                                                             *)

\* address after k bytes; 0, where the start of the log is kept, is left out.
AddressAfter_Past(k) == address + k  \* mutant
AddressAfter(k) == ((address - 1 + k) % LastAddress) + 1

Seed_readEEprom ==
  /\ Rng_seed' = [k \in SeedBytes |-> AddressAfter(k)]
  /\ address' = AddressAfter(SeedSize)

RestartBlock_Kept == block  \* mutant
RestartBlock == RestartAt

\* skein_rand_reseed, and skein_256_256 as it is called there. What the 64
\* bytes from data.state on are besides the old state is left to the linker
\* (rand.c:41): the new state is some other, whichever bytes are hashed.
skein_rand_reseed ==
  /\ skein_rand_data' = [key |-> 0, block |-> SeedCopied]
  /\ key' = NoKey
  /\ state' = 1
  /\ block' = RestartBlock
  /\ skein_rand_len' = 0
  /\ last' = NoDraw

Rng_init ==
  /\ pc = "init"
  /\ Seed_readEEprom
  /\ skein_rand_reseed
  /\ pc' = "command"
  /\ UNCHANGED <<idx, Rng_rand, Rng_randPoolIdx, filled>>

UsedUp_Beyond == Rng_randPoolIdx > Pool  \* mutant
UsedUp == Rng_randPoolIdx = Pool
IdxAfterReseed_Kept == Rng_randPoolIdx  \* mutant
IdxAfterReseed == 0

Rng_reseed ==
  /\ pc = "decrypt"
  /\ IF UsedUp
     THEN /\ Seed_readEEprom
          /\ skein_rand_reseed
          /\ Rng_randPoolIdx' = IdxAfterReseed
     ELSE UNCHANGED <<seedVars, libVars, last, Rng_randPoolIdx>>
  /\ pc' = "command"
  /\ UNCHANGED <<idx, Rng_rand, filled>>
-----------------------------------------------------------------------------
(* Numbers from the seed.                                                  *)

\* The macro skein_rand, skein_rand_full, skein_rand_256, skein_rand_restart.
NextBlock_Same(b) == b  \* mutant
NextBlock(b) == b + 1

skein_rand ==
  IF skein_rand_len # 0
  THEN /\ skein_rand_len' = skein_rand_len - 1
       /\ UNCHANGED <<state, block, skein_rand_data, key>>
  ELSE LET restarts == block = RestartAt
       IN /\ key' = IF restarts THEN state ELSE key
          /\ state' = IF restarts THEN state + 1 ELSE state
          /\ block' = NextBlock(IF restarts THEN 0 ELSE block)
          /\ skein_rand_data' = [key |-> key', block |-> block']
          /\ skein_rand_len' = BlockBytes - 1

NumberDrawn ==
  [key |-> skein_rand_data'.key, block |-> skein_rand_data'.block,
   place |-> skein_rand_len']

\* The command has been received: Rng_fill is called.
Command ==
  /\ pc = "command"
  /\ pc' = "fill" /\ idx' = 0
  /\ filled' = {}
  /\ UNCHANGED <<seedVars, Rng_rand, Rng_randPoolIdx, libVars, last>>

\* One number; its result tells of a refusal, and main() does not look at it.
Rng_fill ==
  /\ pc = "fill"
  /\ IF Rng_randPoolIdx < Pool
     THEN /\ skein_rand
          /\ Rng_rand' = [Rng_rand EXCEPT ![idx] = NumberDrawn]
          /\ last' = NumberDrawn
          /\ Rng_randPoolIdx' = Rng_randPoolIdx + 1
          /\ filled' = filled \cup {idx}
     ELSE UNCHANGED <<libVars, Rng_rand, last, Rng_randPoolIdx, filled>>
  /\ idx' = idx + 1
  /\ pc' = IF idx + 1 < Number THEN "fill" ELSE "decrypt"
  /\ UNCHANGED seedVars

Next == Rng_init \/ Command \/ Rng_fill \/ Rng_reseed

\* main() runs on, and the reader sends another command.
Spec == Init /\ [][Next]_vars /\ WF_vars(Next)
-----------------------------------------------------------------------------
TypeOK ==
  /\ pc \in {"init", "command", "fill", "decrypt"} /\ idx \in 0..Number
  /\ address \in 1..LastAddress
  /\ Rng_seed \in [SeedBytes -> 0..LastAddress]
  /\ Rng_rand \in [Numbers -> Draw] /\ Rng_randPoolIdx \in 0..Pool
  /\ state \in Nat /\ block \in 0..RestartAt
  /\ skein_rand_data \in [key : Nat, block : Nat \cup {SeedCopied}]
  /\ skein_rand_len \in 0 .. BlockBytes - 1
  /\ key \in Nat \cup {NoKey}
  /\ filled \subseteq Numbers /\ last \in Draw

\* No decryption is randomised with numbers left from an earlier one: the
\* pool is never used up within Rng_fill, whose refusal main() ignores.
FilledWhole == pc = "decrypt" => filled = Numbers

\* A block is never computed from what hashing a message leaves as the key
\* (fkein.h: restart if tparam was used for something else), and a byte of
\* the seed, which lies in the same buffer, is never handed out as a number.
KeyedByState ==
  /\ block # RestartAt /\ pc # "init" => key = state - 1
  /\ skein_rand_len # 0 => skein_rand_data = [key |-> key, block |-> block]

\* Keys and blocks go up, the places in a block down.
After(d, e) ==
  \/ d.key > e.key
  \/ d.key = e.key /\ d.block > e.block
  \/ d.key = e.key /\ d.block = e.block /\ d.place < e.place

\* Until the next seed no number is drawn twice (skein_rand and what it calls):
\* each comes after the one before it, through blocks and restarts.
NeverAgain ==
  [][last' # last /\ last # NoDraw /\ last' # NoDraw => After(last', last)]_vars

\* New seeds keep being used: the count of numbers always meets the size of
\* the pool, which Rng_reseed tests for equality.
ReseedsKeepComing == []<>(pc = "command" /\ Rng_randPoolIdx = 0)
=============================================================================
