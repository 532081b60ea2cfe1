------------------------------ MODULE RngProofs ------------------------------
(***************************************************************************)
(* Proofs about Rng.tla, for every size of the seed, of the pool and of    *)
(* the blocks, and every number of random numbers a command takes of which *)
(* the pool is a multiple.                                                 *)
(*                                                                         *)
(* Counted says where the pool stands relative to the commands, Keyed what *)
(* the generator's block was computed from, and Drawn that the last number *)
(* tells where the generator is.                                           *)
(***************************************************************************)
EXTENDS Rng, TLAPS

Full(n) == \E r \in Nat : n = r * Number

Counted ==
  /\ pc = "init" => Rng_randPoolIdx = 0
  /\ pc = "command" => Full(Rng_randPoolIdx) /\ Rng_randPoolIdx < Pool
  /\ pc = "fill" => /\ idx < Number /\ filled = 0 .. idx - 1
                    /\ Rng_randPoolIdx - idx \in Nat
                    /\ Full(Rng_randPoolIdx - idx)
                    /\ Rng_randPoolIdx - idx < Pool
  /\ pc = "decrypt" => filled = Numbers /\ Full(Rng_randPoolIdx)

Keyed ==
  /\ KeyedByState
  /\ pc # "init" => state >= 1
  /\ skein_rand_len # 0 => key = state - 1 /\ state >= 1

Drawn ==
  last # NoDraw =>
    /\ last = [key |-> key, block |-> block, place |-> skein_rand_len]
    /\ key = state - 1

IInv == TypeOK /\ Counted /\ Keyed /\ Drawn
-----------------------------------------------------------------------------
\* The pool holds whole commands, so below its end there is room for one.
LEMMA PoolFull == Full(Pool)
<1>1. Pool = Number * (Pool \div Number) + (Pool % Number)
  BY SizeAssumption
<1>2. (Pool \div Number) \in Nat
  BY SizeAssumption
<1>3. Pool = (Pool \div Number) * Number
  BY <1>1, <1>2, NumberAssumption, SizeAssumption
<1>. QED
  BY <1>2, <1>3 DEF Full

LEMMA RoomForOne ==
  ASSUME NEW n \in Nat, Full(n), n < Pool
  PROVE  n + Number <= Pool /\ Full(n + Number)
<1>1. PICK r \in Nat : n = r * Number
  BY DEF Full
<1>2. PICK p \in Nat : Pool = p * Number
  BY PoolFull DEF Full
<1>3. r < p
  <2>. SUFFICES ASSUME p <= r PROVE FALSE
    OBVIOUS
  <2>1. PICK d \in Nat : r = p + d
    OBVIOUS
  <2>2. r * Number = p * Number + d * Number
    BY <2>1, SizeAssumption
  <2>3. d * Number >= 0
    BY SizeAssumption
  <2>. QED
    BY <1>1, <1>2, <2>2, <2>3, SizeAssumption
<1>4. PICK d \in Nat : p = r + 1 + d
  BY <1>3
<1>5. p * Number = r * Number + Number + d * Number
  BY <1>4, SizeAssumption
<1>6. d * Number >= 0
  BY SizeAssumption
<1>7. n + Number = (r + 1) * Number
  BY <1>1, SizeAssumption
<1>. QED
  BY <1>1, <1>2, <1>5, <1>6, <1>7, SizeAssumption DEF Full

LEMMA NoneIsFull == Full(0)
<1>1. 0 = 0 * Number
  BY SizeAssumption
<1>. QED
  BY <1>1 DEF Full

LEMMA AddressRange ==
  ASSUME address \in 1..LastAddress, NEW k \in Nat
  PROVE  AddressAfter(k) \in 1..LastAddress
BY SizeAssumption DEF AddressAfter
-----------------------------------------------------------------------------
LEMMA InitInv == Init => IInv
<1>. SUFFICES ASSUME Init PROVE IInv
  OBVIOUS
<1>1. TypeOK
  BY SizeAssumption
  DEF Init, TypeOK, SeedBytes, Numbers, Draw, NoDraw, SeedCopied, NoKey
<1>. QED
  BY <1>1 DEF Init, IInv, Counted, Keyed, KeyedByState, Drawn

\* A new seed: Seed_readEEprom and skein_rand_reseed.
LEMMA ReseedInv ==
  ASSUME IInv, Seed_readEEprom, skein_rand_reseed
  PROVE  /\ address' \in 1..LastAddress
         /\ Rng_seed' \in [SeedBytes -> 0..LastAddress]
         /\ state' \in Nat /\ block' \in 0..RestartAt
         /\ skein_rand_data' \in [key : Nat, block : Nat \cup {SeedCopied}]
         /\ skein_rand_len' \in 0 .. BlockBytes - 1
         /\ key' \in Nat \cup {NoKey}
         /\ last' \in Draw
         /\ Drawn'
         /\ block' = RestartAt /\ skein_rand_len' = 0 /\ state' = 1
<1>1. /\ skein_rand_data' = [key |-> 0, block |-> SeedCopied]
      /\ key' = NoKey /\ state' = 1 /\ block' = RestartAt
      /\ skein_rand_len' = 0 /\ last' = NoDraw
  BY DEF skein_rand_reseed, RestartBlock
<1>2. /\ Rng_seed' = [k \in SeedBytes |-> AddressAfter(k)]
      /\ address' = AddressAfter(SeedSize)
  BY DEF Seed_readEEprom
<1>3. address \in 1..LastAddress /\ SeedSize \in Nat
  BY SizeAssumption DEF IInv, TypeOK
<1>4. address' \in 1..LastAddress
  BY <1>2, <1>3, AddressRange
<1>5. \A k \in SeedBytes : AddressAfter(k) \in 0..LastAddress
  BY <1>3, AddressRange, SizeAssumption DEF SeedBytes
<1>6. Rng_seed' \in [SeedBytes -> 0..LastAddress]
  BY <1>2, <1>5
<1>7. last' \in Draw
  BY <1>1 DEF NoDraw, Draw
<1>8. skein_rand_data' \in [key : Nat, block : Nat \cup {SeedCopied}]
  BY <1>1
<1>. QED
  BY <1>1, <1>4, <1>6, <1>7, <1>8, SizeAssumption DEF Drawn

LEMMA StartInv == IInv /\ Rng_init => IInv'
<1>. SUFFICES ASSUME IInv, Rng_init PROVE IInv'
  OBVIOUS
<1>. USE DEF IInv, Rng_init
<1>1. TypeOK'
  BY ReseedInv DEF TypeOK
<1>2. Counted'
  BY NoneIsFull, SizeAssumption DEF Counted
<1>3. Keyed' /\ Drawn'
  BY ReseedInv DEF Keyed, KeyedByState
<1>. QED
  BY <1>1, <1>2, <1>3

LEMMA CommandInv == IInv /\ Command => IInv'
<1>. SUFFICES ASSUME IInv, Command PROVE IInv'
  OBVIOUS
<1>. USE DEF IInv, Command, seedVars, libVars
<1>1. TypeOK'
  BY SizeAssumption DEF TypeOK
<1>2. Counted'
  BY SizeAssumption DEF Counted, TypeOK
<1>3. Keyed' /\ Drawn'
  BY DEF Keyed, KeyedByState, Drawn
<1>. QED
  BY <1>1, <1>2, <1>3

\* A decryption is over; the pool is renewed if it has been used up.
LEMMA ReseedStepInv == IInv /\ Rng_reseed => IInv'
<1>. SUFFICES ASSUME IInv, Rng_reseed PROVE IInv'
  OBVIOUS
<1>. USE DEF IInv
<1>1. /\ pc = "decrypt" /\ pc' = "command"
      /\ UNCHANGED <<idx, Rng_rand, filled>>
  BY DEF Rng_reseed
<1>2. CASE UsedUp
  <2>1. Seed_readEEprom /\ skein_rand_reseed /\ Rng_randPoolIdx' = 0
    BY <1>2 DEF Rng_reseed, IdxAfterReseed
  <2>2. TypeOK'
    BY <1>1, <2>1, ReseedInv, SizeAssumption DEF TypeOK
  <2>3. Counted'
    BY <1>1, <2>1, NoneIsFull, SizeAssumption DEF Counted
  <2>4. Keyed' /\ Drawn'
    BY <1>1, <2>1, ReseedInv DEF Keyed, KeyedByState
  <2>. QED
    BY <2>2, <2>3, <2>4
<1>3. CASE ~UsedUp
  <2>1. UNCHANGED <<seedVars, libVars, last, Rng_randPoolIdx>>
    BY <1>3 DEF Rng_reseed
  <2>2. TypeOK'
    BY <1>1, <2>1 DEF TypeOK, seedVars, libVars
  <2>3. Counted'
    BY <1>1, <1>3, <2>1, SizeAssumption DEF Counted, UsedUp, TypeOK
  <2>4. Keyed' /\ Drawn'
    BY <1>1, <2>1 DEF Keyed, KeyedByState, Drawn, libVars
  <2>. QED
    BY <2>2, <2>3, <2>4
<1>. QED
  BY <1>2, <1>3
-----------------------------------------------------------------------------
LEMMA IsDraw ==
  ASSUME NEW k \in Nat, NEW b \in Nat, NEW p \in Nat
  PROVE  [key |-> k, block |-> b, place |-> p] \in Draw
BY DEF Draw

\* A number drawn comes from a block keyed with a state, and tells where the
\* generator is; within a seed it comes after the one before it.
LEMMA DrawInv ==
  ASSUME IInv, pc = "fill", skein_rand, last' = NumberDrawn
  PROVE  /\ state' \in Nat /\ state' >= 1 /\ block' \in 0..RestartAt
         /\ skein_rand_data' \in [key : Nat, block : Nat \cup {SeedCopied}]
         /\ skein_rand_len' \in 0 .. BlockBytes - 1
         /\ key' \in Nat
         /\ key' = state' - 1
         /\ skein_rand_len' # 0 => skein_rand_data' = [key |-> key', block |-> block']
         /\ last' \in Draw
         /\ Drawn'
         /\ last # NoDraw => After(last', last)
<1>. USE DEF IInv
<1>0. /\ state \in Nat /\ state >= 1 /\ block \in 0..RestartAt
      /\ skein_rand_len \in 0 .. BlockBytes - 1
      /\ skein_rand_len # 0 =>
           key = state - 1 /\ skein_rand_data = [key |-> key, block |-> block]
      /\ block # RestartAt => key = state - 1
  BY DEF TypeOK, Keyed, KeyedByState
<1>1. CASE skein_rand_len # 0
  <2>1. /\ skein_rand_len' = skein_rand_len - 1
        /\ state' = state /\ block' = block /\ key' = key
        /\ skein_rand_data' = [key |-> key, block |-> block]
        /\ key = state - 1
    BY <1>0, <1>1 DEF skein_rand
  <2>2. last' = [key |-> key', block |-> block', place |-> skein_rand_len']
    BY <2>1 DEF NumberDrawn
  <2>3. last # NoDraw => After(last', last)
    BY <1>0, <2>1, <2>2 DEF Drawn, After
  <2>. QED
    BY <1>0, <1>1, <2>1, <2>2, <2>3, SizeAssumption DEF Draw, Drawn
<1>2. CASE skein_rand_len = 0
  <2>. DEFINE restarts == block = RestartAt
  <2>1. /\ restarts => key' = state /\ state' = state + 1 /\ block' = 1
        /\ ~restarts => key' = key /\ state' = state /\ block' = block + 1
        /\ skein_rand_data' = [key |-> key', block |-> block']
        /\ skein_rand_len' = BlockBytes - 1
    BY <1>2 DEF skein_rand, NextBlock
  <2>2. last' = [key |-> key', block |-> block', place |-> skein_rand_len']
    BY <2>1 DEF NumberDrawn
  <2>3. /\ state' \in Nat /\ state' >= 1 /\ block' \in 0..RestartAt
        /\ key' = state' - 1 /\ key' \in Nat
    BY <1>0, <2>1, SizeAssumption
  <2>4. last # NoDraw => After(last', last)
    <3>. SUFFICES ASSUME last # NoDraw PROVE After(last', last)
      OBVIOUS
    <3>1. last.key = key /\ last.block = block /\ key = state - 1
      BY DEF Drawn
    <3>. QED
      BY <1>0, <2>1, <2>2, <3>1 DEF After
  <2>5. /\ skein_rand_len' \in 0 .. BlockBytes - 1
        /\ skein_rand_len' \in Nat /\ block' \in Nat
    BY <2>1, <2>3, SizeAssumption
  <2>6. skein_rand_data' \in [key : Nat, block : Nat \cup {SeedCopied}]
    BY <2>1, <2>3, <2>5
  <2>7. last' \in Draw
    BY <2>2, <2>3, <2>5, IsDraw
  <2>8. Drawn'
    BY <2>2, <2>3 DEF Drawn
  <2>. QED
    BY <2>1, <2>3, <2>4, <2>5, <2>6, <2>7, <2>8
<1>. QED
  BY <1>0, <1>1, <1>2

LEMMA FillInv == IInv /\ Rng_fill => IInv'
<1>. SUFFICES ASSUME IInv, Rng_fill PROVE IInv'
  OBVIOUS
<1>. USE DEF IInv
<1>1. /\ pc = "fill" /\ idx \in Nat /\ idx < Number
      /\ Rng_randPoolIdx - idx \in Nat /\ Full(Rng_randPoolIdx - idx)
      /\ Rng_randPoolIdx - idx < Pool
      /\ filled = 0 .. idx - 1
      /\ Rng_randPoolIdx \in Nat
  BY DEF Rng_fill, Counted, TypeOK
<1>2. /\ Rng_randPoolIdx - idx + Number <= Pool
      /\ Full(Rng_randPoolIdx - idx + Number)
  BY <1>1, RoomForOne
<1>3. Rng_randPoolIdx < Pool
  BY <1>1, <1>2, SizeAssumption
<1>4. /\ skein_rand /\ last' = NumberDrawn
      /\ Rng_rand' = [Rng_rand EXCEPT ![idx] = NumberDrawn]
      /\ Rng_randPoolIdx' = Rng_randPoolIdx + 1
      /\ filled' = filled \cup {idx}
      /\ idx' = idx + 1
      /\ pc' = IF idx + 1 < Number THEN "fill" ELSE "decrypt"
      /\ UNCHANGED seedVars
  BY <1>3 DEF Rng_fill
<1>5. TypeOK'
  <2>1. Rng_rand' \in [Numbers -> Draw]
    BY <1>1, <1>4, DrawInv DEF TypeOK
  <2>2. idx' \in 0..Number /\ filled' \subseteq Numbers
        /\ Rng_randPoolIdx' \in 0..Pool
    BY <1>1, <1>3, <1>4, SizeAssumption DEF TypeOK, Numbers
  <2>. QED
    BY <1>1, <1>4, <2>1, <2>2, DrawInv DEF TypeOK, seedVars
<1>6. Counted'
  <2>1. filled' = 0 .. idx' - 1 /\ idx' \in Nat
        /\ Rng_randPoolIdx' - idx' = Rng_randPoolIdx - idx
    BY <1>1, <1>4
  <2>2. CASE idx + 1 < Number
    BY <1>1, <1>4, <2>1, <2>2 DEF Counted
  <2>3. CASE idx + 1 = Number
    <3>1. Rng_randPoolIdx' = Rng_randPoolIdx - idx + Number
      BY <1>1, <1>4, <2>3
    <3>. QED
      BY <1>2, <1>4, <2>1, <2>3, <3>1, SizeAssumption DEF Counted, Numbers
  <2>. QED
    BY <1>1, <2>2, <2>3, SizeAssumption
<1>7. Keyed' /\ Drawn'
  <2>1. pc' # "init"
    BY <1>4
  <2>. QED
    BY <1>1, <1>4, <2>1, DrawInv DEF Keyed, KeyedByState
<1>. QED
  BY <1>5, <1>6, <1>7

LEMMA StepInv == IInv /\ [Next]_vars => IInv'
<1>1. IInv /\ UNCHANGED vars => IInv'
  BY DEF vars, seedVars, libVars, IInv, TypeOK, Counted, Keyed, KeyedByState,
         Drawn
<1>. QED
  BY <1>1, StartInv, CommandInv, FillInv, ReseedStepInv DEF Next
-----------------------------------------------------------------------------
\* Type correctness, for every value of the constants.
THEOREM TypeCorrect == Spec => []TypeOK
<1>1. IInv => TypeOK
  BY DEF IInv
<1>. QED
  BY <1>1, InitInv, StepInv, PTL DEF Spec

\* No decryption is randomised with numbers left from an earlier one, for
\* every pool that is a multiple of a command's numbers: Rng_fill, whose
\* refusal main() ignores, never refuses (Rng_fill, Rng_reseed).
THEOREM AlwaysFilledWhole == Spec => []FilledWhole
<1>1. IInv => FilledWhole
  BY DEF IInv, Counted, FilledWhole
<1>. QED
  BY <1>1, InitInv, StepInv, PTL DEF Spec

\* Every block is computed under a state of the generator, never under what
\* hashing a message has left as the key, and no byte of the seed in the same
\* buffer is handed out (skein_rand_256, skein_rand_restart).
THEOREM AlwaysKeyedByState == Spec => []KeyedByState
<1>1. IInv => KeyedByState
  BY DEF IInv, Keyed
<1>. QED
  BY <1>1, InitInv, StepInv, PTL DEF Spec

\* Between two seeds the numbers come in a strict order, through blocks and
\* restarts, so that none is drawn twice (skein_rand_full, skein_rand_256).
THEOREM NumbersNeverAgain == Spec => NeverAgain
<1>. DEFINE A == last' # last /\ last # NoDraw /\ last' # NoDraw => After(last', last)
<1>1. IInv /\ [Next]_vars => A \/ UNCHANGED vars
  <2>. SUFFICES ASSUME IInv, Next, last' # last, last # NoDraw, last' # NoDraw
                PROVE  After(last', last)
    OBVIOUS
  <2>1. CASE Rng_init
    BY <2>1 DEF Rng_init, skein_rand_reseed
  <2>2. CASE Command
    BY <2>2 DEF Command
  <2>3. CASE Rng_reseed
    BY <2>3 DEF Rng_reseed, skein_rand_reseed
  <2>4. CASE Rng_fill
    <3>1. pc = "fill" /\ skein_rand /\ last' = NumberDrawn
      BY <2>4 DEF Rng_fill
    <3>. QED
      BY <3>1, DrawInv
  <2>. QED
    BY <2>1, <2>2, <2>3, <2>4 DEF Next
<1>. HIDE DEF A
<1>2. Spec => [][A]_vars
  BY <1>1, InitInv, StepInv, PTL DEF Spec
<1>. QED
  BY <1>2 DEF NeverAgain, A
=============================================================================
