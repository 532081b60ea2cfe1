--------------------------------- MODULE Aes ---------------------------------
(***************************************************************************)
(* aes_dec_128 as it is compiled with NORMAL, SHUFFLING or MASKING defined *)
(* (or several of them; DUMMY, which leaves the block alone, is AesBytes').  *)
(* The passes of add_round_key and inverse_subbytes work on one byte after *)
(* the other, in the order of shuffling_array or from first to last; the   *)
(* array is shuffled further at the start and before the last round, and   *)
(* is kept from call to call.                                              *)
(***************************************************************************)
EXTENDS AesBlock

CONSTANTS
  Builds,  \* the sets of macros that may be defined
  Rands,   \* what Rng_fill may leave in Rng_rand
  Num(_)   \* a byte as a number

ASSUME RandAssumption ==
  Rands \subseteq Block /\ \A a \in Value : Num(a) \in Nat
ASSUME BuildAssumption == \A b \in Builds : b # {}

VARIABLES
  build,
  given,                  \* history: the block aes_dec_128 was called with
  stateText, roundCount,
  pc,                     \* the pass that aes_dec_128 is in
  i,                      \* its loop variable
  shuffling_array, Rng_rand,
  mask_in, m_in_inv_col   \* the masks, those that others are computed from

blockVars == <<stateText, roundCount>>
maskVars == <<mask_in, m_in_inv_col>>
vars == <<build, given, blockVars, pc, i, shuffling_array, Rng_rand, maskVars>>

Pass == {"idle", "shuffle", "mask", "key", "shift", "sub", "mix"}
OneVariant == {{"NORMAL"}, {"SHUFFLING"}, {"MASKING"}}
Has(macro) == macro \in build

mask_out == mask_in
m_out_inv_col == MixColumn(m_in_inv_col)

NoBlock == <<>>

\* Static storage; the first command has not arrived yet.
Init ==
  /\ build \in Builds
  /\ given = NoBlock /\ stateText \in Inputs /\ roundCount = 0
  /\ pc = "idle" /\ i = 0
  /\ shuffling_array = [c \in Cell |-> c]
  /\ Rng_rand = [c \in Cell |-> Zero]
  /\ mask_in = Zero /\ m_in_inv_col = [r \in 0 .. Rows - 1 |-> Zero]

Goto(p) == pc' = p /\ i' = IF p = "shuffle" THEN N - 1 ELSE 0

\* The loop over the bytes goes on, or the pass is over.
Advance(p) == IF i + 1 < N THEN i' = i + 1 /\ UNCHANGED pc ELSE Goto(p)
-----------------------------------------------------------------------------
(* A call of aes_dec_128, with a new block and new random numbers.         *)

Prepared == IF Has("MASKING") THEN "mask" ELSE "key"

Call ==
  /\ pc = "idle"
  /\ given' \in Inputs /\ stateText' = given'
  /\ Rng_rand' \in Rands
  /\ roundCount' = Rounds
  /\ Goto(IF Has("SHUFFLING") THEN "shuffle" ELSE Prepared)
  /\ UNCHANGED <<build, shuffling_array, maskVars>>

Swap_NoTemp(a, k, j) == [a EXCEPT ![k] = a[j], ![j] = a[j]]  \* mutant
Swap(a, k, j) == [a EXCEPT ![k] = a[j], ![j] = a[k]]

generate_new_shuffling_array ==
  /\ pc = "shuffle"
  /\ shuffling_array' = Swap(shuffling_array, i, Num(Rng_rand[i]) % (i + 1))
  /\ IF i - 1 # 0 THEN i' = i - 1 /\ UNCHANGED pc
     ELSE Goto(IF roundCount = 0 THEN "shift" ELSE Prepared)
  /\ UNCHANGED <<build, given, blockVars, Rng_rand, maskVars>>

\* init_masking and mask_state.
Mask ==
  /\ pc = "mask"
  /\ mask_in' = Rng_rand[Rows]
  /\ m_in_inv_col' = [r \in 0 .. Rows - 1 |-> Rng_rand[r]]
  /\ stateText' = [c \in Cell |-> Xor(stateText[c],
                                      MixColumn(m_in_inv_col')[Row(c)])]
  /\ Goto("key")
  /\ UNCHANGED <<build, given, roundCount, shuffling_array, Rng_rand>>
-----------------------------------------------------------------------------
(* The rounds.                                                             *)

KeyMask_LastAsOthers(r, c) ==  \* mutant
  IF r = Rounds THEN Xor(m_out_inv_col[Row(c)], mask_in)
  ELSE Xor(m_in_inv_col[Row(c)], mask_out)
KeyMask(r, c) ==
  CASE r = Rounds -> Xor(m_out_inv_col[Row(c)], mask_in)
    [] r = 0 -> mask_in
    [] OTHER -> Xor(m_in_inv_col[Row(c)], mask_out)

masked_round_key(r, c) == Xor(Key[r][c], KeyMask(r, c))

XorAt(s, c, k) == [s EXCEPT ![c] = Xor(s[c], k)]

\* The body of the loop, with what the macros leave of it.
KeyAdded(s, r, k, p) ==
  LET s1 == IF Has("SHUFFLING") THEN XorAt(s, p, Key[r][p]) ELSE s
      s2 == IF Has("MASKING") THEN XorAt(s1, k, masked_round_key(r, k)) ELSE s1
      s3 == IF Has("MASKING") /\ Has("SHUFFLING")
            THEN XorAt(s2, p, masked_round_key(r, p)) ELSE s2
  IN IF Has("NORMAL") THEN XorAt(s3, k, Key[r][k]) ELSE s3

AfterKey(r) ==
  CASE r = Rounds -> IF r - 1 = 0 /\ Has("SHUFFLING") THEN "shuffle" ELSE "shift"
    [] r = 0 -> "idle"
    [] OTHER -> "mix"

RoundAfterKey_Always(r) == r - 1  \* mutant
RoundAfterKey(r) == IF r = Rounds THEN r - 1 ELSE r

add_round_key ==
  /\ pc = "key"
  /\ stateText' = KeyAdded(stateText, roundCount, i, shuffling_array[i])
  /\ roundCount' = IF i + 1 < N THEN roundCount ELSE RoundAfterKey(roundCount)
  /\ Advance(AfterKey(roundCount))
  /\ UNCHANGED <<build, given, shuffling_array, Rng_rand, maskVars>>

inverse_shift_rows ==
  /\ pc = "shift"
  /\ stateText' = InvShiftRows(stateText)
  /\ Goto("sub")
  /\ UNCHANGED <<build, given, roundCount, shuffling_array, Rng_rand, maskVars>>

masked_aes_invsbox(a) == Xor(Sub(Xor(a, mask_out)), mask_in)

Substituted(s, k, p) ==
  LET s1 == IF Has("SHUFFLING") THEN [s EXCEPT ![p] = Sub(s[p])] ELSE s
      s2 == IF Has("MASKING") /\ Has("SHUFFLING")
            THEN [s1 EXCEPT ![p] = masked_aes_invsbox(s1[p])] ELSE s1
      s3 == IF Has("MASKING")
            THEN [s2 EXCEPT ![k] = masked_aes_invsbox(s2[k])] ELSE s2
  IN IF Has("NORMAL") THEN [s3 EXCEPT ![k] = Sub(s3[k])] ELSE s3

inverse_subbytes ==
  /\ pc = "sub"
  /\ stateText' = Substituted(stateText, i, shuffling_array[i])
  /\ Advance("key")
  /\ UNCHANGED <<build, given, roundCount, shuffling_array, Rng_rand, maskVars>>

Remasked_KeepsColumns(s) == [c \in Cell |-> Xor(s[c], mask_in)]  \* mutant

\* remask_state
Remasked(s) ==
  [c \in Cell |-> Xor(s[c], Xor(m_out_inv_col[Row(c)], mask_in))]

inverse_mix_coloumns ==
  /\ pc = "mix"
  /\ stateText' = IF Has("MASKING") THEN Remasked(InvMixColumns(stateText))
                  ELSE InvMixColumns(stateText)
  /\ roundCount' = roundCount - 1
  /\ Goto(IF roundCount - 1 = 0 /\ Has("SHUFFLING") THEN "shuffle" ELSE "shift")
  /\ UNCHANGED <<build, given, shuffling_array, Rng_rand, maskVars>>

Next ==
  \/ Call \/ generate_new_shuffling_array \/ Mask \/ add_round_key
  \/ inverse_shift_rows \/ inverse_subbytes \/ inverse_mix_coloumns

Spec == Init /\ [][Next]_vars
-----------------------------------------------------------------------------
TypeOK ==
  /\ build \in Builds /\ given \in Inputs \cup {NoBlock}
  /\ stateText \in Block /\ roundCount \in 0..Rounds
  /\ pc \in Pass /\ i \in Cell
  /\ shuffling_array \in [Cell -> Cell] /\ Rng_rand \in Block
  /\ mask_in \in Value /\ m_in_inv_col \in Column

\* However often it has been shuffled, and at every step of the shuffling,
\* shuffling_array holds each position once (generate_new_shuffling_array): a
\* pass that skips a byte or treats it twice decrypts to something else.
EachPositionOnce ==
  /\ \A j, k \in Cell : shuffling_array[j] = shuffling_array[k] => j = k
  /\ \A c \in Cell : \E k \in Cell : shuffling_array[k] = c

\* At the end the block is the decryption of the one the call began with,
\* FIPS-197's InvCipher computed in one go (aes_dec_128).
DecryptsAsStandard ==
  pc = "idle" /\ given # NoBlock => stateText = InvCipherOf(given)

\* What the block is masked with when a pass begins, and after a key is added.
Worn(c) ==
  IF ~Has("MASKING") \/ pc \in {"idle", "shuffle", "mask"} THEN Zero
  ELSE CASE pc = "key" /\ roundCount = Rounds -> m_out_inv_col[Row(c)]
         [] pc = "mix" -> m_in_inv_col[Row(c)]
         [] OTHER -> mask_in

WornAfterKey(c) ==
  IF ~Has("MASKING") \/ roundCount = 0 THEN Zero
  ELSE IF roundCount = Rounds THEN mask_in ELSE m_in_inv_col[Row(c)]

Done == {IF Has("SHUFFLING") THEN shuffling_array[k] ELSE k : k \in 0 .. i - 1}

\* The block without its masks, a pass that has begun taken as completed.
Bare ==
  IF pc = "key" /\ i > 0
  THEN [c \in Cell |->
          IF c \in Done THEN Xor(stateText[c], WornAfterKey(c))
          ELSE Xor(Xor(stateText[c], Worn(c)), Key[roundCount][c])]
  ELSE IF pc = "sub" /\ i > 0
  THEN [c \in Cell |-> IF c \in Done THEN Xor(stateText[c], Worn(c))
                       ELSE Sub(Xor(stateText[c], Worn(c)))]
  ELSE [c \in Cell |-> Xor(stateText[c], Worn(c))]

PlainAfterKey(r) == CASE r = Rounds -> "shift" [] r = 0 -> "idle" [] OTHER -> "mix"

PlainOp ==
  CASE pc = "key" /\ i > 0 -> PlainAfterKey(roundCount)
    [] pc = "sub" /\ i > 0 -> "key"
    [] pc = "mask" -> "key"
    [] pc = "shuffle" -> IF roundCount = 0 THEN "shift" ELSE "key"
    [] OTHER -> pc

PlainRound ==
  IF pc = "key" /\ i > 0 /\ roundCount = Rounds THEN roundCount - 1
  ELSE roundCount

Plain == INSTANCE InvCipher
           WITH block <- Bare, round <- PlainRound, op <- PlainOp

\* Every decryption is that of FIPS-197, in every order of the bytes and under
\* every mask, also after others (aes_dec_128 and all it calls).
ImplementsInvCipher == Plain!Spec
=============================================================================
