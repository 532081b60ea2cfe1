------------------------------- MODULE AesBytes -------------------------------
(***************************************************************************)
(* aes_dec_128 of the NORMAL and DUMMY build on the bytes themselves, with *)
(* the two passes that rearrange the block in place, one assignment of the *)
(* C code after the other.                                                 *)
(***************************************************************************)
EXTENDS AesTables

CONSTANTS
  Plains,  \* the blocks whose encryptions are decrypted
  Rands    \* what Rng_fill may leave in Rng_rand

ASSUME InputAssumption == Plains \subseteq Block /\ Rands \subseteq [Cell -> Byte]

InitialBlock == [c \in Cell |-> <<121, 159, 253, 51, 124, 142, 125, 154, 204, 208, 202, 197, 25, 22, 51, 77>>[c + 1]]
Encrypted == [p \in Plains |-> CipherOf(p, ExpandedKey)]

VARIABLES
  plain,            \* history: what the block is the encryption of
  stateText, roundCount,
  pc,               \* the pass that aes_dec_128 is in
  line,             \* its next assignment
  temp,             \* the bytes it has saved
  before,           \* history: the block as the pass began
  Rng_rand, completed_ops

vars == <<plain, stateText, roundCount, pc, line, temp, before, Rng_rand,
          completed_ops>>

NoBlock == <<>>
max_ops == 80

Init ==
  /\ plain = NoBlock
  /\ stateText = InitialBlock
  /\ roundCount = 0
  /\ pc = "idle" /\ line = 0
  /\ temp = [t \in 0..3 |-> 0] /\ before = stateText
  /\ Rng_rand \in Rands
  /\ completed_ops = 0

Goto(p) == pc' = p /\ line' = 0

Call ==
  /\ pc = "idle"
  /\ plain' \in Plains /\ stateText' = Encrypted[plain']
  /\ roundCount' = 10
  /\ Rng_rand' \in Rands
  /\ Goto("key")
  /\ UNCHANGED <<temp, before, completed_ops>>

add_round_key ==
  /\ pc = "key"
  /\ stateText' =
       [c \in Cell |-> Xor(stateText[c], roundkeyarr[16 * roundCount + c + 1])]
  /\ roundCount' = IF roundCount = 10 THEN 9 ELSE roundCount
  /\ Goto(CASE roundCount = 10 -> "shift"
            [] roundCount = 0 -> "idle"
            [] OTHER -> "mix")
  /\ UNCHANGED <<plain, temp, before, Rng_rand, completed_ops>>
-----------------------------------------------------------------------------
(* The passes in place.                                                    *)

\* Where each line stores a byte and takes it from; 16 to 19 are the temps.
ShiftLines_Swapped ==  \* mutant
  <<<<9, 5>>, <<13, 9>>, <<5, 1>>, <<1, 16>>,
    <<14, 6>>, <<10, 2>>, <<6, 17>>, <<2, 18>>,
    <<3, 7>>, <<7, 11>>, <<11, 15>>, <<15, 19>>>>
ShiftLines ==
  <<<<13, 9>>, <<9, 5>>, <<5, 1>>, <<1, 16>>,
    <<14, 6>>, <<10, 2>>, <<6, 17>>, <<2, 18>>,
    <<3, 7>>, <<7, 11>>, <<11, 15>>, <<15, 19>>>>

inverse_shift_rows ==
  LET to == ShiftLines[line + 1][1]
      from == ShiftLines[line + 1][2]
      bytes == [t \in 0..3 |-> stateText[<<13, 14, 10, 3>>[t + 1]]]
  IN /\ pc = "shift"
     /\ temp' = IF line = 0 THEN bytes ELSE temp
     /\ before' = IF line = 0 THEN stateText ELSE before
     /\ stateText' = [stateText EXCEPT
          ![to] = IF from < 16 THEN stateText[from] ELSE temp[from - 16]]
     /\ IF line < 11 THEN line' = line + 1 /\ UNCHANGED pc ELSE Goto("sub")
     /\ UNCHANGED <<plain, roundCount, Rng_rand, completed_ops>>

\* The coefficients of line index + row.
Coefficient(row, k) == <<14, 11, 13, 9>>[((k - row) % 4) + 1]

\* A line uses a saved byte for each that the lines before it have replaced.
Operand_Replaced(row, k) == stateText[line - row + k]  \* mutant
Operand(row, k) == IF k < row THEN temp[k] ELSE stateText[line - row + k]

inverse_mix_coloumns ==
  LET row == line % 4
      bytes == [t \in 0..3 |-> stateText[line + t]]
      product(k) == Product[Coefficient(row, k)][Operand(row, k)]
  IN /\ pc = "mix"
     /\ temp' = IF row = 0 THEN bytes ELSE temp
     /\ before' = IF line = 0 THEN stateText ELSE before
     /\ stateText' = [stateText EXCEPT ![line] =
          Xor4(product(0), product(1), product(2), product(3))]
     /\ IF line < 15
        THEN line' = line + 1 /\ UNCHANGED <<pc, roundCount>>
        ELSE Goto("shift") /\ roundCount' = roundCount - 1
     /\ UNCHANGED <<plain, Rng_rand, completed_ops>>
-----------------------------------------------------------------------------
(* The dummy look-ups of DUMMY go before the bytes, all of them: the loop  *)
(* that repeats them among the bytes finds its count used up.              *)

number_of_ops_NoRest(r) == Rng_rand[r] % 4  \* mutant
number_of_ops(r) ==
  IF r = 0 THEN max_ops - completed_ops ELSE Rng_rand[r] % 4

Performed_NoLimit(n) == completed_ops + n  \* mutant
Performed(n) ==
  IF completed_ops + n < max_ops THEN completed_ops + n ELSE max_ops

inverse_subbytes ==
  /\ pc = "sub"
  /\ completed_ops' = Performed(number_of_ops(roundCount))
  /\ stateText' = [c \in Cell |-> aes_invsbox[stateText[c]]]
  /\ Goto("key")
  /\ UNCHANGED <<plain, roundCount, temp, before, Rng_rand>>

Next ==
  \/ Call \/ add_round_key \/ inverse_shift_rows \/ inverse_mix_coloumns
  \/ inverse_subbytes

Spec == Init /\ [][Next]_vars
-----------------------------------------------------------------------------
TypeOK ==
  /\ plain \in Plains \cup {NoBlock}
  /\ stateText \in Block /\ before \in Block /\ roundCount \in 0..10
  /\ pc \in {"idle", "key", "shift", "sub", "mix"} /\ line \in 0..15
  /\ temp \in [0..3 -> Byte] /\ Rng_rand \in Rands
  /\ completed_ops \in 0..max_ops

\* What comes out is what was encrypted: the code's S-box, key table, macro
\* and passes undo the cipher of FIPS-197 with the key expanded anew
\* (aes_dec_128).
DecryptsEncrypted == pc = "idle" /\ plain # NoBlock => stateText = plain

\* DUMMY's 80 look-ups are all done by the end of the first decryption,
\* whatever the random numbers, and so none is left for any later one:
\* completed_ops is static (inverse_subbytes).
DummiesInFirstCall == pc = "idle" /\ plain # NoBlock => completed_ops = max_ops

InvSub(x) == InvSBox[x]
Plain ==
  INSTANCE InvCipher
    WITH Rows <- 4, Columns <- 4, Rounds <- 10, Value <- Byte, Zero <- 0,
         Sub <- InvSub, MixColumn <- InvMixed,
         Key <- [r \in 0..10 |-> [c \in Cell |-> ExpandedKey[16 * r + c + 1]]],
         Inputs <- {InitialBlock} \cup {Encrypted[p] : p \in Plains},
         block <- IF line = 0 THEN stateText ELSE before,
         round <- roundCount, op <- pc

\* The lines of inverse_shift_rows and inverse_mix_coloumns, each on what
\* those before it have left, amount to FIPS-197's transformation of the
\* whole block (and so do the table and the key of the other passes).
ImplementsInvCipher == Plain!Spec
=============================================================================
