------------------------------ MODULE AesBlock ------------------------------
(***************************************************************************)
(* The blocks of AES_DEC_128.c and the transformations of the inverse      *)
(* cipher of FIPS-197 (docs/fips-197.pdf, 5.3).  A byte is an element of a *)
(* group with exclusive or; the S-box is any function on it and the mixing *)
(* of a column any linear one, which is all that masking relies on.        *)
(***************************************************************************)
EXTENDS Integers

CONSTANTS
  Rows, Columns,  \* 4 and 4
  Rounds,         \* 10
  Value,          \* the bytes
  Zero, Xor(_, _),
  Sub(_),         \* aes_invsbox
  MixColumn(_),   \* inverse_mix_coloumns, of one column
  Key,            \* roundkeyarr
  Inputs          \* the blocks that may be decrypted

N == Rows * Columns
Cell == 0 .. N - 1
Block == [Cell -> Value]
Column == [0 .. Rows - 1 -> Value]
Row(c) == c % Rows
Col(c) == c \div Rows

\* The lines of inverse_shift_rows: 13 from 9, 9 from 5, ..., 15 from 3.
ShiftedFrom(c) == Rows * ((Col(c) - Row(c)) % Columns) + Row(c)

AddRoundKey(s, r) == [c \in Cell |-> Xor(s[c], Key[r][c])]
InvSubBytes(s) == [c \in Cell |-> Sub(s[c])]
InvShiftRows(s) == [c \in Cell |-> s[ShiftedFrom(c)]]
ColumnOf(s, k) == [r \in 0 .. Rows - 1 |-> s[Rows * k + r]]
InvMixColumns(s) == [c \in Cell |-> MixColumn(ColumnOf(s, Col(c)))[Row(c)]]

\* FIPS-197's InvCipher: state[r] is the state after the addition of key r.
InvCipherOf(input) ==
  LET state[r \in 0..Rounds] ==
        IF r = Rounds THEN AddRoundKey(input, r)
        ELSE LET mixed == IF r + 1 = Rounds THEN state[r + 1]
                          ELSE InvMixColumns(state[r + 1])
             IN AddRoundKey(InvSubBytes(InvShiftRows(mixed)), r)
  IN state[0]

ASSUME ShapeAssumption ==
  Rows \in Nat \ {0} /\ Columns \in Nat \ {0, 1} /\ Rounds \in Nat \ {0}
ASSUME XorAssumption ==
  /\ Zero \in Value
  /\ \A a, b \in Value : Xor(a, b) \in Value /\ Xor(a, b) = Xor(b, a)
  /\ \A a \in Value : Xor(a, Zero) = a /\ Xor(a, a) = Zero
  /\ \A a, b, c \in Value : Xor(Xor(a, b), c) = Xor(a, Xor(b, c))
ASSUME SubAssumption == \A a \in Value : Sub(a) \in Value
ASSUME MixAssumption ==
  \A x, y \in Column :
    /\ MixColumn(x) \in Column
    /\ MixColumn([r \in 0 .. Rows - 1 |-> Xor(x[r], y[r])])
         = [r \in 0 .. Rows - 1 |-> Xor(MixColumn(x)[r], MixColumn(y)[r])]
ASSUME BlockAssumption ==
  Key \in [0..Rounds -> Block] /\ Inputs \subseteq Block
=============================================================================
