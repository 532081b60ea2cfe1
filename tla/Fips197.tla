------------------------------- MODULE Fips197 -------------------------------
(***************************************************************************)
(* AES-128 by its definition (docs/fips-197.pdf, 4 and 5), to compare      *)
(* AES_DEC_128.c with: multiplication of polynomials, the S-box from       *)
(* inverses, and the cipher that aes_dec_128 undoes.                       *)
(***************************************************************************)
EXTENDS Integers, Sequences

Byte == 0..255

Bit(x, b) == (x \div 2^b) % 2

\* Exclusive or, of n bits, and a table of it.
XorBits[n \in 0..8, x \in Byte, y \in Byte] ==
  IF n = 0 THEN 0
  ELSE 2 * XorBits[n - 1, x \div 2, y \div 2] + ((x + y) % 2)
XorTable == [x \in Byte |-> [y \in Byte |-> XorBits[8, x, y]]]
Xor(x, y) == XorTable[x][y]
Xor4(a, b, c, d) == Xor(Xor(Xor(a, b), c), d)

\* 4.2: multiplication modulo x^8 + x^4 + x^3 + x + 1, highest power first.
Doubled(x) == IF 2 * x < 256 THEN 2 * x ELSE Xor(2 * x - 256, 27)
Times ==
  [x \in Byte |-> [y \in Byte |->
     LET sum[b \in 0..8] ==
           IF b = 8 THEN 0 ELSE Xor(Bit(y, b) * x, Doubled(sum[b + 1]))
     IN sum[0]]]

\* 5.1.1: the multiplicative inverse, and an affine transformation.
InverseOf(x) == IF x = 0 THEN 0 ELSE CHOOSE y \in Byte : Times[x][y] = 1
Affine(x) ==
  LET bit(b) == (Bit(99, b) + Bit(x, b) + Bit(x, (b + 4) % 8)
                  + Bit(x, (b + 5) % 8) + Bit(x, (b + 6) % 8)
                  + Bit(x, (b + 7) % 8)) % 2
      value[b \in 0..8] == IF b = 8 THEN 0 ELSE bit(b) + 2 * value[b + 1]
  IN value[0]
SBox == [x \in Byte |-> Affine(InverseOf(x))]
InvSBox == [y \in Byte |-> CHOOSE x \in Byte : SBox[x] = y]

\* A block, column after column.
Cell == 0..15
Block == [Cell -> Byte]

\* 5.1.3 and 5.3.3: a row of the product of a circulant matrix, given by its
\* first row, and the column that begins at cell c.
Circulant(first, row, k) == first[((k - row) % 4) + 1]
Mixed(first, s, c, row) ==
  Xor4(Times[Circulant(first, row, 0)][s[c]],
       Times[Circulant(first, row, 1)][s[c + 1]],
       Times[Circulant(first, row, 2)][s[c + 2]],
       Times[Circulant(first, row, 3)][s[c + 3]])
Mix == <<2, 3, 1, 1>>
InvMix == <<14, 11, 13, 9>>
InvMixed(column) == [row \in 0..3 |-> Mixed(InvMix, column, 0, row)]

AddRoundKey(s, key, r) == [c \in Cell |-> Xor(s[c], key[16 * r + c + 1])]
SubBytes(s) == [c \in Cell |-> SBox[s[c]]]
ShiftRows(s) == [c \in Cell |-> s[(c + 4 * (c % 4)) % 16]]
MixColumns(s) == [c \in Cell |-> Mixed(Mix, s, 4 * (c \div 4), c % 4)]

\* The block s; it is in Block, and to see that TLC computes all of it, once.
Computed(s) == CHOOSE t \in {s} : t \in Block

CipherOf(plain, key) ==
  LET state[r \in 0..10] ==
        IF r = 0 THEN AddRoundKey(plain, key, 0)
        ELSE LET s == ShiftRows(SubBytes(state[r - 1]))
             IN Computed(AddRoundKey(IF r = 10 THEN s ELSE MixColumns(s), key, r))
  IN state[10]
=============================================================================
