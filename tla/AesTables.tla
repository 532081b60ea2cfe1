------------------------------ MODULE AesTables ------------------------------
(***************************************************************************)
(* The tables and the arithmetic of AES_DEC_128.c, and what they amount to *)
(* by the definitions of Fips197.tla.                                      *)
(***************************************************************************)
EXTENDS Fips197

xtime(x) == Xor((x * 2) % 256, Bit(x, 7) * 27)

gf256mul(x, y) ==
  LET x2 == xtime(x)
      x4 == xtime(x2)
      x8 == xtime(x4)
      x16 == xtime(x8)
  IN Xor(Xor4(Bit(y, 0) * x, Bit(y, 1) * x2, Bit(y, 2) * x4, Bit(y, 3) * x8),
         Bit(y, 4) * x16)

\* The products of the macro with 9, 0b, 0d and 0e, of every byte.
Product ==
  [y \in {9, 11, 13, 14} |-> [x \in Byte |-> gf256mul(x, y)]]

aes_invsbox == [x \in Byte |-> <<
  82, 9, 106, 213, 48, 54, 165, 56, 191, 64, 163, 158, 129, 243, 215, 251,
  124, 227, 57, 130, 155, 47, 255, 135, 52, 142, 67, 68, 196, 222, 233, 203,
  84, 123, 148, 50, 166, 194, 35, 61, 238, 76, 149, 11, 66, 250, 195, 78,
  8, 46, 161, 102, 40, 217, 36, 178, 118, 91, 162, 73, 109, 139, 209, 37,
  114, 248, 246, 100, 134, 104, 152, 22, 212, 164, 92, 204, 93, 101, 182, 146,
  108, 112, 72, 80, 253, 237, 185, 218, 94, 21, 70, 87, 167, 141, 157, 132,
  144, 216, 171, 0, 140, 188, 211, 10, 247, 228, 88, 5, 184, 179, 69, 6,
  208, 44, 30, 143, 202, 63, 15, 2, 193, 175, 189, 3, 1, 19, 138, 107,
  58, 145, 17, 65, 79, 103, 220, 234, 151, 242, 207, 206, 240, 180, 230, 115,
  150, 172, 116, 34, 231, 173, 53, 133, 226, 249, 55, 232, 28, 117, 223, 110,
  71, 241, 26, 113, 29, 41, 197, 137, 111, 183, 98, 14, 170, 24, 190, 27,
  252, 86, 62, 75, 198, 210, 121, 32, 154, 219, 192, 254, 120, 205, 90, 244,
  31, 221, 168, 51, 136, 7, 199, 49, 177, 18, 16, 89, 39, 128, 236, 95,
  96, 81, 127, 169, 25, 181, 74, 13, 45, 229, 122, 159, 147, 201, 156, 239,
  160, 224, 59, 77, 174, 42, 245, 176, 200, 235, 187, 60, 131, 83, 153, 97,
  23, 43, 4, 126, 186, 119, 214, 38, 225, 105, 20, 99, 85, 33, 12, 125>>[x + 1]]

roundkeyarr == <<
  181, 46, 51, 177, 42, 113, 29, 203, 249, 167, 138, 215, 57, 216, 130, 8,
  213, 61, 3, 163, 255, 76, 30, 104, 6, 235, 148, 191, 63, 51, 22, 183,
  20, 122, 170, 214, 235, 54, 180, 190, 237, 221, 32, 1, 210, 238, 54, 182,
  56, 127, 228, 99, 211, 73, 80, 221, 62, 148, 112, 220, 236, 122, 70, 106,
  234, 37, 230, 173, 57, 108, 182, 112, 7, 248, 198, 172, 235, 130, 128, 198,
  233, 232, 82, 68, 208, 132, 228, 52, 215, 124, 34, 152, 60, 254, 162, 94,
  114, 210, 10, 175, 162, 86, 238, 155, 117, 42, 204, 3, 73, 212, 110, 93,
  122, 77, 70, 148, 216, 27, 168, 15, 173, 49, 100, 12, 228, 229, 10, 81,
  35, 42, 151, 253, 251, 49, 63, 242, 86, 0, 91, 254, 178, 229, 81, 175,
  225, 251, 238, 202, 26, 202, 209, 56, 76, 202, 138, 198, 254, 47, 219, 105,
  194, 66, 23, 113, 216, 136, 198, 73, 148, 66, 76, 143, 106, 109, 151, 230>>

rcon == <<1, 2, 4, 8, 16, 32, 64, 128, 27, 54>>
Word(bytes, w) ==
  <<bytes[4 * w + 1], bytes[4 * w + 2], bytes[4 * w + 3], bytes[4 * w + 4]>>

\* Compiled out: the table above is what it made of the key, word by word.
gen_roundkey(sboxarr) ==
  LET XorWords(v, w) ==
        <<Xor(v[1], w[1]), Xor(v[2], w[2]), Xor(v[3], w[3]), Xor(v[4], w[4])>>
      Turned(w, r) ==
        <<Xor(sboxarr[w[2]], rcon[r]), sboxarr[w[3]], sboxarr[w[4]], sboxarr[w[1]]>>
      expanded[w \in 3..43] ==
        IF w = 3 THEN SubSeq(roundkeyarr, 1, 16)
        ELSE LET k == expanded[w - 1]
                 last == Word(k, w - 1)
             IN k \o XorWords(IF w % 4 = 0 THEN Turned(last, w \div 4) ELSE last,
                              Word(k, w - 4))
  IN expanded[43]

ExpandedKey == gen_roundkey(SBox)

-----------------------------------------------------------------------------
(* What the tables are, for TLC to compute.                                *)

ASSUME XorFact ==
  \A x, y \in Byte :
    /\ Xor(x, y) \in Byte /\ Xor(x, 0) = x
    /\ \A b \in 0..7 : Bit(Xor(x, y), b) = (Bit(x, b) + Bit(y, b)) % 2
ASSUME BitFact ==
  /\ \A x \in Byte : \A b \in 0..7 : Bit(x, b) \in {0, 1}
  /\ \A x, y \in Byte : (\A b \in 0..7 : Bit(x, b) = Bit(y, b)) => x = y
ASSUME SBoxFact ==
  \A x \in Byte :
    /\ SBox[x] \in Byte /\ InvSBox[SBox[x]] = x
    /\ aes_invsbox[x] \in Byte /\ aes_invsbox[x] = InvSBox[x]
ASSUME KeyFact ==
  /\ roundkeyarr = ExpandedKey
  /\ \A i \in 1..176 : roundkeyarr[i] \in Byte
ASSUME ProductFact ==
  \A y \in {9, 11, 13, 14} : \A x \in Byte : Product[y][x] = Times[y][x]
ASSUME TimesFact ==
  /\ \A y \in {1, 2, 3, 9, 11, 13, 14} : \A x \in Byte : Times[y][x] \in Byte
  /\ \A y \in {9, 11, 13, 14} : \A w, x \in Byte :
       Times[y][Xor(w, x)] = Xor(Times[y][w], Times[y][x])

\* The two matrices, of one column that is 0 but for one byte.
ASSUME InverseFact ==
  \A row, k \in 0..3 : \A x \in Byte :
    LET part(i) ==
          Times[Circulant(InvMix, row, i)][Times[Circulant(Mix, i, k)][x]]
    IN Xor4(part(0), part(1), part(2), part(3)) = IF row = k THEN x ELSE 0
=============================================================================
