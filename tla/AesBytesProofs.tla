---------------------------- MODULE AesBytesProofs ----------------------------
(***************************************************************************)
(* aes_dec_128 on bytes undoes FIPS-197's cipher, for every block and all  *)
(* random numbers.  What the tables of the code are is computed by TLC,    *)
(* for every byte (the facts of AesTables.tla); the rest follows from them *)
(* here: that the inverse matrix undoes the other for columns of any bytes *)
(* (ColumnRestored), as multiplication is linear, and that the lines which *)
(* shift and mix in place amount to FIPS-197's transformations (ShiftLine, *)
(* MixLine), as a line says which bytes are done and what has been saved.  *)
(***************************************************************************)
EXTENDS AesBytes, TLAPS

-----------------------------------------------------------------------------
(* Bytes.                                                                  *)

LEMMA XorByte == \A x, y \in Byte : Xor(x, y) \in Byte
BY XorFact

LEMMA XorCommutes ==
  ASSUME NEW x \in Byte, NEW y \in Byte
  PROVE  Xor(x, y) = Xor(y, x)
<1>1. ASSUME NEW b \in 0..7 PROVE Bit(Xor(x, y), b) = Bit(Xor(y, x), b)
  <2>1. /\ Bit(Xor(x, y), b) = (Bit(x, b) + Bit(y, b)) % 2
        /\ Bit(Xor(y, x), b) = (Bit(y, b) + Bit(x, b)) % 2
    BY XorFact
  <2>2. Bit(x, b) \in {0, 1} /\ Bit(y, b) \in {0, 1}
    BY BitFact
  <2>. QED
    BY <2>1, <2>2
<1>. QED
  BY <1>1, XorByte, BitFact

LEMMA XorAssociates ==
  ASSUME NEW x \in Byte, NEW y \in Byte, NEW z \in Byte
  PROVE  Xor(Xor(x, y), z) = Xor(x, Xor(y, z))
<1>0. Xor(x, y) \in Byte /\ Xor(y, z) \in Byte
  BY XorByte
<1>1. ASSUME NEW b \in 0..7
      PROVE  Bit(Xor(Xor(x, y), z), b) = Bit(Xor(x, Xor(y, z)), b)
  <2>1. /\ Bit(x, b) \in {0, 1} /\ Bit(y, b) \in {0, 1} /\ Bit(z, b) \in {0, 1}
    BY BitFact
  <2>2. /\ Bit(Xor(Xor(x, y), z), b) = (((Bit(x, b) + Bit(y, b)) % 2) + Bit(z, b)) % 2
        /\ Bit(Xor(x, Xor(y, z)), b) = (Bit(x, b) + ((Bit(y, b) + Bit(z, b)) % 2)) % 2
    BY <1>0, XorFact
  <2>. QED
    BY <2>1, <2>2
<1>2. /\ Xor(Xor(x, y), z) \in Byte /\ Xor(x, Xor(y, z)) \in Byte
  BY <1>0, XorByte
<1>. QED
  BY <1>1, <1>2, BitFact

LEMMA XorCancels ==
  ASSUME NEW x \in Byte, NEW y \in Byte
  PROVE  Xor(Xor(x, y), y) = x
<1>0. Xor(x, y) \in Byte
  BY XorByte
<1>1. ASSUME NEW b \in 0..7
      PROVE  Bit(Xor(Xor(x, y), y), b) = Bit(x, b)
  <2>1. /\ Bit(x, b) \in {0, 1} /\ Bit(y, b) \in {0, 1}
    BY BitFact
  <2>2. Bit(Xor(Xor(x, y), y), b) = (((Bit(x, b) + Bit(y, b)) % 2) + Bit(y, b)) % 2
    BY <1>0, XorFact
  <2>. QED
    BY <2>1, <2>2
<1>. QED
  BY <1>0, <1>1, XorByte, BitFact

\* Two sums, summed.
LEMMA XorMedial ==
  ASSUME NEW w \in Byte, NEW x \in Byte, NEW y \in Byte, NEW z \in Byte
  PROVE  Xor(Xor(w, x), Xor(y, z)) = Xor(Xor(w, y), Xor(x, z))
<1>1. /\ Xor(w, x) \in Byte /\ Xor(y, z) \in Byte
      /\ Xor(w, y) \in Byte /\ Xor(x, z) \in Byte
      /\ Xor(x, y) \in Byte
  BY XorByte
<1>2. Xor(Xor(w, x), Xor(y, z)) = Xor(w, Xor(x, Xor(y, z)))
  BY <1>1, XorAssociates
<1>3. Xor(x, Xor(y, z)) = Xor(Xor(y, x), z)
  BY XorAssociates, XorCommutes
<1>4. Xor(Xor(y, x), z) = Xor(y, Xor(x, z))
  BY XorAssociates
<1>5. Xor(Xor(w, y), Xor(x, z)) = Xor(w, Xor(y, Xor(x, z)))
  BY <1>1, XorAssociates
<1>. QED
  BY <1>2, <1>3, <1>4, <1>5

\* Four bytes, their sum, and the sums of two fours.
Four == [0..3 -> Byte]
Sum(f) == Xor4(f[0], f[1], f[2], f[3])
Plus(f, g) == [i \in 0..3 |-> Xor(f[i], g[i])]

LEMMA SumByte == \A a, b, c, d \in Byte : Xor4(a, b, c, d) \in Byte
BY XorByte DEF Xor4

LEMMA SumOfSums ==
  ASSUME NEW f \in Four, NEW g \in Four
  PROVE  Plus(f, g) \in Four /\ Sum(Plus(f, g)) = Xor(Sum(f), Sum(g))
<1>1. /\ f[0] \in Byte /\ f[1] \in Byte /\ f[2] \in Byte /\ f[3] \in Byte
      /\ g[0] \in Byte /\ g[1] \in Byte /\ g[2] \in Byte /\ g[3] \in Byte
  BY DEF Four
<1>. DEFINE f1 == Xor(f[0], f[1])
            f2 == Xor(f1, f[2])
            g1 == Xor(g[0], g[1])
            g2 == Xor(g1, g[2])
<1>2. f1 \in Byte /\ g1 \in Byte
  BY <1>1, XorByte
<1>3. f2 \in Byte /\ g2 \in Byte
  BY <1>1, <1>2, XorByte
<1>4. Xor(Xor(f[0], g[0]), Xor(f[1], g[1])) = Xor(f1, g1)
  BY <1>1, XorMedial
<1>. HIDE DEF f1, g1
<1>5. Xor(Xor(f1, g1), Xor(f[2], g[2])) = Xor(f2, g2)
  BY <1>1, <1>2, XorMedial
<1>. HIDE DEF f2, g2
<1>6. Xor(Xor(f2, g2), Xor(f[3], g[3])) = Xor(Xor(f2, f[3]), Xor(g2, g[3]))
  BY <1>1, <1>3, XorMedial
<1>7. Plus(f, g) \in Four
  BY XorByte DEF Plus, Four
<1>8. Sum(Plus(f, g)) = Xor4(Xor(f[0], g[0]), Xor(f[1], g[1]),
                             Xor(f[2], g[2]), Xor(f[3], g[3]))
  BY DEF Sum, Plus
<1>. QED
  BY <1>4, <1>5, <1>6, <1>7, <1>8 DEF Sum, Xor4, f1, f2, g1, g2

\* A square of bytes may be summed by rows or by columns.
LEMMA SumTransposed ==
  ASSUME NEW c0 \in Four, NEW c1 \in Four, NEW c2 \in Four, NEW c3 \in Four
  PROVE  Xor4(Xor4(c0[0], c1[0], c2[0], c3[0]),
              Xor4(c0[1], c1[1], c2[1], c3[1]),
              Xor4(c0[2], c1[2], c2[2], c3[2]),
              Xor4(c0[3], c1[3], c2[3], c3[3]))
         = Xor4(Sum(c0), Sum(c1), Sum(c2), Sum(c3))
<1>. DEFINE d1 == Plus(c0, c1)
            d2 == Plus(d1, c2)
            d3 == Plus(d2, c3)
<1>1. d1 \in Four /\ Sum(d1) = Xor(Sum(c0), Sum(c1))
  BY SumOfSums
<1>2. d2 \in Four /\ Sum(d2) = Xor(Sum(d1), Sum(c2))
  BY <1>1, SumOfSums
<1>3. Sum(d3) = Xor(Sum(d2), Sum(c3))
  BY <1>2, SumOfSums
<1>4. \A i \in 0..3 : d3[i] = Xor4(c0[i], c1[i], c2[i], c3[i])
  BY DEF Plus, Xor4
<1>. HIDE DEF d1, d2, d3
<1>5. Sum(d3) = Xor4(Sum(c0), Sum(c1), Sum(c2), Sum(c3))
  BY <1>1, <1>2, <1>3 DEF Xor4
<1>. QED
  BY <1>4, <1>5 DEF Sum
-----------------------------------------------------------------------------
(* The transformations, each undone by its inverse.                        *)

LEMMA KeyByte ==
  \A r \in 0..10, c \in Cell : ExpandedKey[16 * r + c + 1] \in Byte
<1>1. \A r \in 0..10, c \in Cell : 16 * r + c + 1 \in 1..176
  BY DEF Cell
<1>. QED
  BY <1>1, KeyFact

LEMMA KeyRemoved ==
  ASSUME NEW s \in Block, NEW r \in 0..10
  PROVE  /\ AddRoundKey(s, ExpandedKey, r) \in Block
         /\ AddRoundKey(AddRoundKey(s, ExpandedKey, r), ExpandedKey, r) = s
<1>1. \A c \in Cell : s[c] \in Byte /\ ExpandedKey[16 * r + c + 1] \in Byte
  BY KeyByte DEF Block
<1>2. AddRoundKey(s, ExpandedKey, r) \in Block
  BY <1>1, XorByte DEF AddRoundKey, Block
<1>3. \A c \in Cell :
        AddRoundKey(AddRoundKey(s, ExpandedKey, r), ExpandedKey, r)[c] = s[c]
  BY <1>1, XorCancels DEF AddRoundKey
<1>4. AddRoundKey(AddRoundKey(s, ExpandedKey, r), ExpandedKey, r) \in Block
  BY <1>1, <1>2, XorByte DEF AddRoundKey, Block
<1>. QED
  BY <1>2, <1>3, <1>4 DEF Block

LEMMA BytesRestored ==
  ASSUME NEW s \in Block
  PROVE  SubBytes(s) \in Block /\ [c \in Cell |-> InvSBox[SubBytes(s)[c]]] = s
BY SBoxFact DEF SubBytes, Block

\* Where inverse_shift_rows takes the byte of cell c from.
From(c) == 4 * (((c \div 4) - (c % 4)) % 4) + (c % 4)

LEMMA Rotated ==
  ASSUME NEW c \in Cell
  PROVE  From(c) \in Cell /\ (From(c) + 4 * (From(c) % 4)) % 16 = c
<1>1. CASE c \in 0..3
  BY <1>1 DEF From, Cell
<1>2. CASE c \in 4..7
  BY <1>2 DEF From, Cell
<1>3. CASE c \in 8..11
  BY <1>3 DEF From, Cell
<1>4. CASE c \in 12..15
  BY <1>4 DEF From, Cell
<1>. QED
  BY <1>1, <1>2, <1>3, <1>4 DEF Cell

LEMMA RowsRestored ==
  ASSUME NEW s \in Block
  PROVE  ShiftRows(s) \in Block /\ [c \in Cell |-> ShiftRows(s)[From(c)]] = s
<1>1. \A c \in Cell : (c + 4 * (c % 4)) % 16 \in Cell
  BY DEF Cell
<1>2. ShiftRows(s) \in Block
  BY <1>1 DEF ShiftRows, Block
<1>3. \A c \in Cell : ShiftRows(s)[From(c)] = s[c]
  BY Rotated DEF ShiftRows
<1>. QED
  BY <1>2, <1>3 DEF Block

LEMMA ByteOfColumn ==
  \A c \in Cell : /\ c \div 4 \in 0..3 /\ c % 4 \in 0..3
                  /\ c = 4 * (c \div 4) + (c % 4)
BY DEF Cell

LEMMA CellOfColumn ==
  \A q, k \in 0..3 : /\ 4 * q + k \in Cell
                     /\ (4 * q + k) \div 4 = q /\ (4 * q + k) % 4 = k
BY DEF Cell

LEMMA Coefficients ==
  \A row, k \in 0..3 :
    /\ Circulant(Mix, row, k) \in {1, 2, 3}
    /\ Circulant(InvMix, row, k) \in {9, 11, 13, 14}
<1>1. \A row, k \in 0..3 : ((k - row) % 4) + 1 \in 1..4
  OBVIOUS
<1>2. \A i \in 1..4 : Mix[i] \in {1, 2, 3} /\ InvMix[i] \in {9, 11, 13, 14}
  BY DEF Mix, InvMix
<1>. QED
  BY <1>1, <1>2 DEF Circulant

LEMMA MixedByte ==
  ASSUME NEW s \in Block, NEW q \in 0..3, NEW row \in 0..3
  PROVE  /\ Mixed(Mix, s, 4 * q, row) \in Byte
         /\ Mixed(InvMix, s, 4 * q, row) \in Byte
<1>1. /\ s[4 * q] \in Byte /\ s[4 * q + 1] \in Byte
      /\ s[4 * q + 2] \in Byte /\ s[4 * q + 3] \in Byte
  BY DEF Block, Cell
<1>2. \A k \in 0..3, x \in Byte :
        /\ Times[Circulant(Mix, row, k)][x] \in Byte
        /\ Times[Circulant(InvMix, row, k)][x] \in Byte
  BY Coefficients, TimesFact
<1>3. ASSUME NEW first \in {Mix, InvMix} PROVE Mixed(first, s, 4 * q, row) \in Byte
  <2>1. \A k \in 0..3, x \in Byte : Times[Circulant(first, row, k)][x] \in Byte
    BY <1>2, <1>3
  <2>2. /\ Times[Circulant(first, row, 0)][s[4 * q]] \in Byte
        /\ Times[Circulant(first, row, 1)][s[4 * q + 1]] \in Byte
        /\ Times[Circulant(first, row, 2)][s[4 * q + 2]] \in Byte
        /\ Times[Circulant(first, row, 3)][s[4 * q + 3]] \in Byte
    BY ONLY <1>1, <2>1, SMT
  <2>. QED
    BY ONLY <2>2, SumByte DEF Mixed
<1>. QED
  BY <1>3

LEMMA Mixes ==
  ASSUME NEW s \in Block
  PROVE  MixColumns(s) \in Block
<1>1. \A c \in Cell : Mixed(Mix, s, 4 * (c \div 4), c % 4) \in Byte
  BY ByteOfColumn, MixedByte
<1>. QED
  BY <1>1 DEF MixColumns, Block

\* The coefficients of the inverse matrix.
Back == {9, 11, 13, 14}

LEMMA TimesSum ==
  ASSUME NEW y \in Back,
         NEW a \in Byte, NEW b \in Byte, NEW c \in Byte, NEW d \in Byte
  PROVE  Times[y][Xor4(a, b, c, d)]
         = Xor4(Times[y][a], Times[y][b], Times[y][c], Times[y][d])
<1>. DEFINE ab == Xor(a, b)
            abc == Xor(ab, c)
<1>1. ab \in Byte
  BY XorByte
<1>2. Times[y][ab] = Xor(Times[y][a], Times[y][b])
  BY TimesFact DEF Back
<1>. HIDE DEF ab
<1>3. abc \in Byte
  BY <1>1, XorByte
<1>4. Times[y][abc] = Xor(Times[y][ab], Times[y][c])
  BY <1>1, TimesFact DEF Back
<1>. HIDE DEF abc
<1>5. Times[y][Xor(abc, d)] = Xor(Times[y][abc], Times[y][d])
  BY <1>3, TimesFact DEF Back
<1>. QED
  BY <1>2, <1>4, <1>5 DEF Xor4, ab, abc

LEMMA OnlyOne ==
  ASSUME NEW x \in Four, NEW row \in 0..3
  PROVE  Xor4(IF row = 0 THEN x[0] ELSE 0, IF row = 1 THEN x[1] ELSE 0,
              IF row = 2 THEN x[2] ELSE 0, IF row = 3 THEN x[3] ELSE 0) = x[row]
<1>1. \A b \in Byte : Xor(b, 0) = b /\ Xor(0, b) = b
  <2>1. 0 \in Byte
    BY DEF Byte
  <2>. QED
    BY <2>1, XorFact, XorCommutes
<1>2. /\ x[0] \in Byte /\ x[1] \in Byte /\ x[2] \in Byte /\ x[3] \in Byte
      /\ 0 \in Byte
  BY DEF Four, Byte
<1>3. row = 0 \/ row = 1 \/ row = 2 \/ row = 3
  OBVIOUS
<1>. QED
  BY ONLY <1>1, <1>2, <1>3 DEF Xor4

LEMMA ColumnRestored ==
  ASSUME NEW s \in Block, NEW q \in 0..3, NEW row \in 0..3
  PROVE  Mixed(InvMix, MixColumns(s), 4 * q, row) = s[4 * q + row]
<1>. DEFINE x == [k \in 0..3 |-> s[4 * q + k]]
            t(i, k) == Times[Circulant(Mix, i, k)][x[k]]
            u(i, k) == Times[Circulant(InvMix, row, i)][t(i, k)]
            column(k) == [i \in 0..3 |-> u(i, k)]
<1>1. \A k \in 0..3 : x[k] \in Byte
  BY CellOfColumn DEF Block
<1>2. \A i, k \in 0..3 : t(i, k) \in Byte
  BY <1>1, Coefficients, TimesFact
<1>3. \A i, k \in 0..3 : u(i, k) \in Byte
  BY <1>2, Coefficients, TimesFact
<1>4. \A k \in 0..3 : column(k) \in Four
  BY <1>3 DEF Four
<1>5. \A k \in 0..3 : Sum(column(k)) = IF row = k THEN x[k] ELSE 0
  <2>. TAKE k \in 0..3
  <2>1. Xor4(u(0, k), u(1, k), u(2, k), u(3, k)) = IF row = k THEN x[k] ELSE 0
    BY <1>1, InverseFact
  <2>2. \A i \in 0..3 : column(k)[i] = u(i, k)
    OBVIOUS
  <2>. HIDE DEF u, column, x
  <2>. QED
    BY <2>1, <2>2 DEF Sum
<1>6. \A i \in 0..3 : MixColumns(s)[4 * q + i] = Xor4(t(i, 0), t(i, 1), t(i, 2), t(i, 3))
  <2>. TAKE i \in 0..3
  <2>1. MixColumns(s)[4 * q + i] = Mixed(Mix, s, 4 * q, i)
    BY CellOfColumn DEF MixColumns
  <2>2. /\ s[4 * q] = x[0] /\ s[4 * q + 1] = x[1]
        /\ s[4 * q + 2] = x[2] /\ s[4 * q + 3] = x[3]
    OBVIOUS
  <2>. QED
    BY <2>1, <2>2 DEF Mixed
<1>7. \A i \in 0..3 : Times[Circulant(InvMix, row, i)][MixColumns(s)[4 * q + i]]
                      = Xor4(u(i, 0), u(i, 1), u(i, 2), u(i, 3))
  <2>. TAKE i \in 0..3
  <2>. DEFINE y == Circulant(InvMix, row, i)
              a == t(i, 0)
              b == t(i, 1)
              c == t(i, 2)
              d == t(i, 3)
  <2>1. y \in Back
    BY Coefficients DEF Back
  <2>2. a \in Byte /\ b \in Byte /\ c \in Byte /\ d \in Byte
    BY <1>2
  <2>3. MixColumns(s)[4 * q + i] = Xor4(a, b, c, d)
    BY <1>6
  <2>4. /\ u(i, 0) = Times[y][a] /\ u(i, 1) = Times[y][b]
        /\ u(i, 2) = Times[y][c] /\ u(i, 3) = Times[y][d]
    OBVIOUS
  <2>5. Circulant(InvMix, row, i) = y
    OBVIOUS
  <2>. HIDE DEF y, a, b, c, d, u
  <2>6. Times[y][Xor4(a, b, c, d)]
        = Xor4(Times[y][a], Times[y][b], Times[y][c], Times[y][d])
    BY <2>1, <2>2, TimesSum
  <2>. QED
    BY <2>3, <2>4, <2>5, <2>6
<1>8. Mixed(InvMix, MixColumns(s), 4 * q, row)
      = Xor4(Xor4(column(0)[0], column(1)[0], column(2)[0], column(3)[0]),
             Xor4(column(0)[1], column(1)[1], column(2)[1], column(3)[1]),
             Xor4(column(0)[2], column(1)[2], column(2)[2], column(3)[2]),
             Xor4(column(0)[3], column(1)[3], column(2)[3], column(3)[3]))
  <2>1. 4 * q + 0 = 4 * q
    OBVIOUS
  <2>2. \A i, k \in 0..3 : column(k)[i] = u(i, k)
    OBVIOUS
  <2>. HIDE DEF u, column
  <2>. QED
    BY <1>7, <2>1, <2>2 DEF Mixed
<1>. HIDE DEF column
<1>9. Mixed(InvMix, MixColumns(s), 4 * q, row)
      = Xor4(Sum(column(0)), Sum(column(1)), Sum(column(2)), Sum(column(3)))
  BY <1>4, <1>8, SumTransposed
<1>10. x \in Four /\ x[row] = s[4 * q + row]
  BY <1>1 DEF Four
<1>. HIDE DEF x
<1>. QED
  BY <1>5, <1>9, <1>10, OnlyOne

LEMMA ColumnsRestored ==
  ASSUME NEW s \in Block
  PROVE  [c \in Cell |-> Mixed(InvMix, MixColumns(s), 4 * (c \div 4), c % 4)] = s
<1>1. \A c \in Cell : Mixed(InvMix, MixColumns(s), 4 * (c \div 4), c % 4) = s[c]
  BY ByteOfColumn, ColumnRestored
<1>. QED
  BY <1>1 DEF Block
-----------------------------------------------------------------------------
(* The rounds of the cipher: the function that CipherOf is defined by      *)
(* exists.                                                                 *)

OneRound(s, r) ==
  LET t == ShiftRows(SubBytes(s))
  IN Computed(AddRoundKey(IF r = 10 THEN t ELSE MixColumns(t), ExpandedKey, r))

LEMMA RoundMade ==
  ASSUME NEW s \in Block, NEW r \in 1..10
  PROVE  LET t == ShiftRows(SubBytes(s))
         IN /\ t \in Block /\ MixColumns(t) \in Block
            /\ OneRound(s, r) \in Block
            /\ OneRound(s, r)
               = AddRoundKey(IF r = 10 THEN t ELSE MixColumns(t), ExpandedKey, r)
<1>. DEFINE t == ShiftRows(SubBytes(s))
            u == IF r = 10 THEN t ELSE MixColumns(t)
            v == AddRoundKey(u, ExpandedKey, r)
<1>1. t \in Block
  BY BytesRestored, RowsRestored
<1>. HIDE DEF t
<1>2. MixColumns(t) \in Block
  BY <1>1, Mixes
<1>3. u \in Block
  BY <1>1, <1>2
<1>. HIDE DEF u
<1>4. v \in Block
  BY <1>3, KeyRemoved
<1>. HIDE DEF v
<1>5. Computed(v) = v
  BY <1>4 DEF Computed
<1>6. OneRound(s, r) = Computed(v)
  BY DEF OneRound, v, u, t
<1>7. v = AddRoundKey(IF r = 10 THEN t ELSE MixColumns(t), ExpandedKey, r)
  BY DEF v, u
<1>. QED
  BY <1>1, <1>2, <1>4, <1>5, <1>6, <1>7 DEF t

\* The first n of the rounds.
Rounds(f, p, n) ==
  f = [r \in 0..n |-> IF r = 0 THEN AddRoundKey(p, ExpandedKey, 0)
                      ELSE OneRound(f[r - 1], r)]
Reached(p, n) == \E f \in [0..n -> Block] : Rounds(f, p, n)

LEMMA FirstReached == ASSUME NEW p \in Block PROVE Reached(p, 0)
<1>. DEFINE f == [r \in 0..0 |-> AddRoundKey(p, ExpandedKey, 0)]
<1>1. AddRoundKey(p, ExpandedKey, 0) \in Block
  BY KeyRemoved
<1>2. f \in [0..0 -> Block]
  BY <1>1
<1>3. \A r \in 0..0 : r = 0
  OBVIOUS
<1>4. f = [r \in 0..0 |-> IF r = 0 THEN AddRoundKey(p, ExpandedKey, 0)
                          ELSE OneRound(f[r - 1], r)]
  BY <1>3, Zenon
<1>. QED
  BY <1>2, <1>4, Zenon DEF Reached, Rounds

LEMMA NextReached ==
  ASSUME NEW p \in Block, NEW n \in 0..9, Reached(p, n)
  PROVE  Reached(p, n + 1)
<1>1. PICK f \in [0..n -> Block] : Rounds(f, p, n)
  BY DEF Reached
<1>. DEFINE g == [r \in 0..n + 1 |-> IF r = n + 1 THEN OneRound(f[n], n + 1)
                                     ELSE f[r]]
<1>2. OneRound(f[n], n + 1) \in Block
  BY RoundMade
<1>3. g \in [0..n + 1 -> Block]
  BY <1>2
<1>4. ASSUME NEW r \in 0..n + 1
      PROVE  (IF r = n + 1 THEN OneRound(f[n], n + 1) ELSE f[r])
             = (IF r = 0 THEN AddRoundKey(p, ExpandedKey, 0)
                ELSE OneRound(g[r - 1], r))
  <2>1. r # 0 => g[r - 1] = f[r - 1]
    OBVIOUS
  <2>2. CASE r = n + 1
    <3>1. r # 0 /\ r - 1 = n
      BY <2>2
    <3>. HIDE DEF g
    <3>. QED
      BY <2>1, <2>2, <3>1
  <2>3. CASE r # n + 1
    <3>1. r \in 0..n
      BY <2>3
    <3>2. f[r] = IF r = 0 THEN AddRoundKey(p, ExpandedKey, 0)
                 ELSE OneRound(f[r - 1], r)
      BY <1>1, <3>1 DEF Rounds
    <3>. HIDE DEF g
    <3>. QED
      BY <2>1, <2>3, <3>2
  <2>. QED
    BY <2>2, <2>3
<1>5. g = [r \in 0..n + 1 |-> IF r = 0 THEN AddRoundKey(p, ExpandedKey, 0)
                              ELSE OneRound(g[r - 1], r)]
  BY <1>4, Zenon
<1>. QED
  BY <1>3, <1>5, Zenon DEF Reached, Rounds

\* The state of CipherOf, and what it is after each round.
States(p) ==
  CHOOSE f : f = [r \in 0..10 |->
                    IF r = 0 THEN AddRoundKey(p, ExpandedKey, 0)
                    ELSE OneRound(f[r - 1], r)]

LEMMA StatesAre ==
  ASSUME NEW p \in Block
  PROVE  /\ CipherOf(p, ExpandedKey) = States(p)[10]
         /\ \A r \in 0..10 : States(p)[r] \in Block
         /\ States(p)[0] = AddRoundKey(p, ExpandedKey, 0)
         /\ \A r \in 1..10 : States(p)[r] = OneRound(States(p)[r - 1], r)
<1>1. CipherOf(p, ExpandedKey) = States(p)[10]
  BY DEF CipherOf, States, OneRound
<1>2. \A n \in 0..9 : Reached(p, n) => Reached(p, n + 1)
  BY NextReached
<1>3. Reached(p, 10)
  <2>1. Reached(p, 1) /\ Reached(p, 2)
    BY <1>2, FirstReached
  <2>2. Reached(p, 3) /\ Reached(p, 4)
    BY <1>2, <2>1
  <2>3. Reached(p, 5) /\ Reached(p, 6)
    BY <1>2, <2>2
  <2>4. Reached(p, 7) /\ Reached(p, 8)
    BY <1>2, <2>3
  <2>. QED
    BY <1>2, <2>4
<1>4. PICK f \in [0..10 -> Block] :
        f = [r \in 0..10 |-> IF r = 0 THEN AddRoundKey(p, ExpandedKey, 0)
                             ELSE OneRound(f[r - 1], r)]
  BY <1>3 DEF Reached, Rounds
<1>. DEFINE E == States(p)
<1>5. E = [r \in 0..10 |-> IF r = 0 THEN AddRoundKey(p, ExpandedKey, 0)
                           ELSE OneRound(E[r - 1], r)]
  BY <1>4, Zenon DEF States
<1>. HIDE DEF E
<1>6. /\ E[0] = AddRoundKey(p, ExpandedKey, 0)
      /\ \A r \in 1..10 : E[r] = OneRound(E[r - 1], r)
  BY <1>5
<1>7. E[0] \in Block
  BY <1>6, KeyRemoved
<1>8. \A r \in 1..10 : E[r - 1] \in Block => E[r] \in Block
  BY <1>6, RoundMade
<1>9. \A r \in 0..10 : E[r] \in Block
  <2>1. E[1] \in Block /\ E[2] \in Block
    BY <1>7, <1>8
  <2>2. E[3] \in Block /\ E[4] \in Block
    BY <1>8, <2>1
  <2>3. E[5] \in Block /\ E[6] \in Block
    BY <1>8, <2>2
  <2>4. E[7] \in Block /\ E[8] \in Block
    BY <1>8, <2>3
  <2>5. E[9] \in Block /\ E[10] \in Block
    BY <1>8, <2>4
  <2>. QED
    BY <1>7, <2>1, <2>2, <2>3, <2>4, <2>5
<1>. QED
  BY <1>1, <1>6, <1>9 DEF E
-----------------------------------------------------------------------------
(* The invariant.                                                          *)

\* Which line of inverse_shift_rows, from 1, stores cell c; 13 if none does.
LineOf(c) == <<13, 4, 8, 9, 13, 3, 7, 10, 13, 2, 6, 11, 13, 1, 5, 12>>[c + 1]

\* Where the passes, and the lines of those in place, can be.
Placed ==
  /\ pc \in {"idle", "key", "sub"} => line = 0
  /\ pc = "idle" => roundCount = 0
  /\ pc \in {"shift", "sub"} => roundCount \in 0..9
  /\ pc = "mix" => roundCount \in 1..9
  /\ pc = "shift" => line \in 0..11

\* What the lines before this one have left.
Shifting ==
  pc = "shift" /\ line > 0 =>
    /\ \A t \in 0..3 : temp[t] = before[<<13, 14, 10, 3>>[t + 1]]
    /\ stateText = [c \in Cell |-> IF LineOf(c) <= line THEN before[From(c)]
                                   ELSE before[c]]
Mixing ==
  pc = "mix" =>
    /\ line % 4 > 0 => \A t \in 0..3 : temp[t] = before[4 * (line \div 4) + t]
    /\ line > 0 =>
         stateText = [c \in Cell |->
           IF c < line THEN Mixed(InvMix, before, 4 * (c \div 4), c % 4)
           ELSE before[c]]

\* The first pass through the S-box does all that is left of the look-ups.
Counted ==
  plain # NoBlock /\ (pc = "idle" \/ (pc = "key" /\ roundCount = 0))
    => completed_ops = max_ops

\* The block a pass began with is one that the cipher went through.
Pass == IF line = 0 THEN stateText ELSE before
Undone(E) ==
  CASE pc = "key" -> E[roundCount]
    [] pc = "shift" -> ShiftRows(SubBytes(E[roundCount]))
    [] pc = "sub" -> SubBytes(E[roundCount])
    [] pc = "mix" -> MixColumns(ShiftRows(SubBytes(E[roundCount - 1])))
    [] pc = "idle" -> plain

Underway == plain # NoBlock => Pass = Undone(States(plain))

\* aes_dec_128 has gone wherever the lines and look-ups before have led it.
IInv == TypeOK /\ Placed /\ Shifting /\ Mixing /\ Counted

LEMMA LineTable ==
  ASSUME NEW n \in 0..11
  PROVE  LET to == ShiftLines[n + 1][1]
             from == ShiftLines[n + 1][2]
         IN /\ to \in Cell /\ LineOf(to) = n + 1
            /\ \A c \in Cell : LineOf(c) = n + 1 => c = to
            /\ from < 16 => from \in Cell /\ LineOf(from) > n /\ From(to) = from
            /\ from >= 16 => /\ n > 0 /\ from - 16 \in 0..3
                             /\ <<13, 14, 10, 3>>[from - 16 + 1] = From(to)
<1>1. CASE n \in 0..2
  BY <1>1 DEF ShiftLines, LineOf, From, Cell
<1>2. CASE n \in 3..5
  <2>1. CASE n = 3
    <3>1. ShiftLines[4][1] = 1 /\ ShiftLines[4][2] = 16
      BY DEF ShiftLines
    <3>2. LineOf(1) = 4 /\ \A c \in Cell : LineOf(c) = 4 => c = 1
      BY DEF LineOf, Cell
    <3>3. From(1) = 13
      <4>1. 1 \div 4 = 0 /\ 1 % 4 = 1
        OBVIOUS
      <4>2. \A k \in 0..3 : (0 - k) % 4 = (4 - k) % 4
        OBVIOUS
      <4>. QED
        BY <4>1, <4>2, 1 \in 0..3, (4 - 1) % 4 = 3 DEF From
    <3>. QED
      BY <2>1, <3>1, <3>2, <3>3 DEF Cell
  <2>2. CASE n \in 4..5
    BY <2>2 DEF ShiftLines, LineOf, From, Cell
  <2>. QED
    BY <1>2, <2>1, <2>2
<1>3. CASE n \in 6..8
  BY <1>3 DEF ShiftLines, LineOf, From, Cell
<1>4. CASE n \in 9..11
  BY <1>4 DEF ShiftLines, LineOf, From, Cell
<1>5. n \in 0..2 \/ n \in 3..5 \/ n \in 6..8 \/ n \in 9..11
  OBVIOUS
<1>. QED
  BY ONLY <1>1, <1>2, <1>3, <1>4, <1>5, Zenon

LEMMA LineNumbers ==
  \A c \in Cell : LineOf(c) \in 1..13 /\ (LineOf(c) > 12 => From(c) = c)
<1>1. \A c \in 0..7 : LineOf(c) \in 1..13 /\ (LineOf(c) > 12 => From(c) = c)
  BY DEF LineOf, From
<1>2. \A c \in 8..15 : LineOf(c) \in 1..13 /\ (LineOf(c) > 12 => From(c) = c)
  BY DEF LineOf, From
<1>. QED
  BY <1>1, <1>2 DEF Cell

LEMMA EncryptedType ==
  ASSUME NEW p \in Plains
  PROVE  /\ p \in Block /\ Encrypted[p] \in Block
         /\ Encrypted[p] = States(p)[10]
<1>1. p \in Block
  BY InputAssumption
<1>2. Encrypted[p] = CipherOf(p, ExpandedKey)
  BY DEF Encrypted
<1>. QED
  BY <1>1, <1>2, StatesAre

\* A line of inverse_shift_rows, in terms of the block the pass began with.
LEMMA ShiftLine ==
  ASSUME IInv, inverse_shift_rows
  PROVE  /\ before' = Pass /\ Pass \in Block
         /\ temp' \in [0..3 -> Byte]
         /\ \A t \in 0..3 : temp'[t] = Pass[<<13, 14, 10, 3>>[t + 1]]
         /\ stateText' = [c \in Cell |-> IF LineOf(c) <= line + 1
                                         THEN Pass[From(c)] ELSE Pass[c]]
<1>. DEFINE to == ShiftLines[line + 1][1]
            from == ShiftLines[line + 1][2]
            B == Pass
            moved == IF from < 16 THEN stateText[from] ELSE temp[from - 16]
            saved(t) == <<13, 14, 10, 3>>[t + 1]
<1>1. pc = "shift" /\ line \in 0..11
  BY DEF IInv, Placed, inverse_shift_rows
<1>2. before' = B /\ B \in Block
  BY <1>1 DEF inverse_shift_rows, Pass, IInv, TypeOK
<1>3. stateText \in Block /\ temp \in [0..3 -> Byte]
  BY DEF IInv, TypeOK
<1>4. stateText = [c \in Cell |-> IF LineOf(c) <= line THEN B[From(c)] ELSE B[c]]
  <2>1. CASE line = 0
    <3>1. \A c \in Cell : ~(LineOf(c) <= 0)
      BY LineNumbers
    <3>2. B = stateText
      BY <2>1 DEF Pass
    <3>. QED
      BY <1>3, <2>1, <3>1, <3>2 DEF Block
  <2>2. CASE line > 0
    BY <1>1, <2>2 DEF IInv, Shifting, Pass
  <2>. QED
    BY <1>1, <2>1, <2>2
<1>5. \A t \in 0..3 : saved(t) \in Cell
  BY DEF Cell
<1>6. /\ temp' \in [0..3 -> Byte]
      /\ \A t \in 0..3 : temp'[t] = B[saved(t)]
  <2>1. CASE line = 0
    <3>1. temp' = [t \in 0..3 |-> stateText[saved(t)]] /\ B = stateText
      BY <2>1 DEF inverse_shift_rows, Pass
    <3>. HIDE DEF saved, B
    <3>. QED
      BY <1>3, <1>5, <3>1 DEF Block
  <2>2. CASE line > 0
    <3>1. temp' = temp /\ B = before
      BY <1>1, <2>2 DEF inverse_shift_rows, Pass
    <3>2. \A t \in 0..3 : temp[t] = before[saved(t)]
      BY <1>1, <2>2 DEF IInv, Shifting
    <3>. QED
      BY <1>3, <3>1, <3>2
  <2>. QED
    BY <1>1, <2>1, <2>2
<1>7. stateText' = [stateText EXCEPT ![to] = moved]
  BY DEF inverse_shift_rows
<1>8. /\ to \in Cell /\ LineOf(to) = line + 1
      /\ \A c \in Cell : LineOf(c) = line + 1 => c = to
      /\ from < 16 => from \in Cell /\ LineOf(from) > line /\ From(to) = from
      /\ from >= 16 => line > 0 /\ from - 16 \in 0..3 /\ saved(from - 16) = From(to)
      /\ from < 16 \/ from >= 16
  <2>1. from \in Int
    BY <1>1 DEF ShiftLines
  <2>. QED
    BY <1>1, <2>1, LineTable
<1>9. moved = B[From(to)]
  <2>1. CASE from < 16
    <3>1. ~(LineOf(from) <= line)
      BY <1>1, <1>8, <2>1, LineNumbers
    <3>. HIDE DEF B, to, from
    <3>. QED
      BY <1>4, <1>8, <2>1, <3>1
  <2>2. CASE ~(from < 16)
    <3>1. from >= 16 /\ line # 0
      BY <1>1, <1>8, <2>2
    <3>2. temp' = temp
      BY <3>1 DEF inverse_shift_rows
    <3>. HIDE DEF B, to, from, saved
    <3>. QED
      BY <1>6, <1>8, <2>2, <3>1, <3>2
  <2>. QED
    BY <2>1, <2>2
<1>10. ASSUME NEW c \in Cell
       PROVE  stateText'[c] = IF LineOf(c) <= line + 1 THEN B[From(c)] ELSE B[c]
  <2>. HIDE DEF B, to, from, moved
  <2>1. CASE c = to
    <3>1. stateText'[c] = moved /\ LineOf(c) <= line + 1
      BY <1>1, <1>3, <1>7, <1>8, <2>1 DEF Block
    <3>. QED
      BY <1>9, <2>1, <3>1
  <2>2. CASE c # to
    <3>1. stateText'[c] = stateText[c]
      BY <1>3, <1>7, <2>2 DEF Block
    <3>2. LineOf(c) <= line + 1 <=> LineOf(c) <= line
      BY <1>1, <1>8, <2>2, LineNumbers
    <3>. QED
      BY <1>4, <3>1, <3>2
  <2>. QED
    BY <2>1, <2>2
<1>11. stateText' = [c \in Cell |-> stateText'[c]]
  BY <1>3, <1>7 DEF Block
<1>. HIDE DEF B
<1>12. stateText' = [c \in Cell |-> IF LineOf(c) <= line + 1 THEN B[From(c)] ELSE B[c]]
  BY <1>10, <1>11
<1>. QED
  BY <1>2, <1>6, <1>12 DEF B

\* All of them, then.
LEMMA Shifted ==
  ASSUME NEW s \in Block
  PROVE  /\ \A n \in 0..12 :
              [c \in Cell |-> IF LineOf(c) <= n THEN s[From(c)] ELSE s[c]] \in Block
         /\ [c \in Cell |-> IF LineOf(c) <= 12 THEN s[From(c)] ELSE s[c]]
            = [c \in Cell |-> s[From(c)]]
<1>1. \A c \in Cell : From(c) \in Cell
  BY Rotated
<1>2. \A c \in Cell : ~(LineOf(c) <= 12) => From(c) = c
  BY LineNumbers
<1>. QED
  BY <1>1, <1>2 DEF Block

\* A line of inverse_mix_coloumns, likewise.
LEMMA MixLine ==
  ASSUME IInv, inverse_mix_coloumns
  PROVE  /\ before' = Pass /\ Pass \in Block
         /\ temp' \in [0..3 -> Byte]
         /\ \A t \in 0..3 : temp'[t] = Pass[4 * (line \div 4) + t]
         /\ stateText' =
              [c \in Cell |->
                 IF c < line + 1 THEN Mixed(InvMix, Pass, 4 * (c \div 4), c % 4)
                 ELSE Pass[c]]
<1>. DEFINE row == line % 4
            q == line \div 4
            B == Pass
            operand(k) == Operand(row, k)
            product(k) == Product[Coefficient(row, k)][operand(k)]
            mixed == Xor4(product(0), product(1), product(2), product(3))
<1>1. pc = "mix" /\ line \in Cell
  BY DEF IInv, TypeOK, Cell, inverse_mix_coloumns
<1>2. before' = B /\ B \in Block
  BY <1>1 DEF inverse_mix_coloumns, Pass, IInv, TypeOK
<1>3. stateText \in Block /\ temp \in [0..3 -> Byte]
  BY DEF IInv, TypeOK
<1>4. stateText = [c \in Cell |->
                     IF c < line THEN Mixed(InvMix, B, 4 * (c \div 4), c % 4)
                     ELSE B[c]]
  <2>1. CASE line = 0
    <3>1. \A c \in Cell : ~(c < 0)
      BY DEF Cell
    <3>2. B = stateText
      BY <2>1 DEF Pass
    <3>. QED
      BY <1>3, <2>1, <3>1, <3>2 DEF Block
  <2>2. CASE line > 0
    BY <1>1, <2>2 DEF IInv, Mixing, Pass
  <2>. QED
    BY <1>1, <2>1, <2>2 DEF Cell
<1>5. q \in 0..3 /\ row \in 0..3 /\ line = 4 * q + row
  BY <1>1, ByteOfColumn
<1>. HIDE DEF B
<1>6. \A t \in 0..3 : line - row + t = 4 * q + t /\ 4 * q + t \in Cell
  <2>. HIDE DEF q, row
  <2>. QED
    BY <1>5 DEF Cell
\* What the lines of this column have not reached is as it was.
<1>7. \A t \in 0..3 : t >= row => stateText[line - row + t] = B[4 * q + t]
  <2>. HIDE DEF q, row
  <2>1. \A t \in 0..3 : t >= row => ~(4 * q + t < line)
    BY <1>5
  <2>. QED
    BY <1>4, <1>6, <2>1
<1>8. /\ temp' \in [0..3 -> Byte]
      /\ \A t \in 0..3 : temp'[t] = B[4 * q + t]
  <2>1. CASE row = 0
    <3>1. temp' = [t \in 0..3 |-> stateText[line + t]]
      BY <2>1 DEF inverse_mix_coloumns
    <3>2. \A t \in 0..3 : line + t = 4 * q + t /\ line - row + t = 4 * q + t
      <4>. HIDE DEF q, row
      <4>. QED
        BY <1>5, <2>1
    <3>3. \A t \in 0..3 : stateText[line + t] = B[4 * q + t]
      <4>. HIDE DEF q, row
      <4>. QED
        BY <1>7, <2>1, <3>2
    <3>4. \A t \in 0..3 : B[4 * q + t] \in Byte
      <4>. HIDE DEF q
      <4>. QED
        BY <1>2, <1>6 DEF Block
    <3>. HIDE DEF q
    <3>. QED
      BY <3>1, <3>3, <3>4
  <2>2. CASE row # 0
    <3>1. temp' = temp /\ row > 0 /\ line > 0
      BY <1>1, <1>5, <2>2 DEF inverse_mix_coloumns, Cell
    <3>2. \A t \in 0..3 : temp[t] = before[4 * q + t]
      BY <1>1, <3>1 DEF IInv, Mixing
    <3>3. B = before
      BY <3>1 DEF B, Pass
    <3>. HIDE DEF q
    <3>. QED
      BY <1>3, <3>1, <3>2, <3>3
  <2>. QED
    BY <2>1, <2>2
<1>9. \A k \in 0..3 : operand(k) = B[4 * q + k] /\ operand(k) \in Byte
  <2>. TAKE k \in 0..3
  <2>1. CASE k < row
    <3>1. temp' = temp
      BY <1>5, <2>1 DEF inverse_mix_coloumns
    <3>. QED
      BY <1>8, <2>1, <3>1 DEF Operand
  <2>2. CASE ~(k < row)
    <3>1. operand(k) = stateText[line - row + k]
      BY <2>2 DEF Operand
    <3>2. k >= row
      BY <1>5, <2>2
    <3>3. B[4 * q + k] \in Byte
      BY <1>2, <1>6 DEF Block
    <3>. QED
      BY <1>7, <3>1, <3>2, <3>3
  <2>. QED
    BY <2>1, <2>2
<1>10. \A k \in 0..3 : product(k) = Times[Circulant(InvMix, row, k)][B[4 * q + k]]
  <2>. TAKE k \in 0..3
  <2>1. Coefficient(row, k) = Circulant(InvMix, row, k)
    BY DEF Coefficient, Circulant, InvMix
  <2>2. Circulant(InvMix, row, k) \in {9, 11, 13, 14}
    BY <1>5, Coefficients
  <2>. HIDE DEF operand, row, q
  <2>. QED
    BY <1>9, <2>1, <2>2, ProductFact
<1>11. mixed = Mixed(InvMix, B, 4 * q, row)
  <2>1. 4 * q + 0 = 4 * q
    BY <1>5
  <2>. HIDE DEF product, q, row
  <2>. QED
    BY <1>10, <2>1 DEF Mixed
<1>12. stateText' = [stateText EXCEPT ![line] = mixed]
  BY DEF inverse_mix_coloumns
<1>13. ASSUME NEW c \in Cell
       PROVE  stateText'[c] = IF c < line + 1
                              THEN Mixed(InvMix, B, 4 * (c \div 4), c % 4)
                              ELSE B[c]
  <2>. HIDE DEF mixed
  <2>1. CASE c = line
    <3>1. stateText'[c] = mixed /\ c < line + 1
      BY <1>1, <1>3, <1>12, <2>1 DEF Block, Cell
    <3>. QED
      BY <1>11, <2>1, <3>1
  <2>2. CASE c # line
    <3>1. stateText'[c] = stateText[c]
      BY <1>3, <1>12, <2>2 DEF Block
    <3>2. c < line + 1 <=> c < line
      BY <1>1, <2>2 DEF Cell
    <3>. QED
      BY <1>4, <3>1, <3>2
  <2>. QED
    BY <2>1, <2>2
<1>14. stateText' = [c \in Cell |-> stateText'[c]]
  BY <1>3, <1>12 DEF Block
<1>15. stateText' = [c \in Cell |->
                       IF c < line + 1 THEN Mixed(InvMix, B, 4 * (c \div 4), c % 4)
                       ELSE B[c]]
  BY <1>13, <1>14
<1>. QED
  BY <1>2, <1>8, <1>15 DEF B

LEMMA MixedSoFar ==
  ASSUME NEW s \in Block
  PROVE  /\ \A n \in 0..16 :
              [c \in Cell |-> IF c < n THEN Mixed(InvMix, s, 4 * (c \div 4), c % 4)
                              ELSE s[c]] \in Block
         /\ [c \in Cell |-> IF c < 16 THEN Mixed(InvMix, s, 4 * (c \div 4), c % 4)
                            ELSE s[c]]
            = [c \in Cell |-> Mixed(InvMix, s, 4 * (c \div 4), c % 4)]
<1>1. \A c \in Cell : Mixed(InvMix, s, 4 * (c \div 4), c % 4) \in Byte
  BY ByteOfColumn, MixedByte
<1>2. \A c \in Cell : c < 16
  BY DEF Cell
<1>. QED
  BY <1>1, <1>2 DEF Block
-----------------------------------------------------------------------------
(* The invariant holds.                                                    *)

\* The number of look-ups so far, before and after those of a round.
LEMMA Performing ==
  ASSUME TypeOK, pc = "sub", roundCount \in 0..9
  PROVE  /\ Performed(number_of_ops(roundCount)) \in 0..max_ops
         /\ roundCount = 0 => Performed(number_of_ops(roundCount)) = max_ops
<1>1. Rng_rand[roundCount] \in Byte
  BY InputAssumption DEF TypeOK, Cell
<1>2. Rng_rand[roundCount] % 4 \in 0..3
  BY <1>1 DEF Byte
<1>3. completed_ops \in 0..80
  BY DEF TypeOK, max_ops
<1>. QED
  BY <1>2, <1>3 DEF Performed, number_of_ops, max_ops

LEMMA ZeroByte == 0 \in Byte
BY DEF Byte

LEMMA InitInv == Init => IInv
<1>. SUFFICES ASSUME Init PROVE IInv
  OBVIOUS
<1>1. InitialBlock \in Block
  <2>1. \A c \in Cell : c + 1 \in 1..16
    BY DEF Cell
  <2>2. \A i \in 1..16 : <<121, 159, 253, 51, 124, 142, 125, 154, 204, 208, 202,
                           197, 25, 22, 51, 77>>[i] \in Byte
    BY DEF Byte
  <2>. QED
    BY <2>1, <2>2 DEF InitialBlock, Block
<1>2. TypeOK
  BY <1>1, ZeroByte DEF Init, TypeOK, max_ops
<1>. QED
  BY <1>2 DEF Init, IInv, Placed, Shifting, Mixing, Counted

LEMMA CallInv == ASSUME IInv, Call PROVE IInv'
<1>. USE DEF Call, Goto
<1>1. TypeOK'
  BY EncryptedType DEF IInv, TypeOK
<1>. QED
  BY <1>1 DEF IInv, Placed, Shifting, Mixing, Counted

LEMMA KeyLine ==
  ASSUME IInv, add_round_key
  PROVE  /\ Pass = stateText /\ Pass' = stateText' /\ stateText' \in Block
         /\ roundCount \in 0..10
         /\ stateText' = AddRoundKey(stateText, ExpandedKey, roundCount)
<1>1. line = 0 /\ line' = 0 /\ stateText \in Block /\ roundCount \in 0..10
  BY DEF IInv, Placed, TypeOK, add_round_key, Goto
<1>2. stateText' = AddRoundKey(stateText, ExpandedKey, roundCount)
  BY KeyFact DEF add_round_key, AddRoundKey
<1>. QED
  BY <1>1, <1>2, KeyRemoved DEF Pass

LEMMA KeyInv == ASSUME IInv, add_round_key PROVE IInv'
<1>. USE DEF add_round_key, Goto
<1>1. TypeOK'
  BY KeyLine DEF IInv, TypeOK
<1>2. Placed'
  BY DEF IInv, TypeOK, Placed
<1>3. Counted'
  BY DEF IInv, Counted
<1>. QED
  BY <1>1, <1>2, <1>3 DEF IInv, Shifting, Mixing, Placed

LEMMA ShiftInv == ASSUME IInv, inverse_shift_rows PROVE IInv'
<1>. USE DEF inverse_shift_rows, Goto
<1>1. line \in 0..11 /\ pc = "shift" /\ roundCount \in 0..9
  BY DEF IInv, Placed
<1>2. stateText' \in Block
  <2>. DEFINE n == line + 1
  <2>1. n \in 0..12
    BY <1>1
  <2>2. stateText' = [c \in Cell |-> IF LineOf(c) <= n THEN Pass[From(c)] ELSE Pass[c]]
    BY ShiftLine
  <2>. HIDE DEF n, inverse_shift_rows
  <2>3. \A m \in 0..12 : [c \in Cell |-> IF LineOf(c) <= m THEN Pass[From(c)]
                                          ELSE Pass[c]] \in Block
    BY ShiftLine, Shifted
  <2>. QED
    BY <2>1, <2>2, <2>3, Zenon
<1>3. TypeOK'
  BY <1>1, <1>2, ShiftLine DEF IInv, TypeOK
<1>4. Placed' /\ Counted' /\ Mixing'
  BY <1>1 DEF Placed, Counted, Mixing
<1>5. Shifting'
  <2>1. CASE line < 11
    <3>1. line' = line + 1 /\ line' > 0 /\ Pass = before'
      BY <1>1, <2>1, ShiftLine
    <3>. QED
      BY <3>1, ShiftLine DEF Shifting
  <2>2. CASE ~(line < 11)
    BY <2>2 DEF Shifting
  <2>. QED
    BY <2>1, <2>2
<1>. QED
  BY <1>3, <1>4, <1>5 DEF IInv

LEMMA MixInv == ASSUME IInv, inverse_mix_coloumns PROVE IInv'
<1>. USE DEF inverse_mix_coloumns, Goto
<1>1. line \in 0..15 /\ pc = "mix" /\ roundCount \in 1..9
  BY DEF IInv, Placed, TypeOK
<1>2. stateText' \in Block
  <2>. DEFINE n == line + 1
  <2>1. n \in 0..16
    BY <1>1
  <2>2. stateText' = [c \in Cell |->
                        IF c < n THEN Mixed(InvMix, Pass, 4 * (c \div 4), c % 4)
                        ELSE Pass[c]]
    BY MixLine
  <2>. HIDE DEF n, inverse_mix_coloumns
  <2>3. \A m \in 0..16 : [c \in Cell |->
                           IF c < m THEN Mixed(InvMix, Pass, 4 * (c \div 4), c % 4)
                           ELSE Pass[c]] \in Block
    BY MixLine, MixedSoFar
  <2>. QED
    BY <2>1, <2>2, <2>3, Zenon
<1>3. TypeOK'
  BY <1>1, <1>2, MixLine DEF IInv, TypeOK
<1>4. Placed' /\ Counted' /\ Shifting'
  BY <1>1 DEF Placed, Counted, Shifting
<1>5. Mixing'
  <2>1. CASE line < 15
    <3>1. line' = line + 1 /\ Pass = before'
      BY <1>1, <2>1, MixLine
    <3>2. line' % 4 > 0 => line' \div 4 = line \div 4
      BY <1>1, <3>1
    <3>. QED
      BY <3>1, <3>2, MixLine DEF Mixing
  <2>2. CASE ~(line < 15)
    BY <2>2 DEF Mixing
  <2>. QED
    BY <2>1, <2>2
<1>. QED
  BY <1>3, <1>4, <1>5 DEF IInv

LEMMA SubLine ==
  ASSUME IInv, inverse_subbytes
  PROVE  /\ Pass = stateText /\ Pass' = stateText' /\ stateText' \in Block
         /\ stateText' = [c \in Cell |-> InvSBox[stateText[c]]]
<1>1. line = 0 /\ line' = 0 /\ stateText \in Block
  BY DEF IInv, Placed, TypeOK, inverse_subbytes, Goto
<1>. QED
  BY <1>1, SBoxFact DEF Pass, inverse_subbytes, Block

LEMMA SubInv == ASSUME IInv, inverse_subbytes PROVE IInv'
<1>. USE DEF inverse_subbytes, Goto
<1>1. pc = "sub" /\ roundCount \in 0..9 /\ TypeOK
  BY DEF IInv, Placed
<1>2. TypeOK'
  BY <1>1, SubLine, Performing DEF TypeOK
<1>3. Counted'
  BY <1>1, Performing DEF Counted
<1>. QED
  BY <1>1, <1>2, <1>3 DEF IInv, Placed, Shifting, Mixing

LEMMA StepInv == ASSUME IInv, [Next]_vars PROVE IInv'
<1>1. CASE UNCHANGED vars
  BY <1>1 DEF vars, IInv, TypeOK, Placed, Shifting, Mixing, Counted
<1>. QED
  BY <1>1, CallInv, KeyInv, ShiftInv, MixInv, SubInv DEF Next

\* The type invariant of AesBytes: whatever is in the block and in the random
\* numbers, each pass of aes_dec_128 leaves a block of bytes.
THEOREM TypeCorrect == Spec => []TypeOK
<1>1. IInv => TypeOK
  BY DEF IInv
<1>. QED
  BY <1>1, InitInv, StepInv, PTL DEF Spec

\* All 80 dummy look-ups of inverse_subbytes are done by the end of the first
\* decryption, whatever Rng_fill leaves in Rng_rand, so that none is left for
\* any later one.
THEOREM DummiesAllFirst == Spec => []DummiesInFirstCall
<1>1. IInv => DummiesInFirstCall
  BY DEF IInv, Counted, DummiesInFirstCall
<1>. QED
  BY <1>1, InitInv, StepInv, PTL DEF Spec
-----------------------------------------------------------------------------
(* AesBytes implements InvCipher: a pass does what it does to the block it *)
(* began with, and does it at its last line.                               *)

LEMMA ShiftPass ==
  ASSUME IInv, inverse_shift_rows
  PROVE  IF line < 11 THEN UNCHANGED <<Pass, roundCount, pc>>
         ELSE /\ Pass' = [c \in Cell |-> Pass[From(c)]]
              /\ UNCHANGED roundCount /\ pc' = "sub"
<1>1. line \in 0..11 /\ UNCHANGED roundCount
  BY DEF IInv, Placed, inverse_shift_rows
<1>2. CASE line < 11
  <2>1. line' = line + 1 /\ pc' = pc
    BY <1>2 DEF inverse_shift_rows
  <2>2. Pass' = before'
    BY <1>1, <2>1 DEF Pass
  <2>. QED
    BY <1>1, <1>2, <2>1, <2>2, ShiftLine
<1>3. CASE ~(line < 11)
  <2>1. line = 11 /\ line + 1 = 12
    BY <1>1, <1>3
  <2>2. line' = 0 /\ pc' = "sub"
    BY <1>3 DEF inverse_shift_rows, Goto
  <2>3. Pass' = stateText'
    BY <2>2 DEF Pass
  <2>4. stateText' = [c \in Cell |-> IF LineOf(c) <= 12 THEN Pass[From(c)]
                                     ELSE Pass[c]]
    BY <2>1, ShiftLine
  <2>. QED
    BY <1>1, <1>3, <2>2, <2>3, <2>4, ShiftLine, Shifted
<1>. QED
  BY <1>2, <1>3

LEMMA MixPass ==
  ASSUME IInv, inverse_mix_coloumns
  PROVE  IF line < 15 THEN UNCHANGED <<Pass, roundCount, pc>>
         ELSE /\ Pass' = [c \in Cell |-> Mixed(InvMix, Pass, 4 * (c \div 4), c % 4)]
              /\ roundCount' = roundCount - 1 /\ pc' = "shift"
<1>1. line \in 0..15
  BY DEF IInv, TypeOK
<1>2. CASE line < 15
  <2>1. line' = line + 1 /\ pc' = pc /\ UNCHANGED roundCount
    BY <1>2 DEF inverse_mix_coloumns
  <2>2. Pass' = before'
    BY <1>1, <2>1 DEF Pass
  <2>. QED
    BY <1>2, <2>1, <2>2, MixLine
<1>3. CASE ~(line < 15)
  <2>1. line = 15 /\ line + 1 = 16
    BY <1>1, <1>3
  <2>2. line' = 0 /\ pc' = "shift" /\ roundCount' = roundCount - 1
    BY <1>3 DEF inverse_mix_coloumns, Goto
  <2>3. Pass' = stateText'
    BY <2>2 DEF Pass
  <2>4. stateText' = [c \in Cell |->
                        IF c < 16 THEN Mixed(InvMix, Pass, 4 * (c \div 4), c % 4)
                        ELSE Pass[c]]
    BY <2>1, MixLine
  <2>. QED
    BY <1>3, <2>2, <2>3, <2>4, MixLine, MixedSoFar
<1>. QED
  BY <1>2, <1>3

LEMMA PlainTransforms ==
  ASSUME NEW s \in Block
  PROVE  /\ \A r \in 0..10 : Plain!AddRoundKey(s, r) = AddRoundKey(s, ExpandedKey, r)
         /\ Plain!InvShiftRows(s) = [c \in Cell |-> s[From(c)]]
         /\ Plain!InvSubBytes(s) = [c \in Cell |-> InvSBox[s[c]]]
         /\ Plain!InvMixColumns(s)
              = [c \in Cell |-> Mixed(InvMix, s, 4 * (c \div 4), c % 4)]
<1>1. Plain!Cell = Cell
  BY DEF Plain!Cell, Plain!N, Cell
<1>2. ASSUME NEW r \in 0..10
      PROVE  Plain!AddRoundKey(s, r) = AddRoundKey(s, ExpandedKey, r)
  BY <1>1 DEF Plain!AddRoundKey, AddRoundKey
<1>3. Plain!InvShiftRows(s) = [c \in Cell |-> s[From(c)]]
  BY <1>1, Zenon DEF Plain!InvShiftRows, Plain!ShiftedFrom, Plain!Col, Plain!Row, From
<1>4. Plain!InvSubBytes(s) = [c \in Cell |-> InvSBox[s[c]]]
  BY <1>1 DEF Plain!InvSubBytes, InvSub
<1>5. ASSUME NEW c \in Cell
      PROVE  InvMixed(Plain!ColumnOf(s, c \div 4))[c % 4]
             = Mixed(InvMix, s, 4 * (c \div 4), c % 4)
  <2>. DEFINE column == Plain!ColumnOf(s, c \div 4)
              q == c \div 4
              row == c % 4
  <2>1. q \in 0..3 /\ row \in 0..3
    BY ByteOfColumn
  <2>. HIDE DEF q, row
  <2>2. /\ column[0] = s[4 * q] /\ column[1] = s[4 * q + 1]
        /\ column[2] = s[4 * q + 2] /\ column[3] = s[4 * q + 3]
    <3>1. column = [r \in 0..3 |-> s[4 * q + r]]
      BY DEF Plain!ColumnOf, q
    <3>2. 4 * q + 0 = 4 * q
      BY <2>1
    <3>. HIDE DEF column
    <3>. QED
      BY <3>1, <3>2
  <2>. HIDE DEF column
  <2>3. Mixed(InvMix, column, 0, row) = Mixed(InvMix, s, 4 * q, row)
    BY <2>2 DEF Mixed
  <2>4. InvMixed(column)[row] = Mixed(InvMix, column, 0, row)
    BY <2>1 DEF InvMixed
  <2>. QED
    BY <2>3, <2>4 DEF column, q, row
<1>6. Plain!InvMixColumns(s)
        = [c \in Cell |-> InvMixed(Plain!ColumnOf(s, c \div 4))[c % 4]]
  BY <1>1, Zenon DEF Plain!InvMixColumns, Plain!Col, Plain!Row
<1>7. Plain!InvMixColumns(s)
        = [c \in Cell |-> Mixed(InvMix, s, 4 * (c \div 4), c % 4)]
  BY <1>5, <1>6
<1>. QED
  BY <1>2, <1>3, <1>4, <1>7

PlainVars == <<Pass, roundCount, pc>>

LEMMA InitRefines == Init => Plain!Init
BY DEF Init, Plain!Init, Pass

LEMMA PassType == ASSUME IInv PROVE Pass \in Block /\ roundCount \in 0..10
BY DEF IInv, TypeOK, Pass

LEMMA StepRefines ==
  ASSUME IInv, [Next]_vars
  PROVE  [Plain!Next]_PlainVars
<1>1. CASE UNCHANGED vars
  BY <1>1 DEF vars, PlainVars, Pass
<1>2. CASE Call
  <2>1. line = 0 /\ line' = 0
    BY <1>2 DEF IInv, Placed, Call, Goto
  <2>2. Plain!Begin
    BY <1>2, <2>1 DEF Call, Goto, Plain!Begin
  <2>. QED
    BY <2>2 DEF Plain!Next
<1>3. CASE add_round_key
  <2>1. Pass' = Plain!AddRoundKey(Pass, roundCount)
    BY <1>3, KeyLine, PassType, PlainTransforms
  <2>2. Plain!Add
    BY <1>3, <2>1
       DEF add_round_key, Goto, Plain!Add, Plain!AfterKey, Plain!RoundAfterKey, Pass
  <2>. QED
    BY <2>2 DEF Plain!Next
<1>4. CASE inverse_shift_rows
  <2>1. CASE line < 11
    BY <1>4, <2>1, ShiftPass DEF PlainVars
  <2>2. CASE ~(line < 11)
    <3>1. Pass' = Plain!InvShiftRows(Pass)
      BY <1>4, <2>2, ShiftPass, PassType, PlainTransforms
    <3>2. UNCHANGED roundCount /\ pc' = "sub" /\ pc = "shift"
      BY <1>4, <2>2, ShiftPass DEF inverse_shift_rows
    <3>3. Plain!Shift
      BY <3>1, <3>2 DEF Plain!Shift, Pass
    <3>. QED
      BY <3>3 DEF Plain!Next
  <2>. QED
    BY <2>1, <2>2
<1>5. CASE inverse_subbytes
  <2>1. Pass' = Plain!InvSubBytes(Pass)
    BY <1>5, SubLine, PassType, PlainTransforms
  <2>2. Plain!Substitute
    BY <1>5, <2>1 DEF inverse_subbytes, Goto, Plain!Substitute, Pass
  <2>. QED
    BY <2>2 DEF Plain!Next
<1>6. CASE inverse_mix_coloumns
  <2>1. CASE line < 15
    BY <1>6, <2>1, MixPass DEF PlainVars
  <2>2. CASE ~(line < 15)
    <3>1. Pass' = Plain!InvMixColumns(Pass)
      BY <1>6, <2>2, MixPass, PassType, PlainTransforms
    <3>2. roundCount' = roundCount - 1 /\ pc' = "shift" /\ pc = "mix"
      BY <1>6, <2>2, MixPass DEF inverse_mix_coloumns
    <3>3. Plain!Mix
      BY <3>1, <3>2 DEF Plain!Mix, Pass
    <3>. QED
      BY <3>3 DEF Plain!Next
  <2>. QED
    BY <2>1, <2>2
<1>. QED
  BY <1>1, <1>2, <1>3, <1>4, <1>5, <1>6 DEF Next

\* The passes of aes_dec_128 that rearrange the block in place, and its tables
\* and its macro, amount to the inverse cipher of FIPS-197: each line leaves
\* the block the pass began with, or ends the transformation of all of it.
THEOREM PassesRefined == Spec => ImplementsInvCipher
<1> QED
  BY InitInv, StepInv, InitRefines, StepRefines, PTL
     DEF Spec, ImplementsInvCipher, Plain!Spec, Plain!vars, PlainVars, Pass
-----------------------------------------------------------------------------
(* The passes undo the cipher, round by round.                             *)

LEMMA RoundUndone ==
  ASSUME NEW p \in Block, NEW r \in 1..10
  PROVE  LET t == ShiftRows(SubBytes(States(p)[r - 1]))
         IN /\ States(p)[r - 1] \in Block /\ SubBytes(States(p)[r - 1]) \in Block
            /\ t \in Block /\ MixColumns(t) \in Block
            /\ AddRoundKey(States(p)[r], ExpandedKey, r)
               = IF r = 10 THEN t ELSE MixColumns(t)
<1>. DEFINE s == States(p)[r - 1]
            t == ShiftRows(SubBytes(s))
            u == IF r = 10 THEN t ELSE MixColumns(t)
<1>1. s \in Block /\ States(p)[r] = OneRound(s, r)
  BY StatesAre
<1>. HIDE DEF s
<1>2. SubBytes(s) \in Block
  BY <1>1, BytesRestored
<1>3. /\ t \in Block /\ MixColumns(t) \in Block
      /\ OneRound(s, r) = AddRoundKey(u, ExpandedKey, r)
  BY <1>1, RoundMade
<1>4. u \in Block
  BY <1>3
<1>. HIDE DEF u
<1>5. AddRoundKey(AddRoundKey(u, ExpandedKey, r), ExpandedKey, r) = u
  BY <1>4, KeyRemoved
<1>6. AddRoundKey(States(p)[r], ExpandedKey, r) = u
  BY <1>1, <1>3, <1>5
<1>. QED
  BY <1>1, <1>2, <1>3, <1>6 DEF u, s

LEMMA InitUnderway == Init => Underway
BY DEF Init, Underway

LEMMA StepUnderway ==
  ASSUME IInv, Underway, [Next]_vars
  PROVE  Underway'
<1>1. CASE UNCHANGED vars
  BY <1>1 DEF vars, Underway, Undone, Pass
<1>2. CASE Call
  <2>1. Pass' = Encrypted[plain'] /\ pc' = "key" /\ roundCount' = 10 /\ plain' \in Plains
    BY <1>2 DEF Call, Goto, Pass
  <2>2. Pass' = States(plain')[10]
    BY <2>1, EncryptedType
  <2>. QED
    BY <2>1, <2>2 DEF Underway, Undone
<1>3. CASE UNCHANGED <<Pass, roundCount, pc, plain>>
  BY <1>3 DEF Underway, Undone
<1>4. ASSUME ~(UNCHANGED vars), ~Call, ~(UNCHANGED <<Pass, roundCount, pc, plain>>),
             plain # NoBlock
      PROVE  Pass' = Undone(States(plain))'
  <2>. DEFINE E == States(plain)
  <2>1. plain \in Block /\ Pass = Undone(E)
    BY <1>4, InputAssumption DEF IInv, TypeOK, Underway
  <2>2. /\ \A r \in 0..10 : E[r] \in Block
        /\ AddRoundKey(E[0], ExpandedKey, 0) = plain
    <3>1. E[0] = AddRoundKey(plain, ExpandedKey, 0)
      BY <2>1, StatesAre
    <3>. HIDE DEF E
    <3>2. AddRoundKey(AddRoundKey(plain, ExpandedKey, 0), ExpandedKey, 0) = plain
      BY <2>1, KeyRemoved
    <3>3. \A r \in 0..10 : E[r] \in Block
      BY <2>1, StatesAre DEF E
    <3>. QED
      BY <3>1, <3>2, <3>3
  <2>3. ASSUME NEW r \in 1..10
        PROVE  LET t == ShiftRows(SubBytes(E[r - 1]))
               IN /\ SubBytes(E[r - 1]) \in Block
                  /\ t \in Block /\ MixColumns(t) \in Block
                  /\ AddRoundKey(E[r], ExpandedKey, r)
                     = IF r = 10 THEN t ELSE MixColumns(t)
    BY <2>1, RoundUndone
  <2>4. UNCHANGED plain /\ UNCHANGED E
    BY <1>4 DEF Next, add_round_key, inverse_shift_rows, inverse_mix_coloumns,
                inverse_subbytes
  <2>. HIDE DEF E
  <2>5. CASE add_round_key
    <3>1. /\ pc = "key" /\ roundCount \in 0..10
          /\ Pass' = AddRoundKey(Pass, ExpandedKey, roundCount)
      BY <2>5, KeyLine DEF add_round_key
    <3>2. Pass = E[roundCount]
      BY <2>1, <3>1 DEF Undone
    <3>3. CASE roundCount = 0
      <4>1. pc' = "idle"
        BY <2>5, <3>3 DEF add_round_key, Goto
      <4>. QED
        BY <2>2, <2>4, <3>1, <3>2, <3>3, <4>1 DEF Undone, E
    <3>4. CASE roundCount = 10
      <4>1. pc' = "shift" /\ roundCount' = 9
        BY <2>5, <3>4 DEF add_round_key, Goto
      <4>2. Pass' = ShiftRows(SubBytes(E[9]))
        BY <2>3, <3>1, <3>2, <3>4
      <4>3. Pass' = ShiftRows(SubBytes(E'[roundCount']))
        BY <2>4, <4>1, <4>2
      <4>. QED
        BY <4>1, <4>3 DEF Undone, E
    <3>5. CASE roundCount \in 1..9
      <4>1. pc' = "mix" /\ roundCount' = roundCount
        BY <2>5, <3>5 DEF add_round_key, Goto
      <4>2. Pass' = MixColumns(ShiftRows(SubBytes(E[roundCount - 1])))
        BY <2>3, <3>1, <3>2, <3>5
      <4>3. Pass' = MixColumns(ShiftRows(SubBytes(E'[roundCount' - 1])))
        BY <2>4, <4>1, <4>2
      <4>. QED
        BY <4>1, <4>3 DEF Undone, E
    <3>. QED
      BY <3>1, <3>3, <3>4, <3>5
  <2>6. CASE inverse_shift_rows
    <3>1. /\ Pass' = [c \in Cell |-> Pass[From(c)]]
          /\ roundCount' = roundCount /\ pc' = "sub"
          /\ pc = "shift" /\ roundCount \in 0..9
      <4>1. pc = "shift" /\ roundCount \in 0..9 /\ UNCHANGED plain
        BY <2>6 DEF IInv, Placed, inverse_shift_rows
      <4>. QED
        BY <1>4, <2>6, <4>1, ShiftPass
    <3>2. Pass = ShiftRows(SubBytes(E[roundCount]))
      BY <2>1, <3>1 DEF Undone
    <3>3. SubBytes(E[roundCount]) \in Block
      BY <2>2, <3>1, BytesRestored
    <3>4. Pass' = SubBytes(E[roundCount])
      BY <3>1, <3>2, <3>3, RowsRestored
    <3>5. Pass' = SubBytes(E'[roundCount'])
      BY <2>4, <3>1, <3>4
    <3>. QED
      BY <3>1, <3>5 DEF Undone, E
  <2>7. CASE inverse_subbytes
    <3>1. /\ Pass' = [c \in Cell |-> InvSBox[Pass[c]]]
          /\ roundCount' = roundCount /\ pc' = "key"
          /\ pc = "sub" /\ roundCount \in 0..9
      BY <2>7, SubLine DEF IInv, Placed, inverse_subbytes, Goto
    <3>2. Pass = SubBytes(E[roundCount])
      BY <2>1, <3>1 DEF Undone
    <3>3. Pass' = E[roundCount]
      BY <2>2, <3>1, <3>2, BytesRestored
    <3>4. Pass' = E'[roundCount']
      BY <2>4, <3>1, <3>3
    <3>. QED
      BY <3>1, <3>4 DEF Undone, E
  <2>8. CASE inverse_mix_coloumns
    <3>1. /\ Pass' = [c \in Cell |-> Mixed(InvMix, Pass, 4 * (c \div 4), c % 4)]
          /\ roundCount' = roundCount - 1 /\ pc' = "shift"
          /\ pc = "mix" /\ roundCount \in 1..9
      <4>1. pc = "mix" /\ roundCount \in 1..9 /\ UNCHANGED plain
        BY <2>8 DEF IInv, Placed, inverse_mix_coloumns
      <4>. QED
        BY <1>4, <2>8, <4>1, MixPass
    <3>. DEFINE t == ShiftRows(SubBytes(E[roundCount - 1]))
    <3>2. Pass = MixColumns(t)
      BY <2>1, <3>1 DEF Undone
    <3>3. t \in Block
      BY <2>3, <3>1
    <3>. HIDE DEF t
    <3>4. Pass' = t
      BY <3>1, <3>2, <3>3, ColumnsRestored
    <3>5. Pass' = ShiftRows(SubBytes(E'[roundCount']))
      BY <2>4, <3>1, <3>4 DEF t
    <3>. QED
      BY <3>1, <3>5 DEF Undone, E
  <2>. QED
    BY <1>4, <2>5, <2>6, <2>7, <2>8 DEF Next
<1>5. CASE ~(UNCHANGED vars) /\ ~Call /\ ~(UNCHANGED <<Pass, roundCount, pc, plain>>)
  <2>1. UNCHANGED plain
    BY <1>5 DEF Next, add_round_key, inverse_shift_rows, inverse_mix_coloumns,
                inverse_subbytes
  <2>. QED
    BY <1>4, <1>5, <2>1 DEF Underway, NoBlock
<1>. QED
  BY <1>1, <1>2, <1>3, <1>5

\* Whatever block was encrypted by FIPS-197's cipher with the key that the
\* table of round keys comes from, aes_dec_128 returns it: its S-box, its
\* round keys, its macro and its lines undo SubBytes, AddRoundKey, MixColumns
\* and ShiftRows.
THEOREM DecryptsWhatWasEncrypted == Spec => []DecryptsEncrypted
<1>1. IInv /\ Underway => DecryptsEncrypted
  BY DEF IInv, Placed, Underway, Undone, Pass, DecryptsEncrypted
<1>2. IInv /\ Underway /\ [Next]_vars => Underway'
  BY StepUnderway
<1>. QED
  BY <1>1, <1>2, InitInv, StepInv, InitUnderway, PTL DEF Spec
=============================================================================
