------------------------------ MODULE AesProofs ------------------------------
(***************************************************************************)
(* Proofs about Aes.tla for blocks of every shape, every number of rounds, *)
(* every group of bytes, every S-box and every linear mixing of columns.   *)
(*                                                                         *)
(* Aes implements InvCipher by a mapping that takes the masks off and a    *)
(* pass for done once it has begun (Bare); Underway then says which state  *)
(* of InvCipherOf the mapped block is, so that a call ends with its value. *)
(***************************************************************************)
EXTENDS Aes, WellFoundedInduction, TLAPS

-----------------------------------------------------------------------------
(* Where cells are.                                                        *)

LEMMA Product ==
  ASSUME NEW a \in Nat, NEW b \in Nat, NEW c \in Nat, a <= b
  PROVE  c * a <= c * b
<1>1. c * b = c * a + c * (b - a)
  OBVIOUS
<1>2. c * (b - a) >= 0
  OBVIOUS
<1> QED
  BY <1>1, <1>2

LEMMA Sizes == N \in Nat /\ N >= 2 /\ Rows < N
<1>1. Rows * 2 <= Rows * Columns
  BY Product, ShapeAssumption
<1> QED
  BY <1>1, ShapeAssumption DEF N

LEMMA Division ==
  ASSUME NEW c \in Nat
  PROVE  /\ Row(c) \in 0 .. Rows - 1
         /\ Col(c) \in Nat
         /\ c = Rows * Col(c) + Row(c)
BY ShapeAssumption DEF Row, Col

LEMMA CellAt ==
  ASSUME NEW k \in 0 .. Columns - 1, NEW r \in 0 .. Rows - 1
  PROVE  Rows * k + r \in Cell /\ Row(Rows * k + r) = r
<1>1. Rows * k <= Rows * (Columns - 1)
  BY Product, ShapeAssumption
<1>2. Rows * k \in Nat /\ Rows * (Columns - 1) = Rows * Columns - Rows
  BY ShapeAssumption
<1>3. Rows * k + r \in Cell
  BY <1>1, <1>2, ShapeAssumption DEF Cell, N
<1> DEFINE c == Rows * k + r
<1>4. c = Rows * Col(c) + Row(c) /\ Row(c) \in 0 .. Rows - 1 /\ Col(c) \in Nat
  BY <1>2, Division
<1>5. CASE Col(c) < k
  <2>1. Rows * (Col(c) + 1) <= Rows * k
    BY <1>4, <1>5, Product, ShapeAssumption
  <2>2. Rows * (Col(c) + 1) = Rows * Col(c) + Rows
    BY <1>4, ShapeAssumption
  <2> QED
    BY <2>1, <2>2, <1>2, <1>4, ShapeAssumption
<1>6. CASE k < Col(c)
  <2>1. Rows * (k + 1) <= Rows * Col(c)
    BY <1>4, <1>6, Product, ShapeAssumption
  <2>2. Rows * (k + 1) = Rows * k + Rows
    BY ShapeAssumption
  <2> QED
    BY <2>1, <2>2, <1>2, <1>4, ShapeAssumption
<1>7. CASE Col(c) = k
  BY <1>7, <1>2, <1>3, <1>4, ShapeAssumption
<1> QED
  BY <1>3, <1>4, <1>5, <1>6, <1>7

LEMMA Places ==
  ASSUME NEW c \in Cell
  PROVE  /\ Row(c) \in 0 .. Rows - 1
         /\ Col(c) \in 0 .. Columns - 1
         /\ ShiftedFrom(c) \in Cell
<1>1. c \in Nat /\ c < Rows * Columns
  BY Sizes DEF Cell, N
<1>2. Row(c) \in 0 .. Rows - 1 /\ Col(c) \in Nat
      /\ c = Rows * Col(c) + Row(c)
  BY <1>1, Division
<1>3. Col(c) < Columns
  <2> SUFFICES ASSUME Columns <= Col(c) PROVE FALSE
    BY <1>2, ShapeAssumption
  <2>1. Rows * Columns <= Rows * Col(c)
    BY <1>2, Product, ShapeAssumption
  <2> QED
    BY <2>1, <1>1, <1>2, ShapeAssumption
<1>4. (Col(c) - Row(c)) % Columns \in 0 .. Columns - 1
  BY <1>2, ShapeAssumption
<1>5. \A k \in 0 .. Columns - 1 : Rows * k + Row(c) \in Cell
  BY <1>2, CellAt
<1>6. ShiftedFrom(c) \in Cell
  BY <1>4, <1>5, Zenon DEF ShiftedFrom
<1> QED
  BY <1>2, <1>3, <1>6, ShapeAssumption
-----------------------------------------------------------------------------
(* The invariant: where aes_dec_128 can be.                                *)

Placed ==
  /\ pc = "shuffle" => Has("SHUFFLING") /\ i > 0 /\ roundCount \in {0, Rounds}
  /\ pc = "mask" => Has("MASKING") /\ roundCount = Rounds
  /\ pc \in {"shift", "sub", "mix"} => roundCount < Rounds
  /\ pc = "mix" => roundCount > 0
  /\ pc = "idle" => roundCount = 0
  /\ pc \in {"idle", "mask", "shift", "mix"} => i = 0

IInv == TypeOK /\ EachPositionOnce /\ Placed

\* Masks and keys are bytes.
LEMMA MaskTypes ==
  ASSUME TypeOK, NEW c \in Cell, NEW r \in 0..Rounds
  PROVE  /\ m_out_inv_col \in Column
         /\ m_out_inv_col[Row(c)] \in Value /\ m_in_inv_col[Row(c)] \in Value
         /\ Key[r][c] \in Value
         /\ KeyMask(r, c) \in Value /\ masked_round_key(r, c) \in Value
<1>1. m_out_inv_col \in Column
  BY MixAssumption DEF TypeOK, m_out_inv_col
<1>2. m_out_inv_col[Row(c)] \in Value /\ m_in_inv_col[Row(c)] \in Value
  BY <1>1, Places DEF TypeOK, Column
<1>3. Key[r][c] \in Value
  BY BlockAssumption DEF Block
<1>4. KeyMask(r, c) \in Value
  BY <1>2, XorAssumption DEF TypeOK, KeyMask, mask_out
<1> QED
  BY <1>1, <1>2, <1>3, <1>4, XorAssumption DEF masked_round_key

LEMMA XorAtType ==
  ASSUME NEW s \in Block, NEW c \in Cell, NEW k \in Value
  PROVE  XorAt(s, c, k) \in Block
BY XorAssumption DEF XorAt, Block

LEMMA KeyAddedType ==
  ASSUME TypeOK, NEW k \in Cell, NEW p \in Cell
  PROVE  KeyAdded(stateText, roundCount, k, p) \in Block
<1> DEFINE s1 == IF Has("SHUFFLING")
                 THEN XorAt(stateText, p, Key[roundCount][p]) ELSE stateText
           s2 == IF Has("MASKING")
                 THEN XorAt(s1, k, masked_round_key(roundCount, k)) ELSE s1
           s3 == IF Has("MASKING") /\ Has("SHUFFLING")
                 THEN XorAt(s2, p, masked_round_key(roundCount, p)) ELSE s2
<1>1. s1 \in Block
  BY XorAtType, MaskTypes DEF TypeOK
<1>2. s2 \in Block
  BY <1>1, XorAtType, MaskTypes DEF TypeOK
<1>3. s3 \in Block
  BY <1>2, XorAtType, MaskTypes DEF TypeOK
<1>4. XorAt(s3, k, Key[roundCount][k]) \in Block
  BY <1>3, XorAtType, MaskTypes DEF TypeOK
<1> QED
  BY <1>3, <1>4 DEF KeyAdded

LEMMA LookupType ==
  ASSUME TypeOK, NEW a \in Value
  PROVE  masked_aes_invsbox(a) \in Value /\ Sub(a) \in Value
BY XorAssumption, SubAssumption DEF TypeOK, masked_aes_invsbox, mask_out

LEMMA SubstitutedType ==
  ASSUME TypeOK, NEW k \in Cell, NEW p \in Cell
  PROVE  Substituted(stateText, k, p) \in Block
<1> DEFINE s1 == IF Has("SHUFFLING")
                 THEN [stateText EXCEPT ![p] = Sub(stateText[p])] ELSE stateText
           s2 == IF Has("MASKING") /\ Has("SHUFFLING")
                 THEN [s1 EXCEPT ![p] = masked_aes_invsbox(s1[p])] ELSE s1
           s3 == IF Has("MASKING")
                 THEN [s2 EXCEPT ![k] = masked_aes_invsbox(s2[k])] ELSE s2
<1>1. s1 \in Block
  BY LookupType DEF TypeOK, Block
<1> HIDE DEF s1
<1>2. s2 \in Block
  BY <1>1, LookupType DEF Block
<1> HIDE DEF s2
<1>3. s3 \in Block
  BY <1>2, LookupType DEF Block
<1> HIDE DEF s3
<1>4. [s3 EXCEPT ![k] = Sub(s3[k])] \in Block
  BY <1>3, LookupType DEF Block
<1> QED
  BY <1>3, <1>4 DEF Substituted, s1, s2, s3

LEMMA MixedType ==
  ASSUME NEW s \in Block
  PROVE  /\ \A k \in 0 .. Columns - 1 : ColumnOf(s, k) \in Column
         /\ InvMixColumns(s) \in Block
<1>1. ASSUME NEW k \in 0 .. Columns - 1 PROVE ColumnOf(s, k) \in Column
  BY CellAt DEF ColumnOf, Column, Block
<1>2. ASSUME NEW c \in Cell
      PROVE  MixColumn(ColumnOf(s, Col(c)))[Row(c)] \in Value
  BY <1>1, Places, MixAssumption DEF Column
<1> QED
  BY <1>1, <1>2 DEF InvMixColumns, Block

\* Exchanging two elements loses none.
LEMMA SwapKeeps ==
  ASSUME EachPositionOnce, shuffling_array \in [Cell -> Cell],
         NEW a \in Cell, NEW b \in Cell,
         shuffling_array' = Swap(shuffling_array, a, b)
  PROVE  EachPositionOnce' /\ shuffling_array' \in [Cell -> Cell]
<1>1. shuffling_array' \in [Cell -> Cell]
  BY DEF Swap
<1>2. /\ shuffling_array'[a] = shuffling_array[b]
      /\ shuffling_array'[b] = shuffling_array[a]
      /\ \A c \in Cell \ {a, b} : shuffling_array'[c] = shuffling_array[c]
  BY DEF Swap
<1>3. \A j, k \in Cell : shuffling_array'[j] = shuffling_array'[k] => j = k
  BY <1>2 DEF EachPositionOnce
<1>4. ASSUME NEW c \in Cell PROVE \E k \in Cell : shuffling_array'[k] = c
  <2>1. PICK k \in Cell : shuffling_array[k] = c
    BY DEF EachPositionOnce
  <2>2. CASE k = a
    BY <2>1, <2>2, <1>2
  <2>3. CASE k = b
    BY <2>1, <2>3, <1>2
  <2>4. CASE k \notin {a, b}
    BY <2>1, <2>4, <1>2
  <2> QED
    BY <2>2, <2>3, <2>4
<1> QED
  BY <1>1, <1>3, <1>4 DEF EachPositionOnce
-----------------------------------------------------------------------------
(* Every step keeps the invariant.                                         *)

LEMMA InitInv == Init => IInv
<1> SUFFICES ASSUME Init PROVE IInv
  OBVIOUS
<1>1. N \in Nat /\ N >= 2 /\ 0 \in Cell
  BY Sizes DEF Cell
<1>2. TypeOK
  BY <1>1, BlockAssumption, XorAssumption, ShapeAssumption
     DEF Init, TypeOK, Pass, Block, Column
<1>3. EachPositionOnce
  BY DEF Init, EachPositionOnce
<1>4. Placed
  BY DEF Init, Placed
<1> QED
  BY <1>2, <1>3, <1>4 DEF IInv

LEMMA CallInv == IInv /\ Call => IInv'
<1> SUFFICES ASSUME IInv, Call PROVE IInv'
  OBVIOUS
<1> USE DEF IInv, Call, Goto, Prepared, maskVars
<1>1. N \in Nat /\ N >= 2 /\ 0 \in Cell /\ N - 1 \in Cell
  BY Sizes DEF Cell
<1>2. TypeOK'
  BY <1>1, BlockAssumption, RandAssumption, ShapeAssumption DEF TypeOK, Pass
<1>3. EachPositionOnce'
  BY DEF EachPositionOnce
<1>4. Placed'
  BY <1>1, ShapeAssumption DEF Placed, Has
<1> QED
  BY <1>2, <1>3, <1>4

LEMMA ShuffleInv == IInv /\ generate_new_shuffling_array => IInv'
<1> SUFFICES ASSUME IInv, generate_new_shuffling_array PROVE IInv'
  OBVIOUS
<1> USE DEF IInv, generate_new_shuffling_array, Goto, Prepared, maskVars,
            blockVars
<1>1. N \in Nat /\ N >= 2 /\ 0 \in Cell
  BY Sizes DEF Cell
<1>2. i \in Cell /\ i > 0 /\ i \in Nat /\ i <= N - 1
  BY <1>1 DEF TypeOK, Placed, Cell
<1>3. Num(Rng_rand[i]) \in Nat
  BY <1>2, RandAssumption DEF TypeOK, Block
<1>4. Num(Rng_rand[i]) % (i + 1) \in 0 .. i
  BY <1>2, <1>3
<1>5. Num(Rng_rand[i]) % (i + 1) \in Cell
  BY <1>1, <1>2, <1>4 DEF Cell
<1>6. EachPositionOnce' /\ shuffling_array' \in [Cell -> Cell]
  BY <1>2, <1>5, SwapKeeps DEF TypeOK
<1>7. i' \in Cell /\ pc' \in Pass
  <2>1. i' \in {i - 1, 0} /\ pc' \in {pc, "shift", "mask", "key"}
    OBVIOUS
  <2>2. i - 1 \in Cell
    BY <1>1, <1>2 DEF Cell
  <2> QED
    BY <1>1, <2>1, <2>2 DEF TypeOK, Pass
<1>8. TypeOK'
  BY <1>6, <1>7 DEF TypeOK
<1>9. Placed'
  BY <1>1, <1>2, ShapeAssumption DEF Placed, Has
<1> QED
  BY <1>6, <1>8, <1>9

LEMMA MaskInv == IInv /\ Mask => IInv'
<1> SUFFICES ASSUME IInv, Mask PROVE IInv'
  OBVIOUS
<1> USE DEF IInv, Mask, Goto
<1>1. N \in Nat /\ N >= 2 /\ 0 \in Cell /\ Rows \in Cell
      /\ 0 .. Rows - 1 \subseteq Cell
  BY Sizes, ShapeAssumption DEF Cell
<1>2. mask_in' \in Value /\ m_in_inv_col' \in Column
  BY <1>1 DEF TypeOK, Block, Column
<1>3. stateText' \in Block
  <2>1. MixColumn(m_in_inv_col') \in Column
    BY <1>2, MixAssumption
  <2> QED
    BY <2>1, Places, XorAssumption DEF TypeOK, Block, Column
<1>4. TypeOK'
  BY <1>1, <1>2, <1>3 DEF TypeOK, Pass
<1>5. EachPositionOnce' /\ Placed'
  BY ShapeAssumption DEF EachPositionOnce, Placed
<1> QED
  BY <1>4, <1>5

LEMMA KeyInv == IInv /\ add_round_key => IInv'
<1> SUFFICES ASSUME IInv, add_round_key PROVE IInv'
  OBVIOUS
<1> USE DEF IInv, add_round_key, Advance, Goto, maskVars
<1>1. N \in Nat /\ N >= 2 /\ 0 \in Cell /\ N - 1 \in Cell
  BY Sizes DEF Cell
<1>2. i \in Nat /\ i \in Cell /\ i < N /\ shuffling_array[i] \in Cell
  BY <1>1 DEF TypeOK, Cell
<1>3. stateText' \in Block
  BY <1>2, KeyAddedType
<1>4. roundCount' \in 0..Rounds
  BY ShapeAssumption DEF TypeOK, RoundAfterKey
<1>5. i' \in Cell /\ pc' \in Pass
  BY <1>1, <1>2 DEF TypeOK, Pass, Cell, AfterKey
<1>6. TypeOK'
  BY <1>3, <1>4, <1>5 DEF TypeOK
<1>7. EachPositionOnce'
  BY DEF EachPositionOnce
<1>8. Placed'
  BY <1>1, <1>2, ShapeAssumption
     DEF Placed, TypeOK, AfterKey, RoundAfterKey, Has
<1> QED
  BY <1>6, <1>7, <1>8

LEMMA ShiftInv == IInv /\ inverse_shift_rows => IInv'
<1> SUFFICES ASSUME IInv, inverse_shift_rows PROVE IInv'
  OBVIOUS
<1> USE DEF IInv, inverse_shift_rows, Goto, maskVars
<1>1. N \in Nat /\ N >= 2 /\ 0 \in Cell
  BY Sizes DEF Cell
<1>2. stateText' \in Block
  BY Places DEF TypeOK, InvShiftRows, Block
<1>3. TypeOK'
  BY <1>1, <1>2 DEF TypeOK, Pass
<1>4. EachPositionOnce' /\ Placed'
  BY DEF EachPositionOnce, Placed
<1> QED
  BY <1>3, <1>4

LEMMA SubInv == IInv /\ inverse_subbytes => IInv'
<1> SUFFICES ASSUME IInv, inverse_subbytes PROVE IInv'
  OBVIOUS
<1> USE DEF IInv, inverse_subbytes, Advance, Goto, maskVars
<1>1. N \in Nat /\ N >= 2 /\ 0 \in Cell
  BY Sizes DEF Cell
<1>2. i \in Nat /\ i \in Cell /\ i < N /\ shuffling_array[i] \in Cell
  BY <1>1 DEF TypeOK, Cell
<1>3. stateText' \in Block
  BY <1>2, SubstitutedType
<1>4. i' \in Cell /\ pc' \in Pass
  BY <1>1, <1>2 DEF TypeOK, Pass, Cell
<1>5. TypeOK'
  BY <1>3, <1>4 DEF TypeOK
<1>6. EachPositionOnce' /\ Placed'
  BY DEF EachPositionOnce, Placed
<1> QED
  BY <1>5, <1>6

LEMMA MixInv == IInv /\ inverse_mix_coloumns => IInv'
<1> SUFFICES ASSUME IInv, inverse_mix_coloumns PROVE IInv'
  OBVIOUS
<1> USE DEF IInv, inverse_mix_coloumns, Goto, maskVars
<1>1. N \in Nat /\ N >= 2 /\ 0 \in Cell /\ N - 1 \in Cell
  BY Sizes DEF Cell
<1>2. InvMixColumns(stateText) \in Block
  BY MixedType DEF TypeOK
<1>3. \A c \in Cell :
        m_out_inv_col[Row(c)] \in Value /\ mask_in \in Value
  BY MaskTypes, ShapeAssumption DEF TypeOK
<1>4. Remasked(InvMixColumns(stateText)) \in Block
  BY <1>2, <1>3, XorAssumption DEF Remasked, Block
<1>5. stateText' \in Block
  BY <1>2, <1>4
<1>6. roundCount' \in 0..Rounds
  BY ShapeAssumption DEF TypeOK, Placed
<1>7. TypeOK'
  BY <1>1, <1>5, <1>6 DEF TypeOK, Pass
<1>8. EachPositionOnce'
  BY DEF EachPositionOnce
<1>9. Placed'
  BY <1>1, ShapeAssumption DEF Placed, TypeOK, Has
<1> QED
  BY <1>7, <1>8, <1>9

LEMMA StepInv == IInv /\ [Next]_vars => IInv'
<1> SUFFICES ASSUME IInv, [Next]_vars PROVE IInv'
  OBVIOUS
<1>1. CASE UNCHANGED vars
  BY <1>1 DEF vars, blockVars, maskVars, IInv, TypeOK, EachPositionOnce,
              Placed, Has
<1> QED
  BY <1>1, CallInv, ShuffleInv, MaskInv, KeyInv, ShiftInv, SubInv, MixInv
     DEF Next

\* Every variable of Aes.tla stays in its range, in every build.
THEOREM TypeCorrect == Spec => []TypeOK
<1>1. IInv => TypeOK
  BY DEF IInv
<1> QED
  BY <1>1, InitInv, StepInv, PTL DEF Spec

\* shuffling_array stays a permutation however often and with whatever random
\* numbers generate_new_shuffling_array runs, for blocks of any size.
THEOREM AlwaysAPermutation == Spec => []EachPositionOnce
<1>1. IInv => EachPositionOnce
  BY DEF IInv
<1> QED
  BY <1>1, InitInv, StepInv, PTL DEF Spec
-----------------------------------------------------------------------------
(* Aes implements InvCipher: masks cancel, and each byte is treated once.  *)

LEMMA Cancels ==
  ASSUME NEW a \in Value, NEW m \in Value
  PROVE  Xor(Xor(a, m), m) = a
BY XorAssumption

LEMMA Replaces ==
  ASSUME NEW a \in Value, NEW b \in Value, NEW m \in Value
  PROVE  Xor(Xor(a, Xor(b, m)), m) = Xor(a, b)
<1>1. Xor(a, Xor(b, m)) = Xor(Xor(a, b), m)
  BY XorAssumption
<1> QED
  BY <1>1, Cancels, XorAssumption

\* Adding a masked key replaces the mask b by the mask w.
LEMMA KeyUnderMask ==
  ASSUME NEW a \in Value, NEW k \in Value, NEW b \in Value, NEW w \in Value
  PROVE  Xor(Xor(a, Xor(k, Xor(b, w))), w) = Xor(Xor(a, b), k)
<1>1. Xor(k, Xor(b, w)) = Xor(Xor(k, b), w)
  BY XorAssumption
<1>2. Xor(k, b) \in Value /\ Xor(k, b) = Xor(b, k)
  BY XorAssumption
<1>3. Xor(Xor(a, Xor(Xor(k, b), w)), w) = Xor(a, Xor(k, b))
  BY <1>2, Replaces
<1> QED
  BY <1>1, <1>2, <1>3, XorAssumption

At == IF Has("SHUFFLING") THEN shuffling_array[i] ELSE i

LEMMA AtNext ==
  ASSUME IInv
  PROVE  /\ At \in Cell /\ At \notin Done
         /\ i = 0 => Done = {}
         /\ i + 1 = N => Done \cup {At} = Cell
         /\ i' = i + 1 /\ UNCHANGED <<build, shuffling_array>> =>
              Done' = Done \cup {At}
<1>1. N \in Nat /\ i \in Nat /\ i < N /\ i \in Cell
  BY Sizes DEF IInv, TypeOK, Cell
<1>2. At \in Cell
  BY <1>1 DEF At, IInv, TypeOK
<1>3. At \notin Done
  BY <1>1 DEF At, Done, IInv, EachPositionOnce, Cell
<1>4. i = 0 => Done = {}
  BY DEF Done
<1>5. ASSUME i + 1 = N PROVE Done \cup {At} = Cell
  <2>1. Done \subseteq Cell
    BY <1>1 DEF Done, IInv, TypeOK, Cell
  <2>2. ASSUME NEW c \in Cell PROVE c \in Done \cup {At}
    <3>1. PICK k \in Cell : c = IF Has("SHUFFLING") THEN shuffling_array[k] ELSE k
      BY DEF IInv, EachPositionOnce
    <3>2. k = i \/ k \in 0 .. i - 1
      BY <1>1, <1>5 DEF Cell
    <3> QED
      BY <3>1, <3>2 DEF Done, At
  <2> QED
    BY <1>2, <2>1, <2>2
<1>6. ASSUME i' = i + 1, UNCHANGED <<build, shuffling_array>>
      PROVE  Done' = Done \cup {At}
  <2>1. 0 .. i' - 1 = (0 .. i - 1) \cup {i}
    BY <1>1, <1>6
  <2>2. Has("SHUFFLING")' = Has("SHUFFLING")
    BY <1>6 DEF Has
  <2> QED
    BY <2>1, <2>2, <1>6 DEF Done, At
<1> QED
  BY <1>2, <1>3, <1>4, <1>5, <1>6

\* What one turn of the loops does when a single macro is defined.
LEMMA OneTurn ==
  ASSUME build \in OneVariant, TypeOK
  PROVE  /\ KeyAdded(stateText, roundCount, i, shuffling_array[i])
              = XorAt(stateText, At,
                      IF Has("MASKING") THEN masked_round_key(roundCount, At)
                      ELSE Key[roundCount][At])
         /\ Substituted(stateText, i, shuffling_array[i])
              = [stateText EXCEPT ![At] =
                   IF Has("MASKING") THEN masked_aes_invsbox(stateText[At])
                   ELSE Sub(stateText[At])]
<1>1. CASE build = {"NORMAL"}
  BY <1>1 DEF Has, At, KeyAdded, Substituted
<1>2. CASE build = {"SHUFFLING"}
  BY <1>2 DEF Has, At, KeyAdded, Substituted
<1>3. CASE build = {"MASKING"}
  BY <1>3 DEF Has, At, KeyAdded, Substituted
<1> QED
  BY <1>1, <1>2, <1>3 DEF OneVariant

LEMMA WornTypes ==
  ASSUME TypeOK, NEW c \in Cell
  PROVE  Worn(c) \in Value /\ WornAfterKey(c) \in Value
BY MaskTypes, XorAssumption, ShapeAssumption DEF TypeOK, Worn, WornAfterKey

\* The key of a round, masked, takes off what the block wears and puts on what
\* it is to wear.
LEMMA KeyMaskIs ==
  ASSUME IInv, pc = "key", Has("MASKING"), NEW c \in Cell
  PROVE  KeyMask(roundCount, c) = Xor(Worn(c), WornAfterKey(c))
<1>1. m_out_inv_col[Row(c)] \in Value /\ m_in_inv_col[Row(c)] \in Value
      /\ mask_in \in Value /\ roundCount \in 0..Rounds
  BY MaskTypes, ShapeAssumption DEF IInv, TypeOK
<1>2. CASE roundCount = Rounds
  BY <1>1, <1>2, ShapeAssumption DEF KeyMask, Worn, WornAfterKey
<1>3. CASE roundCount = 0
  BY <1>1, <1>3, ShapeAssumption, XorAssumption DEF KeyMask, Worn, WornAfterKey
<1>4. CASE roundCount \notin {0, Rounds}
  BY <1>1, <1>4, XorAssumption DEF KeyMask, Worn, WornAfterKey, mask_out
<1> QED
  BY <1>2, <1>3, <1>4

LEMMA UnderKey ==
  ASSUME IInv, build \in OneVariant, pc = "key", add_round_key
  PROVE  /\ Xor(stateText'[At], WornAfterKey(At))
              = Xor(Xor(stateText[At], Worn(At)), Key[roundCount][At])
         /\ \A c \in Cell \ {At} : stateText'[c] = stateText[c]
<1>1. At \in Cell /\ stateText[At] \in Value /\ Key[roundCount][At] \in Value
      /\ Worn(At) \in Value /\ WornAfterKey(At) \in Value
  BY AtNext, WornTypes, MaskTypes DEF IInv, TypeOK, Block
<1>2. stateText' = XorAt(stateText, At,
                         IF Has("MASKING") THEN masked_round_key(roundCount, At)
                         ELSE Key[roundCount][At])
  BY OneTurn DEF add_round_key, IInv
<1>3. /\ stateText'[At] = Xor(stateText[At],
             IF Has("MASKING") THEN masked_round_key(roundCount, At)
             ELSE Key[roundCount][At])
      /\ \A c \in Cell \ {At} : stateText'[c] = stateText[c]
  BY <1>1, <1>2 DEF XorAt, IInv, TypeOK, Block
<1>4. CASE Has("MASKING")
  <2>1. masked_round_key(roundCount, At)
          = Xor(Key[roundCount][At], Xor(Worn(At), WornAfterKey(At)))
    BY <1>1, <1>4, KeyMaskIs DEF masked_round_key
  <2>2. stateText'[At] = Xor(stateText[At], masked_round_key(roundCount, At))
    BY <1>3, <1>4
  <2>3. Xor(Xor(stateText[At], Xor(Key[roundCount][At],
                                   Xor(Worn(At), WornAfterKey(At)))),
            WornAfterKey(At))
          = Xor(Xor(stateText[At], Worn(At)), Key[roundCount][At])
    BY <1>1, KeyUnderMask
  <2> QED
    BY <2>1, <2>2, <2>3, <1>3
<1>5. CASE ~Has("MASKING")
  <2>1. stateText'[At] = Xor(stateText[At], Key[roundCount][At])
    BY <1>3, <1>5
  <2>2. Worn(At) = Zero /\ WornAfterKey(At) = Zero
    BY <1>5 DEF Worn, WornAfterKey
  <2> QED
    BY <2>1, <2>2, <1>1, <1>3, XorAssumption
<1> QED
  BY <1>4, <1>5

\* The block with the key of the pass added to every byte.
Keyed == [c \in Cell |->
            IF c \in Done THEN Xor(stateText[c], WornAfterKey(c))
            ELSE Xor(Xor(stateText[c], Worn(c)), Key[roundCount][c])]

LEMMA KeyedKept ==
  ASSUME IInv, build \in OneVariant, add_round_key
  PROVE  Bare' = Keyed
<1> USE DEF add_round_key
<1>1. N \in Nat /\ i \in Nat /\ i < N /\ N >= 2
  BY Sizes DEF IInv, TypeOK, Cell
<1>2. /\ Has("MASKING")' = Has("MASKING") /\ Has("SHUFFLING")' = Has("SHUFFLING")
      /\ m_out_inv_col' = m_out_inv_col
  BY DEF Has, m_out_inv_col, maskVars
<1>3. /\ Xor(stateText'[At], WornAfterKey(At))
           = Xor(Xor(stateText[At], Worn(At)), Key[roundCount][At])
      /\ \A c \in Cell \ {At} : stateText'[c] = stateText[c]
      /\ At \in Cell /\ At \notin Done
  BY UnderKey, AtNext
<1>4. CASE i + 1 < N
  <2>1. i' = i + 1 /\ pc' = "key" /\ roundCount' = roundCount
    BY <1>4 DEF Advance
  <2>2. Done' = Done \cup {At}
    BY <2>1, AtNext
  <2>3. ASSUME NEW c \in Cell
        PROVE  Worn(c)' = Worn(c) /\ WornAfterKey(c)' = WornAfterKey(c)
    BY <1>2, <2>1 DEF Worn, WornAfterKey, maskVars
  <2>4. Bare' = [c \in Cell |->
                   IF c \in Done' THEN Xor(stateText'[c], WornAfterKey(c)')
                   ELSE Xor(Xor(stateText'[c], Worn(c)'), Key[roundCount][c])]
    BY <1>1, <2>1 DEF Bare
  <2>5. ASSUME NEW c \in Cell
        PROVE  (IF c \in Done' THEN Xor(stateText'[c], WornAfterKey(c)')
                ELSE Xor(Xor(stateText'[c], Worn(c)'), Key[roundCount][c]))
               = (IF c \in Done THEN Xor(stateText[c], WornAfterKey(c))
                  ELSE Xor(Xor(stateText[c], Worn(c)), Key[roundCount][c]))
    BY <1>3, <2>2, <2>3
  <2> QED
    BY <2>4, <2>5 DEF Keyed
<1>5. CASE ~(i + 1 < N)
  <2>1. i + 1 = N /\ Done \cup {At} = Cell
    BY <1>1, <1>5, AtNext
  <2>2. /\ pc' = AfterKey(roundCount) /\ roundCount' = RoundAfterKey(roundCount)
        /\ i' = IF pc' = "shuffle" THEN N - 1 ELSE 0
    BY <1>5 DEF Advance, Goto
  <2>3. pc' \in {"shuffle", "shift", "idle", "mix"}
        /\ (pc' = "shuffle" => Has("SHUFFLING"))
    BY <2>2 DEF AfterKey
  <2>4. Has("SHUFFLING") => ~Has("MASKING")
    BY DEF OneVariant, Has
  <2>5. ASSUME NEW c \in Cell PROVE Worn(c)' = WornAfterKey(c)
    <3>1. CASE ~Has("MASKING")
      BY <3>1, <1>2 DEF Worn, WornAfterKey
    <3>2. CASE Has("MASKING") /\ roundCount = 0
      BY <3>2, <1>2, <2>2, ShapeAssumption DEF Worn, WornAfterKey, AfterKey
    <3>3. CASE Has("MASKING") /\ roundCount = Rounds
      BY <3>3, <1>2, <2>2, <2>3, <2>4, ShapeAssumption
         DEF Worn, WornAfterKey, AfterKey, maskVars
    <3>4. CASE Has("MASKING") /\ roundCount \notin {0, Rounds}
      BY <3>4, <1>2, <2>2 DEF Worn, WornAfterKey, AfterKey, maskVars
    <3> QED
      BY <3>1, <3>2, <3>3, <3>4
  <2>6. Bare' = [c \in Cell |-> Xor(stateText'[c], Worn(c)')]
    BY <2>3 DEF Bare
  <2> QED
    BY <1>3, <2>1, <2>5, <2>6 DEF Keyed
<1> QED
  BY <1>4, <1>5

PlainVars == <<Bare, PlainRound, PlainOp>>

LEMMA KeyRefines ==
  ASSUME IInv, build \in OneVariant, add_round_key
  PROVE  Plain!Add \/ UNCHANGED PlainVars
<1> USE DEF add_round_key
<1>1. N \in Nat /\ i \in Nat /\ i < N /\ N >= 2
  BY Sizes DEF IInv, TypeOK, Cell
<1>2. Bare' = Keyed
  BY KeyedKept
<1>3. /\ PlainOp' = PlainAfterKey(roundCount)
      /\ PlainRound' = RoundAfterKey(roundCount)
  <2>1. CASE i + 1 < N
    BY <1>1, <2>1, ShapeAssumption
       DEF Advance, PlainOp, PlainRound, PlainAfterKey, RoundAfterKey
  <2>2. CASE ~(i + 1 < N)
    <3>1. /\ pc' = AfterKey(roundCount)
          /\ roundCount' = RoundAfterKey(roundCount)
      BY <2>2 DEF Advance, Goto
    <3>2. PlainRound' = roundCount'
      BY <3>1, ShapeAssumption DEF PlainRound, AfterKey
    <3>3. PlainOp' = PlainAfterKey(roundCount)
      BY <3>1, ShapeAssumption
         DEF PlainOp, PlainAfterKey, AfterKey, RoundAfterKey, IInv, TypeOK
    <3> QED
      BY <3>1, <3>2, <3>3
  <2> QED
    BY <2>1, <2>2
<1>4. CASE i = 0
  <2>1. Bare = [c \in Cell |-> Xor(stateText[c], Worn(c))] /\ Done = {}
    BY <1>4, AtNext DEF Bare
  <2>2. Keyed = Plain!AddRoundKey(Bare, roundCount)
    BY <2>1 DEF Keyed, Plain!AddRoundKey, Plain!Cell, Plain!N, Cell, N
  <2>3. PlainOp = "key" /\ PlainRound = roundCount
    BY <1>4 DEF PlainOp, PlainRound
  <2> QED
    BY <1>2, <1>3, <2>2, <2>3
       DEF Plain!Add, Plain!AfterKey, Plain!RoundAfterKey, PlainAfterKey,
           RoundAfterKey
<1>5. CASE i > 0
  <2>1. Bare = Keyed
    BY <1>5 DEF Bare, Keyed
  <2>2. /\ PlainOp = PlainAfterKey(roundCount)
        /\ PlainRound = RoundAfterKey(roundCount)
    BY <1>5 DEF PlainOp, PlainRound, RoundAfterKey
  <2> QED
    BY <1>2, <1>3, <2>1, <2>2 DEF PlainVars
<1> QED
  BY <1>1, <1>4, <1>5

\* The block with every byte substituted.
Looked == [c \in Cell |->
             IF c \in Done THEN Xor(stateText[c], Worn(c))
             ELSE Sub(Xor(stateText[c], Worn(c)))]

LEMMA UnderSub ==
  ASSUME IInv, build \in OneVariant, inverse_subbytes
  PROVE  /\ Xor(stateText'[At], Worn(At)) = Sub(Xor(stateText[At], Worn(At)))
         /\ \A c \in Cell \ {At} : stateText'[c] = stateText[c]
<1>1. At \in Cell /\ stateText[At] \in Value /\ mask_in \in Value
  BY AtNext DEF IInv, TypeOK, Block
<1>2. /\ stateText'[At] = IF Has("MASKING") THEN masked_aes_invsbox(stateText[At])
                          ELSE Sub(stateText[At])
      /\ \A c \in Cell \ {At} : stateText'[c] = stateText[c]
  BY <1>1, OneTurn DEF inverse_subbytes, IInv, TypeOK, Block
<1>3. CASE Has("MASKING")
  <2>1. Worn(At) = mask_in
    BY <1>3 DEF Worn, inverse_subbytes
  <2>2. Sub(Xor(stateText[At], mask_in)) \in Value
    BY <1>1, XorAssumption, SubAssumption
  <2>3. stateText'[At] = Xor(Sub(Xor(stateText[At], mask_in)), mask_in)
    BY <1>2, <1>3 DEF masked_aes_invsbox, mask_out
  <2> QED
    BY <1>1, <1>2, <2>1, <2>2, <2>3, Cancels
<1>4. CASE ~Has("MASKING")
  <2>1. Worn(At) = Zero
    BY <1>4 DEF Worn
  <2>2. stateText'[At] = Sub(stateText[At]) /\ Sub(stateText[At]) \in Value
    BY <1>1, <1>2, <1>4, SubAssumption
  <2> QED
    BY <1>1, <1>2, <2>1, <2>2, XorAssumption
<1> QED
  BY <1>3, <1>4

LEMMA LookedKept ==
  ASSUME IInv, build \in OneVariant, inverse_subbytes
  PROVE  Bare' = Looked
<1> USE DEF inverse_subbytes
<1>1. N \in Nat /\ i \in Nat /\ i < N /\ N >= 2
  BY Sizes DEF IInv, TypeOK, Cell
<1>2. Has("MASKING")' = Has("MASKING") /\ Has("SHUFFLING")' = Has("SHUFFLING")
  BY DEF Has
<1>3. /\ Xor(stateText'[At], Worn(At)) = Sub(Xor(stateText[At], Worn(At)))
      /\ \A c \in Cell \ {At} : stateText'[c] = stateText[c]
      /\ At \in Cell /\ At \notin Done
  BY UnderSub, AtNext
<1>4. ASSUME NEW c \in Cell PROVE Worn(c)' = Worn(c)
  BY <1>2, ShapeAssumption DEF Worn, maskVars, Advance, Goto, IInv, Placed, TypeOK
<1>5. CASE i + 1 < N
  <2>1. i' = i + 1 /\ pc' = "sub"
    BY <1>5 DEF Advance
  <2>2. Done' = Done \cup {At}
    BY <2>1, AtNext
  <2>3. Bare' = [c \in Cell |-> IF c \in Done' THEN Xor(stateText'[c], Worn(c)')
                                ELSE Sub(Xor(stateText'[c], Worn(c)'))]
    BY <1>1, <2>1 DEF Bare
  <2>4. ASSUME NEW c \in Cell
        PROVE  (IF c \in Done' THEN Xor(stateText'[c], Worn(c)')
                ELSE Sub(Xor(stateText'[c], Worn(c)')))
               = (IF c \in Done THEN Xor(stateText[c], Worn(c))
                  ELSE Sub(Xor(stateText[c], Worn(c))))
    BY <1>3, <1>4, <2>2
  <2> QED
    BY <2>3, <2>4 DEF Looked
<1>6. CASE ~(i + 1 < N)
  <2>1. i + 1 = N /\ Done \cup {At} = Cell
    BY <1>1, <1>6, AtNext
  <2>2. pc' = "key" /\ i' = 0
    BY <1>6 DEF Advance, Goto
  <2>3. Bare' = [c \in Cell |-> Xor(stateText'[c], Worn(c)')]
    BY <2>2 DEF Bare
  <2> QED
    BY <1>3, <1>4, <2>1, <2>3 DEF Looked
<1> QED
  BY <1>5, <1>6

LEMMA SubRefines ==
  ASSUME IInv, build \in OneVariant, inverse_subbytes
  PROVE  Plain!Substitute \/ UNCHANGED PlainVars
<1> USE DEF inverse_subbytes
<1>1. N \in Nat /\ i \in Nat /\ i < N /\ N >= 2
  BY Sizes DEF IInv, TypeOK, Cell
<1>2. Bare' = Looked
  BY LookedKept
<1>3. PlainOp' = "key" /\ PlainRound' = roundCount
  BY <1>1 DEF Advance, Goto, PlainOp, PlainRound
<1>4. CASE i = 0
  <2>1. Bare = [c \in Cell |-> Xor(stateText[c], Worn(c))] /\ Done = {}
    BY <1>4, AtNext DEF Bare
  <2>2. Looked = Plain!InvSubBytes(Bare)
    BY <2>1 DEF Looked, Plain!InvSubBytes, Plain!Cell, Plain!N, Cell, N
  <2>3. PlainOp = "sub" /\ PlainRound = roundCount
    BY <1>4 DEF PlainOp, PlainRound
  <2> QED
    BY <1>2, <1>3, <2>2, <2>3 DEF Plain!Substitute
<1>5. CASE i > 0
  <2>1. Bare = Looked
    BY <1>5 DEF Bare, Looked
  <2>2. PlainOp = "key" /\ PlainRound = roundCount
    BY <1>5 DEF PlainOp, PlainRound
  <2> QED
    BY <1>2, <1>3, <2>1, <2>2 DEF PlainVars
<1> QED
  BY <1>1, <1>4, <1>5

LEMMA ShiftRefines ==
  ASSUME IInv, inverse_shift_rows
  PROVE  Plain!Shift
<1> USE DEF inverse_shift_rows, Goto
<1>1. i = 0 /\ roundCount # Rounds
  BY ShapeAssumption DEF IInv, Placed, TypeOK
<1>2. PlainOp = "shift" /\ PlainOp' = "sub" /\ PlainRound' = PlainRound
  BY <1>1 DEF PlainOp, PlainRound
<1> DEFINE w == IF Has("MASKING") THEN mask_in ELSE Zero
<1>4. ASSUME NEW c \in Cell PROVE Worn(c) = w /\ Worn(c)' = w
  BY DEF Worn, Has, maskVars
<1>5. Bare = [c \in Cell |-> Xor(stateText[c], w)]
  BY <1>4 DEF Bare
<1>6. Bare' = [c \in Cell |-> Xor(stateText'[c], w)]
  BY <1>4 DEF Bare
<1>7. Plain!InvShiftRows(Bare) = [c \in Cell |-> Bare[ShiftedFrom(c)]]
  BY DEF Plain!InvShiftRows, Plain!ShiftedFrom, Plain!Row, Plain!Col,
         Plain!Cell, Plain!N, ShiftedFrom, Row, Col, Cell, N
<1>8. Bare' = [c \in Cell |-> Bare[ShiftedFrom(c)]]
  BY <1>5, <1>6, Places DEF InvShiftRows
<1> QED
  BY <1>2, <1>7, <1>8 DEF Plain!Shift

LEMMA ShuffleRefines ==
  ASSUME IInv, build \in OneVariant, generate_new_shuffling_array
  PROVE  UNCHANGED PlainVars
<1> USE DEF generate_new_shuffling_array, Goto, Prepared
<1>1. Has("SHUFFLING") /\ ~Has("MASKING") /\ Has("MASKING")' = FALSE
      /\ roundCount \in {0, Rounds} /\ Rounds # 0
  BY ShapeAssumption DEF IInv, Placed, OneVariant, Has
<1>2. \/ pc' = "shuffle"
      \/ pc' = "shift" /\ roundCount = 0
      \/ pc' = "key" /\ roundCount = Rounds /\ i' = 0
  BY <1>1
<1>3. UNCHANGED <<PlainOp, PlainRound>>
  BY <1>1, <1>2 DEF PlainOp, PlainRound, blockVars
<1>4. ASSUME NEW c \in Cell PROVE Worn(c) = Zero /\ Worn(c)' = Zero
  BY <1>1 DEF Worn
<1>5. UNCHANGED Bare
  BY <1>1, <1>2, <1>4 DEF Bare, blockVars
<1> QED
  BY <1>3, <1>5 DEF PlainVars

LEMMA MaskRefines ==
  ASSUME IInv, Mask
  PROVE  UNCHANGED PlainVars
<1> USE DEF Mask, Goto
<1>1. /\ i = 0 /\ roundCount = Rounds /\ roundCount' = Rounds
      /\ Has("MASKING") /\ Has("MASKING")'
  BY DEF IInv, Placed, Has
<1>2. UNCHANGED <<PlainOp, PlainRound>>
  BY <1>1 DEF PlainOp, PlainRound
<1>3. ASSUME NEW c \in Cell
      PROVE  /\ Worn(c) = Zero
             /\ Worn(c)' = MixColumn(m_in_inv_col')[Row(c)]
  BY <1>1 DEF Worn, m_out_inv_col
<1>4. /\ Bare = [c \in Cell |-> Xor(stateText[c], Zero)]
      /\ Bare' = [c \in Cell |->
                    Xor(stateText'[c], MixColumn(m_in_inv_col')[Row(c)])]
  BY <1>3 DEF Bare
<1>5. IInv'
  BY MaskInv
<1>6. ASSUME NEW c \in Cell
      PROVE  Xor(stateText[c], Zero)
               = Xor(stateText'[c], MixColumn(m_in_inv_col')[Row(c)])
  <2> DEFINE w == MixColumn(m_in_inv_col')[Row(c)]
  <2>1. w \in Value
    <3>1. m_in_inv_col' \in Column
      BY <1>5 DEF IInv, TypeOK
    <3> QED
      BY <3>1, Places, MixAssumption DEF Column
  <2>2. stateText[c] \in Value /\ stateText'[c] = Xor(stateText[c], w)
    BY DEF IInv, TypeOK, Block
  <2> HIDE DEF w
  <2>3. Xor(stateText[c], Zero) = Xor(stateText'[c], w)
    BY <2>1, <2>2, Cancels, XorAssumption
  <2> QED
    BY <2>3 DEF w
<1>7. UNCHANGED Bare
  BY <1>4, <1>6
<1> QED
  BY <1>2, <1>7 DEF PlainVars

\* Mixing is linear: the masks of a column come out as m_out_inv_col.
LEMMA MixUnderMask ==
  ASSUME IInv, NEW c \in Cell
  PROVE  MixColumn(ColumnOf([d \in Cell |->
                               Xor(stateText[d], m_in_inv_col[Row(d)])],
                            Col(c)))[Row(c)]
           = Xor(InvMixColumns(stateText)[c], m_out_inv_col[Row(c)])
<1> DEFINE x == ColumnOf(stateText, Col(c))
           y == m_in_inv_col
<1>1. x \in Column /\ y \in Column
  BY Places, MixedType DEF IInv, TypeOK
<1>2. ColumnOf([d \in Cell |-> Xor(stateText[d], m_in_inv_col[Row(d)])], Col(c))
        = [r \in 0 .. Rows - 1 |-> Xor(x[r], y[r])]
  BY Places, CellAt DEF ColumnOf
<1>3. InvMixColumns(stateText)[c] = MixColumn(x)[Row(c)]
  BY DEF InvMixColumns
<1> HIDE DEF x, y
<1>4. MixColumn([r \in 0 .. Rows - 1 |-> Xor(x[r], y[r])])
        = [r \in 0 .. Rows - 1 |-> Xor(MixColumn(x)[r], MixColumn(y)[r])]
  BY <1>1, MixAssumption
<1>5. MixColumn([r \in 0 .. Rows - 1 |-> Xor(x[r], y[r])])[Row(c)]
        = Xor(MixColumn(x)[Row(c)], MixColumn(y)[Row(c)])
  BY <1>4, Places
<1> QED
  BY <1>2, <1>3, <1>5 DEF m_out_inv_col, y

LEMMA BlockIsBare ==
  ASSUME NEW s \in Block
  PROVE  [c \in Cell |-> Xor(s[c], Zero)] = s
BY XorAssumption DEF Block

LEMMA MixRefines ==
  ASSUME IInv, build \in OneVariant, inverse_mix_coloumns
  PROVE  Plain!Mix
<1> USE DEF inverse_mix_coloumns, Goto
<1>1. /\ i = 0 /\ roundCount \in 1 .. Rounds - 1
      /\ roundCount - 1 \in 0 .. Rounds - 2
  BY ShapeAssumption DEF IInv, Placed, TypeOK
<1>2. Has("SHUFFLING") => ~Has("MASKING")
  BY DEF OneVariant, Has
<1>3. /\ Has("MASKING")' = Has("MASKING") /\ Has("SHUFFLING")' = Has("SHUFFLING")
      /\ m_out_inv_col' = m_out_inv_col
  BY DEF Has, m_out_inv_col, maskVars
<1>4. /\ PlainOp = "mix" /\ PlainOp' = "shift"
      /\ PlainRound = roundCount /\ PlainRound' = roundCount - 1
  BY <1>1 DEF PlainOp, PlainRound
<1>5. Plain!InvMixColumns(Bare)
        = [c \in Cell |-> MixColumn(ColumnOf(Bare, Col(c)))[Row(c)]]
  BY DEF Plain!InvMixColumns, Plain!ColumnOf, Plain!Row, Plain!Col, Plain!Cell,
         Plain!N, ColumnOf, Row, Col, Cell, N
<1>6. CASE Has("MASKING")
  <2>1. ASSUME NEW c \in Cell
        PROVE  Worn(c) = m_in_inv_col[Row(c)] /\ Worn(c)' = mask_in
    BY <1>2, <1>3, <1>6 DEF Worn, maskVars
  <2>2. /\ Bare = [c \in Cell |-> Xor(stateText[c], m_in_inv_col[Row(c)])]
        /\ Bare' = [c \in Cell |-> Xor(stateText'[c], mask_in)]
    BY <2>1, <1>1 DEF Bare
  <2>3. ASSUME NEW c \in Cell
        PROVE  Xor(stateText'[c], mask_in)
                 = Xor(InvMixColumns(stateText)[c], m_out_inv_col[Row(c)])
    <3>1. /\ InvMixColumns(stateText)[c] \in Value /\ mask_in \in Value
          /\ m_out_inv_col[Row(c)] \in Value
      BY MixedType, MaskTypes, ShapeAssumption DEF IInv, TypeOK, Block
    <3>2. stateText'[c] = Xor(InvMixColumns(stateText)[c],
                              Xor(m_out_inv_col[Row(c)], mask_in))
      BY <1>6 DEF Remasked
    <3> QED
      BY <3>1, <3>2, Replaces
  <2>4. ASSUME NEW c \in Cell
        PROVE  MixColumn(ColumnOf(Bare, Col(c)))[Row(c)]
                 = Xor(InvMixColumns(stateText)[c], m_out_inv_col[Row(c)])
    BY <2>2, MixUnderMask
  <2>5. Bare' = Plain!InvMixColumns(Bare)
    BY <1>5, <2>2, <2>3, <2>4
  <2> QED
    BY <1>4, <2>5 DEF Plain!Mix
<1>7. CASE ~Has("MASKING")
  <2>1. ASSUME NEW c \in Cell PROVE Worn(c) = Zero /\ Worn(c)' = Zero
    BY <1>3, <1>7 DEF Worn
  <2>2. stateText' = InvMixColumns(stateText)
        /\ stateText' \in Block /\ stateText \in Block
    BY <1>7, MixedType DEF IInv, TypeOK
  <2>3. Bare = stateText
    <3>1. Bare = [c \in Cell |-> Xor(stateText[c], Zero)]
      BY <1>1, <2>1 DEF Bare
    <3> QED
      BY <3>1, <2>2, BlockIsBare
  <2>4. Bare' = stateText'
    <3>1. Bare' = [c \in Cell |-> Xor(stateText'[c], Zero)]
      BY <2>1 DEF Bare
    <3> QED
      BY <3>1, <2>2, BlockIsBare
  <2>5. Bare' = Plain!InvMixColumns(Bare)
    BY <1>5, <2>2, <2>3, <2>4 DEF InvMixColumns
  <2> QED
    BY <1>4, <2>5 DEF Plain!Mix
<1> QED
  BY <1>6, <1>7

\* A call starts with the given block, not masked yet.
LEMMA BareAtCall ==
  ASSUME IInv, build \in OneVariant, Call
  PROVE  /\ Bare' = stateText'
         /\ PlainOp = "idle" /\ PlainOp' = "key" /\ PlainRound' = Rounds
<1> USE DEF Call, Goto, Prepared
<1>1. i = 0 /\ roundCount = 0
  BY DEF IInv, Placed
<1>2. PlainOp = "idle"
  BY <1>1 DEF PlainOp
<1>3. /\ pc' \in {"shuffle", "mask", "key"}
      /\ pc' # "shuffle" => i' = 0
      /\ pc' = "key" => ~Has("MASKING")
      /\ Has("MASKING")' = Has("MASKING")
  BY DEF Has
<1>4. PlainOp' = "key" /\ PlainRound' = Rounds
  BY <1>3, ShapeAssumption DEF PlainOp, PlainRound
<1>5. ASSUME NEW c \in Cell PROVE Worn(c)' = Zero
  BY <1>3 DEF Worn
<1>6. Bare' = [c \in Cell |-> Xor(stateText'[c], Zero)]
  BY <1>3, <1>5 DEF Bare
<1>7. Bare' = stateText'
  BY <1>6, BlockIsBare, BlockAssumption
<1> QED
  BY <1>2, <1>4, <1>7

LEMMA CallRefines ==
  ASSUME IInv, build \in OneVariant, Call
  PROVE  Plain!Begin
BY BareAtCall DEF Call, Plain!Begin

LEMMA InitRefines == Init => Plain!Init
<1> SUFFICES ASSUME Init PROVE Plain!Init
  OBVIOUS
<1> USE DEF Init
<1>1. PlainOp = "idle" /\ PlainRound = 0
  BY DEF PlainOp, PlainRound
<1>2. ASSUME NEW c \in Cell PROVE Worn(c) = Zero
  BY DEF Worn
<1>3. Bare = [c \in Cell |-> Xor(stateText[c], Zero)]
  BY <1>2 DEF Bare
<1>4. Bare = stateText
  BY <1>3, BlockIsBare, BlockAssumption
<1> QED
  BY <1>1, <1>4 DEF Plain!Init

LEMMA StepRefines ==
  ASSUME IInv, build \in OneVariant, [Next]_vars
  PROVE  [Plain!Next]_PlainVars
<1>1. CASE UNCHANGED vars
  <2>1. UNCHANGED <<PlainOp, PlainRound, Bare>>
    BY <1>1 DEF vars, blockVars, maskVars, PlainOp, PlainRound, PlainAfterKey,
                Bare, Done, Worn, WornAfterKey, Has, m_out_inv_col
  <2> QED
    BY <2>1 DEF PlainVars
<1>2. CASE Call
  BY <1>2, CallRefines DEF Plain!Next
<1>3. CASE generate_new_shuffling_array
  BY <1>3, ShuffleRefines
<1>4. CASE Mask
  BY <1>4, MaskRefines
<1>5. CASE add_round_key
  BY <1>5, KeyRefines DEF Plain!Next
<1>6. CASE inverse_shift_rows
  BY <1>6, ShiftRefines DEF Plain!Next
<1>7. CASE inverse_subbytes
  BY <1>7, SubRefines DEF Plain!Next
<1>8. CASE inverse_mix_coloumns
  BY <1>8, MixRefines DEF Plain!Next
<1> QED
  BY <1>1, <1>2, <1>3, <1>4, <1>5, <1>6, <1>7, <1>8 DEF Next

\* Built with one of NORMAL, SHUFFLING and MASKING, aes_dec_128 is the inverse
\* cipher of FIPS-197: every step of its loops is a transformation of the whole
\* block or changes nothing of it.
THEOREM DecryptionRefined ==
  ASSUME Builds \subseteq OneVariant
  PROVE  Spec => ImplementsInvCipher
<1>1. IInv => build \in OneVariant
  BY DEF IInv, TypeOK
<1>2. IInv /\ [Next]_vars => [Plain!Next]_PlainVars
  BY <1>1, StepRefines
<1> QED
  BY <1>2, InitInv, StepInv, InitRefines, PTL
     DEF Spec, ImplementsInvCipher, Plain!Spec, Plain!vars, PlainVars
-----------------------------------------------------------------------------
(* The rounds of InvCipherOf: the function it is defined by exists, as the *)
(* rounds left to do can be counted.                                       *)

LEMMA Smallest ==
  ASSUME NEW T, T \subseteq Nat, T # {}
  PROVE  \E n \in T : \A m \in T : n <= m
<1>1. PICK x \in T : \A y \in T : ~(<<y, x>> \in OpToRel(<, Nat))
  BY NatLessThanWellFounded, WFMin
<1>2. \A k, m \in Nat : m < k => <<m, k>> \in OpToRel(<, Nat)
  BY DEF OpToRel
<1>3. \A y \in T : ~(y < x)
  BY ONLY <1>1, <1>2, T \subseteq Nat
<1>4. x \in Nat /\ \A m \in T : m \in Nat
  OBVIOUS
<1>5. \A m \in T : x <= m
  BY ONLY <1>3, <1>4
<1> QED
  BY <1>5

\* Induction, on the numbers of a set.
LEMMA SetInduction ==
  ASSUME NEW T, 0 \in T, \A n \in Nat : n \in T => n + 1 \in T
  PROVE  Nat \subseteq T
<1> SUFFICES ASSUME Nat \ T # {} PROVE FALSE
  OBVIOUS
<1>1. PICK n \in Nat \ T : \A m \in Nat \ T : n <= m
  BY Smallest
<1>2. n # 0 /\ n - 1 \in Nat
  BY <1>1
<1>3. n - 1 \in T
  BY <1>1, <1>2
<1> QED
  BY <1>1, <1>2, <1>3

\* The block that round r begins with when the state before it was s, and the
\* state after it.
Entering(s, r) == IF r + 1 = Rounds THEN s ELSE InvMixColumns(s)
After(s, r) == AddRoundKey(InvSubBytes(InvShiftRows(Entering(s, r))), r)

\* f is what InvCipherOf defines, for the last n + 1 of the keys.
StatesFrom(f, input, n) ==
  f = [r \in Rounds - n .. Rounds |->
         IF r = Rounds THEN AddRoundKey(input, r) ELSE After(f[r + 1], r)]

LEMMA StatesExist ==
  ASSUME NEW input
  PROVE  \E f : StatesFrom(f, input, Rounds)
<1> DEFINE T == {n \in Nat : n <= Rounds => \E f : StatesFrom(f, input, n)}
<1>1. 0 \in T
  <2> DEFINE f == [r \in Rounds - 0 .. Rounds |-> AddRoundKey(input, r)]
  <2>1. \A r \in Rounds - 0 .. Rounds : r = Rounds
    BY ShapeAssumption
  <2>2. f = [r \in Rounds - 0 .. Rounds |->
               IF r = Rounds THEN AddRoundKey(input, r) ELSE After(f[r + 1], r)]
    BY <2>1, Zenon
  <2>3. StatesFrom(f, input, 0)
    BY <2>2, Zenon DEF StatesFrom
  <2> QED
    BY <2>3
<1>2. ASSUME NEW n \in Nat, n \in T PROVE n + 1 \in T
  <2> SUFFICES ASSUME n + 1 <= Rounds
               PROVE  \E f : StatesFrom(f, input, n + 1)
    BY <1>2
  <2>1. PICK f : StatesFrom(f, input, n)
    BY <1>2, ShapeAssumption
  <2> DEFINE a == Rounds - (n + 1)
             g == [r \in a .. Rounds |->
                     IF r = a THEN After(f[a + 1], a) ELSE f[r]]
  <2>2. /\ a \in Nat /\ a < Rounds
        /\ Rounds - n = a + 1
        /\ \A r \in a .. Rounds : r # a => r \in a + 1 .. Rounds
        /\ \A r \in a .. Rounds :
             r # Rounds => r + 1 \in a .. Rounds /\ r + 1 # a
    BY <1>2, ShapeAssumption
  <2>3. f = [r \in a + 1 .. Rounds |->
               IF r = Rounds THEN AddRoundKey(input, r) ELSE After(f[r + 1], r)]
    BY <2>1, <2>2 DEF StatesFrom
  <2> HIDE DEF a
  <2>4. ASSUME NEW r \in a .. Rounds
        PROVE  (IF r = a THEN After(f[a + 1], a) ELSE f[r])
               = (IF r = Rounds THEN AddRoundKey(input, r)
                  ELSE After(g[r + 1], r))
    <3>1. r # Rounds => g[r + 1] = f[r + 1]
      BY <2>2
    <3>2. CASE r = a
      BY <2>2, <3>1, <3>2
    <3>3. CASE r # a
      <4>1. f[r] = IF r = Rounds THEN AddRoundKey(input, r)
                   ELSE After(f[r + 1], r)
        <5>1. r \in a + 1 .. Rounds
          BY <2>2, <3>3
        <5> QED
          BY <2>3, <5>1
      <4> QED
        BY <3>1, <3>3, <4>1
    <3> QED
      BY <3>2, <3>3
  <2>5. g = [r \in a .. Rounds |->
               IF r = Rounds THEN AddRoundKey(input, r) ELSE After(g[r + 1], r)]
    BY <2>4, Zenon
  <2>6. StatesFrom(g, input, n + 1)
    BY <2>5, Zenon DEF StatesFrom, a
  <2> QED
    BY <2>6
<1> HIDE DEF T
<1>3. Rounds \in T
  BY <1>1, <1>2, SetInduction, ShapeAssumption
<1> QED
  BY <1>3, ShapeAssumption DEF T

\* state of InvCipherOf, and what it is at each round.
States(input) ==
  CHOOSE f : f = [r \in 0..Rounds |->
                    IF r = Rounds THEN AddRoundKey(input, r)
                    ELSE After(f[r + 1], r)]

LEMMA StatesAre ==
  ASSUME NEW input
  PROVE  /\ InvCipherOf(input) = States(input)[0]
         /\ States(input)[Rounds] = AddRoundKey(input, Rounds)
         /\ \A r \in 0 .. Rounds - 1 :
              States(input)[r] = After(States(input)[r + 1], r)
<1>1. InvCipherOf(input) = States(input)[0]
  BY DEF InvCipherOf, States, After, Entering
<1>2. Rounds - Rounds = 0 /\ Rounds \in Nat
  BY ShapeAssumption
<1>3. \E f : f = [r \in 0..Rounds |->
                    IF r = Rounds THEN AddRoundKey(input, r)
                    ELSE After(f[r + 1], r)]
  <2>1. PICK f : StatesFrom(f, input, Rounds)
    BY StatesExist
  <2>2. f = [r \in 0..Rounds |->
               IF r = Rounds THEN AddRoundKey(input, r) ELSE After(f[r + 1], r)]
    BY <1>2, <2>1 DEF StatesFrom
  <2> QED
    BY <2>2
<1> DEFINE s == States(input)
<1>4. s = [r \in 0..Rounds |->
             IF r = Rounds THEN AddRoundKey(input, r) ELSE After(s[r + 1], r)]
  BY <1>3, Zenon DEF States
<1> HIDE DEF s
<1>5. /\ s[Rounds] = AddRoundKey(input, Rounds)
      /\ \A r \in 0 .. Rounds - 1 : s[r] = After(s[r + 1], r)
  BY <1>2, <1>4
<1> QED
  BY <1>1, <1>5 DEF s
-----------------------------------------------------------------------------
(* How far the decryption of the given block has come.                     *)

OnTheWay(b, r, o, input) ==
  LET before == Entering(States(input)[r + 1], r)
  IN /\ o \in {"idle", "key", "shift", "sub", "mix"} /\ r \in 0..Rounds
     /\ o \in {"shift", "sub", "mix"} => r < Rounds
     /\ o = "mix" => r > 0 /\ b = States(input)[r]
     /\ o = "shift" => b = before
     /\ o = "sub" => b = InvShiftRows(before)
     /\ o = "key" /\ r < Rounds => b = InvSubBytes(InvShiftRows(before))
     /\ o = "key" /\ r = Rounds => b = input
     /\ o = "idle" => b = States(input)[0]

Underway == given # NoBlock => OnTheWay(Bare, PlainRound, PlainOp, given)

LEMMA PlainTransforms ==
  ASSUME NEW s, NEW r
  PROVE  /\ Plain!AddRoundKey(s, r) = AddRoundKey(s, r)
         /\ Plain!InvSubBytes(s) = InvSubBytes(s)
         /\ Plain!InvShiftRows(s) = InvShiftRows(s)
         /\ Plain!InvMixColumns(s) = InvMixColumns(s)
BY DEF Plain!AddRoundKey, Plain!InvSubBytes, Plain!InvShiftRows,
       Plain!InvMixColumns, Plain!ColumnOf, Plain!ShiftedFrom, Plain!Row,
       Plain!Col, Plain!Cell, Plain!N, AddRoundKey, InvSubBytes, InvShiftRows,
       InvMixColumns, ColumnOf, ShiftedFrom, Row, Col, Cell, N

\* A transformation of the block takes it one further.
LEMMA TransformGoesOn ==
  ASSUME OnTheWay(Bare, PlainRound, PlainOp, given), given' = given,
         Plain!Add \/ Plain!Shift \/ Plain!Substitute \/ Plain!Mix
  PROVE  OnTheWay(Bare', PlainRound', PlainOp', given')
<1> DEFINE b == Bare
           r == PlainRound
           o == PlainOp
           b1 == Bare'
           r1 == PlainRound'
           o1 == PlainOp'
           s == States(given)
<1>1. /\ s[Rounds] = AddRoundKey(given, Rounds)
      /\ \A k \in 0 .. Rounds - 1 : s[k] = After(s[k + 1], k)
  BY StatesAre
<1>2. OnTheWay(b, r, o, given)
  OBVIOUS
<1>3. \/ /\ o = "key" /\ b1 = AddRoundKey(b, r)
         /\ r1 = (IF r = Rounds THEN r - 1 ELSE r)
         /\ o1 = (IF r = Rounds THEN "shift" ELSE IF r = 0 THEN "idle" ELSE "mix")
      \/ o = "shift" /\ b1 = InvShiftRows(b) /\ r1 = r /\ o1 = "sub"
      \/ o = "sub" /\ b1 = InvSubBytes(b) /\ r1 = r /\ o1 = "key"
      \/ o = "mix" /\ b1 = InvMixColumns(b) /\ r1 = r - 1 /\ o1 = "shift"
  <2>1. CASE Plain!Add
    <3>1. /\ PlainOp = "key" /\ Bare' = Plain!AddRoundKey(Bare, PlainRound)
          /\ PlainRound' = Plain!RoundAfterKey(PlainRound)
          /\ PlainOp' = Plain!AfterKey(PlainRound)
      BY <2>1 DEF Plain!Add
    <3>2. Plain!AddRoundKey(Bare, PlainRound) = AddRoundKey(Bare, PlainRound)
      BY PlainTransforms
    <3>3. Plain!RoundAfterKey(r) = IF r = Rounds THEN r - 1 ELSE r
      BY DEF Plain!RoundAfterKey
    <3>4. Plain!AfterKey(r)
            = IF r = Rounds THEN "shift" ELSE IF r = 0 THEN "idle" ELSE "mix"
      BY ShapeAssumption DEF Plain!AfterKey
    <3> QED
      BY <3>1, <3>2, <3>3, <3>4
  <2>2. CASE Plain!Shift
    BY <2>2, PlainTransforms DEF Plain!Shift
  <2>3. CASE Plain!Substitute
    BY <2>3, PlainTransforms DEF Plain!Substitute
  <2>4. CASE Plain!Mix
    BY <2>4, PlainTransforms DEF Plain!Mix
  <2> QED
    BY <2>1, <2>2, <2>3, <2>4
<1> SUFFICES OnTheWay(b1, r1, o1, given)
  OBVIOUS
<1> HIDE DEF b, r, o, b1, r1, o1, s
<1>4. r \in 0..Rounds /\ Rounds \in Nat \ {0}
  BY <1>2, ShapeAssumption DEF OnTheWay
<1>5. CASE o = "key" /\ r = Rounds
  <2>1. /\ r1 = Rounds - 1 /\ o1 = "shift" /\ r1 + 1 = Rounds
        /\ r1 \in 0..Rounds /\ r1 < Rounds
    BY <1>3, <1>4, <1>5
  <2>2. b1 = s[Rounds]
    BY <1>1, <1>2, <1>3, <1>5 DEF OnTheWay
  <2>3. b1 = Entering(s[r1 + 1], r1)
    BY <2>1, <2>2 DEF Entering
  <2> QED
    BY <2>1, <2>3 DEF OnTheWay, s
<1>6. CASE o = "key" /\ r # Rounds
  <2>1. r \in 0 .. Rounds - 1 /\ r < Rounds /\ r1 = r
    BY <1>3, <1>4, <1>6
  <2>2. b1 = After(s[r + 1], r)
    BY <1>2, <1>3, <1>6, <2>1 DEF OnTheWay, After, s
  <2>3. b1 = s[r]
    BY <1>1, <2>1, <2>2
  <2>4. CASE r = 0
    <3>1. o1 = "idle"
      BY <1>3, <1>6, <2>4
    <3> QED
      BY <1>4, <2>1, <2>3, <2>4, <3>1 DEF OnTheWay, s
  <2>5. CASE r # 0
    <3>1. o1 = "mix" /\ r > 0
      BY <1>3, <1>4, <1>6, <2>5
    <3> QED
      BY <1>4, <2>1, <2>3, <3>1 DEF OnTheWay, s
  <2> QED
    BY <2>4, <2>5
<1>7. CASE o = "shift"
  BY <1>2, <1>3, <1>4, <1>7 DEF OnTheWay, s
<1>8. CASE o = "sub"
  BY <1>2, <1>3, <1>4, <1>8 DEF OnTheWay, s
<1>9. CASE o = "mix"
  <2>1. /\ r > 0 /\ r < Rounds /\ b = s[r] /\ r1 = r - 1 /\ o1 = "shift"
        /\ b1 = InvMixColumns(b)
    BY <1>2, <1>3, <1>9 DEF OnTheWay, s
  <2>2. r1 \in 0..Rounds /\ r1 < Rounds /\ r1 + 1 = r /\ r1 + 1 # Rounds
    BY <1>4, <2>1
  <2>3. b1 = Entering(s[r1 + 1], r1)
    BY <2>1, <2>2 DEF Entering
  <2> QED
    BY <2>1, <2>2, <2>3 DEF OnTheWay, s
<1> QED
  BY <1>3, <1>5, <1>6, <1>7, <1>8, <1>9

LEMMA CallUnderway ==
  ASSUME IInv, build \in OneVariant, Call
  PROVE  Underway'
<1>1. Bare' = given' /\ PlainOp' = "key" /\ PlainRound' = Rounds
  BY BareAtCall DEF Call
<1>2. OnTheWay(given', Rounds, "key", given')
  BY ShapeAssumption DEF OnTheWay
<1> QED
  BY <1>1, <1>2 DEF Underway

LEMMA StepUnderway ==
  ASSUME IInv, Underway, build \in OneVariant, [Next]_vars
  PROVE  Underway'
<1>1. CASE Call
  BY <1>1, CallUnderway
<1>2. CASE UNCHANGED PlainVars /\ given' = given
  BY <1>2 DEF PlainVars, Underway, NoBlock
<1>3. CASE /\ Plain!Add \/ Plain!Shift \/ Plain!Substitute \/ Plain!Mix
           /\ given' = given
  BY <1>3, TransformGoesOn DEF Underway, NoBlock
<1>4. CASE UNCHANGED vars
  <2>1. UNCHANGED <<PlainOp, PlainRound, Bare>>
    BY <1>4 DEF vars, blockVars, maskVars, PlainOp, PlainRound, PlainAfterKey,
                Bare, Done, Worn, WornAfterKey, Has, m_out_inv_col
  <2> QED
    BY <1>2, <1>4, <2>1 DEF PlainVars, vars
<1>5. CASE generate_new_shuffling_array
  BY <1>2, <1>5, ShuffleRefines DEF generate_new_shuffling_array
<1>6. CASE Mask
  BY <1>2, <1>6, MaskRefines DEF Mask
<1>7. CASE add_round_key
  BY <1>2, <1>3, <1>7, KeyRefines DEF add_round_key
<1>8. CASE inverse_shift_rows
  BY <1>3, <1>8, ShiftRefines DEF inverse_shift_rows
<1>9. CASE inverse_subbytes
  BY <1>2, <1>3, <1>9, SubRefines DEF inverse_subbytes
<1>10. CASE inverse_mix_coloumns
  BY <1>3, <1>10, MixRefines DEF inverse_mix_coloumns
<1> QED
  BY <1>1, <1>4, <1>5, <1>6, <1>7, <1>8, <1>9, <1>10 DEF Next

LEMMA ArrivedDecrypted ==
  ASSUME IInv, Underway
  PROVE  DecryptsAsStandard
<1> SUFFICES ASSUME pc = "idle", given # NoBlock
             PROVE  stateText = InvCipherOf(given)
  BY DEF DecryptsAsStandard
<1>1. PlainOp = "idle"
  BY DEF PlainOp
<1>2. Bare = stateText
  <2>1. ASSUME NEW c \in Cell PROVE Worn(c) = Zero
    BY DEF Worn
  <2>2. Bare = [c \in Cell |-> Xor(stateText[c], Zero)]
    BY <2>1 DEF Bare
  <2> QED
    BY <2>2, BlockIsBare DEF IInv, TypeOK
<1>3. Bare = States(given)[0]
  BY <1>1 DEF Underway, OnTheWay
<1> QED
  BY <1>2, <1>3, StatesAre

\* When aes_dec_128 returns, the block is InvCipherOf the one it was called
\* with, whichever of NORMAL, SHUFFLING and MASKING it was built with.
THEOREM DecryptsRight ==
  ASSUME Builds \subseteq OneVariant
  PROVE  Spec => []DecryptsAsStandard
<1>1. IInv => build \in OneVariant
  BY DEF IInv, TypeOK
<1>2. Init => Underway
  BY DEF Init, Underway
<1>3. IInv /\ Underway /\ [Next]_vars => Underway'
  BY <1>1, StepUnderway
<1>4. IInv /\ Underway => DecryptsAsStandard
  BY ArrivedDecrypted
<1> QED
  BY <1>2, <1>3, <1>4, InitInv, StepInv, PTL DEF Spec
=============================================================================
