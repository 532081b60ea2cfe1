-------------------------------- MODULE MCAes --------------------------------
(***************************************************************************)
(* Two rows and columns, so that rows still shift, columns mix and there   *)
(* are 24 orders; a byte has three bits, so that the S-box can be a        *)
(* permutation that is not affine.                                         *)
(***************************************************************************)
EXTENDS Aes

MCValue == SUBSET {0, 1, 2}
MCNum(a) ==
  (IF 0 \in a THEN 1 ELSE 0) + (IF 1 \in a THEN 2 ELSE 0)
    + (IF 2 \in a THEN 4 ELSE 0)
Byte(n) == CHOOSE a \in MCValue : MCNum(a) = n

MCXor(a, b) == (a \ b) \cup (b \ a)
MCSub(a) == Byte(<<3, 6, 0, 5, 7, 1, 4, 2>>[MCNum(a) + 1])
Turn(a) == {(b + 1) % 3 : b \in a}
MCMixColumn(x) == [r \in 0..1 |-> MCXor(x[r], Turn(x[1 - r]))]
MCKey == [r \in 0..3 |-> [c \in 0..3 |-> Byte((5 * r + 3 * c + 1) % 8)]]
MCInputs == {[c \in 0..3 |-> Byte(c + 2)], [c \in 0..3 |-> Byte((7 * c) % 8)]}

\* The bytes choose among 2, 3 and 4 positions, and are masks of their own.
MCRands == {[c \in 0..3 |-> Byte(<<w, x, y, z>>[c + 1])] :
              w \in {0, 6}, x \in {0, 7}, y \in {0, 4, 5}, z \in {0, 5, 6, 3}}

BothVariants == {{"SHUFFLING", "MASKING"}}
=============================================================================
