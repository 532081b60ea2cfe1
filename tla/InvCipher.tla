------------------------------ MODULE InvCipher ------------------------------
(***************************************************************************)
(* What aes_dec_128 promises: whatever is compiled in to protect it, each  *)
(* decryption is the inverse cipher of FIPS-197, one transformation of the *)
(* whole block after the other.                                            *)
(***************************************************************************)
EXTENDS AesBlock

VARIABLES
  block,  \* the state
  round,  \* whose key is added next, or was last
  op      \* the next transformation

vars == <<block, round, op>>

Init == block \in Inputs /\ round = 0 /\ op = "idle"

Begin ==
  /\ op = "idle"
  /\ block' \in Inputs
  /\ round' = Rounds
  /\ op' = "key"

\* The first key is added before the first round.
AfterKey(r) == CASE r = Rounds -> "shift" [] r = 0 -> "idle" [] OTHER -> "mix"
RoundAfterKey(r) == IF r = Rounds THEN r - 1 ELSE r

Add ==
  /\ op = "key"
  /\ block' = AddRoundKey(block, round)
  /\ round' = RoundAfterKey(round)
  /\ op' = AfterKey(round)

Shift ==
  /\ op = "shift"
  /\ block' = InvShiftRows(block)
  /\ op' = "sub"
  /\ UNCHANGED round

Substitute ==
  /\ op = "sub"
  /\ block' = InvSubBytes(block)
  /\ op' = "key"
  /\ UNCHANGED round

Mix ==
  /\ op = "mix"
  /\ block' = InvMixColumns(block)
  /\ round' = round - 1
  /\ op' = "shift"

Next == Begin \/ Add \/ Shift \/ Substitute \/ Mix

Spec == Init /\ [][Next]_vars
=============================================================================
