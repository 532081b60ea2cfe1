------------------------------- MODULE SeedLog -------------------------------
(***************************************************************************)
(* What Seed.c promises of the EEPROM: seeds are laid down in groups, one  *)
(* after the other, and cell 0 names the place of the next one only when   *)
(* the group before it is complete.  A power failure costs the group that  *)
(* was being written and nothing else, unless it tears the write of cell   *)
(* 0, after which the log goes on at whatever place the cell then names.   *)
(***************************************************************************)
EXTENDS Naturals

CONSTANTS
  Group,  \* bytes of a group
  Top     \* the place, and value of an erased cell, that ends the log

VARIABLES
  start,    \* the contents of cell 0
  settled,  \* no write of cell 0 is under way
  filled,   \* bytes of the group in place
  written   \* the last write: its address, its number within the group

vars == <<start, settled, filled, written>>

First(s) == IF s \in {0, Top} THEN 1 ELSE s

Following(a) == IF a + Group >= Top THEN 1 ELSE a + Group

Nowhere == <<0, 0>>

Init ==
  /\ start \in 0..Top
  /\ settled = TRUE
  /\ filled = 0
  /\ written = Nowhere

Lay ==
  /\ filled < Group
  /\ written' = <<First(start) + filled, filled>>
  /\ filled' = filled + 1
  /\ UNCHANGED <<start, settled>>

Commit ==
  /\ filled = Group
  /\ start' = Following(First(start))
  /\ settled' = FALSE
  /\ filled' = 0
  /\ UNCHANGED written

Settle == ~settled /\ settled' = TRUE /\ UNCHANGED <<start, filled, written>>

PowerFails ==
  /\ \/ settled /\ UNCHANGED start
     \/ ~settled /\ start' \in 0..Top
  /\ settled' = TRUE
  /\ filled' = 0
  /\ written' = Nowhere

Next == Lay \/ Commit \/ Settle \/ PowerFails

Spec == Init /\ [][Next]_vars
=============================================================================
