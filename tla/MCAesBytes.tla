----------------------------- MODULE MCAesBytes -----------------------------
(***************************************************************************)
(* The bytes and the size of the code; sixteen blocks, in which each cell  *)
(* takes sixteen values, and random numbers that ask for none, all or some *)
(* of the look-ups of a round.                                             *)
(***************************************************************************)
EXTENDS AesBytes

MCPlains ==
  {[c \in Cell |-> 16 * ((c + k) % 16) + ((7 * c + 5 * k) % 16)] : k \in 0..15}
MCRands ==
  {[r \in Cell |-> 0], [r \in Cell |-> 255], [r \in Cell |-> (29 * r) % 256]}
=============================================================================
