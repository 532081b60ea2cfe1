------------------------------- MODULE MCCard -------------------------------
(***************************************************************************)
(* Constants for TLC.  The bytes the firmware sends are those of Atr.c and *)
(* Atr.h; blocks and headers are shorter than the code's 16 and 5 bytes,   *)
(* with two data bytes of different parity.                                *)
(***************************************************************************)
EXTENDS Card

MCAtr == <<{0, 1, 3, 4, 5}, {4, 7}, {0, 4}, {}>>   \* 3B 90 11 00
MCCoded == [ins |-> {0, 1, 2, 3, 5, 6, 7},         \* 239
            sw61 |-> {0, 5, 6}, sw10 |-> {4}, c0 |-> {6, 7},
            sw9d |-> {0, 2, 3, 4, 7}, sw00 |-> {}]
MCHeader == {{5, 7}}
MCData == {{}, {0, 2, 7}}

\* A permutation of blocks that moves and changes every byte.
MCAes(b) == [i \in DOMAIN b |-> (0..7) \ b[Len(b) + 1 - i]]

\* The parts whose successor clears the status register before it sends.
MCTolerant == {"atr", "ins", "sw10", "c0", "resp", "sw00"}
MCStatus61 == {"sw61"}
MCNowhere == {}
MCStale == {0, 255}
=============================================================================
