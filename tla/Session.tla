------------------------------- MODULE Session -------------------------------
(***************************************************************************)
(* What the card promises its reader: the characters of a session in their *)
(* order, seen from the wire.  After the answer to reset the reader sends  *)
(* the header of a command; the card asks for each byte of the encrypted   *)
(* block by an INS acknowledgement, answers 61 10, receives the header of  *)
(* a GET RESPONSE, and returns the acknowledgement C0, the decrypted block *)
(* and the status 9D 00.  Then the next command follows.                   *)
(***************************************************************************)
EXTENDS Naturals, Sequences

CONSTANTS
  Byte,
  AtrBytes,    \* ATR_BYTE, a sequence of bytes
  HeaderLen,   \* characters of a command header
  BlockLen,    \* bytes of a block
  Aes(_),      \* the decryption of a block
  Coded        \* the bytes Coded.ins, .sw61, .sw10, .c0, .sw9d and .sw00

VARIABLES
  phase, count,  \* the next character: the part of the session, its index
  block,         \* the block of the command, as the reader sent it
  wire           \* the last character and who sent it

vars == <<phase, count, block, wire>>

ReaderTurn == {"hdr1", "data", "hdr2"}
Phase == ReaderTurn \cup
         {"atr", "ins", "sw61", "sw10", "c0", "resp", "sw9d", "sw00"}

Length == [p \in Phase |->
             CASE p = "atr" -> Len(AtrBytes)
               [] p \in {"hdr1", "hdr2"} -> HeaderLen
               [] p \in {"ins", "data", "resp"} -> BlockLen
               [] OTHER -> 1]

Follower == [atr |-> "hdr1", hdr1 |-> "ins", data |-> "sw61", sw61 |-> "sw10",
             sw10 |-> "hdr2", hdr2 |-> "c0", c0 |-> "resp", resp |-> "sw9d",
             sw9d |-> "sw00", sw00 |-> "hdr1"]

\* Acknowledgements and bytes of the block alternate.
Advance ==
  \/ /\ phase = "ins"
     /\ phase' = "data"
     /\ UNCHANGED count
  \/ /\ phase # "ins"
     /\ count + 1 < Length[phase]
     /\ phase' = IF phase = "data" THEN "ins" ELSE phase
     /\ count' = count + 1
  \/ /\ phase # "ins"
     /\ count + 1 = Length[phase]
     /\ phase' = Follower[phase]
     /\ count' = 0

Expected ==
  CASE phase = "atr" -> AtrBytes[count + 1]
    [] phase = "resp" -> Aes(block)[count + 1]
    [] OTHER -> Coded[phase]

CardSends ==
  /\ phase \notin ReaderTurn
  /\ wire' = <<"card", Expected>>
  /\ Advance
  /\ UNCHANGED block

ReaderSends(b) ==
  /\ phase \in ReaderTurn
  /\ wire' = <<"reader", b>>
  /\ block' = IF phase = "data" THEN [block EXCEPT ![count + 1] = b] ELSE block
  /\ Advance

Init ==
  /\ phase = "atr"
  /\ count = 0
  /\ block = [i \in 1..BlockLen |-> {}]
  /\ wire = << >>

Next == CardSends \/ \E b \in Byte : ReaderSends(b)

Spec == Init /\ [][Next]_vars
=============================================================================
