-------------------------------- MODULE Fifo --------------------------------
(***************************************************************************)
(* The ring buffer of Fifo.c.  The handle's fields buff, rd, wr and fl are *)
(* variables; its field sz is the constant Size, which main() sets once.   *)
(* out is the object a reader passes by pointer (artPtr->txBuffer) and ret *)
(* the code returned by the last call.                                     *)
(***************************************************************************)
EXTENDS Naturals, Sequences

CONSTANTS
  Data,   \* the values of a uint8_t that are told apart
  Zero,   \* the value of a cell of static storage before the first write
  Size    \* handl->sz

\* sz is a uint8_t and every increment of fl stays below it, so no field can
\* wrap around; main() uses 5.
ASSUME SizeAssumption == Size \in 1..255
ASSUME DataAssumption == Zero \in Data

VARIABLES buff, rd, wr, fl, out, ret

vars == <<buff, rd, wr, fl, out, ret>>

Index == 0 .. Size - 1

\* MK_FIFO leaves the counters at 0 over a static buffer; the reader's object
\* is a member of an automatic struct and holds any value.
Init ==
  /\ buff = [i \in Index |-> Zero]
  /\ rd = 0
  /\ wr = 0
  /\ fl = 0
  /\ out \in Data
  /\ ret = "OK"

HasRoom_OffByOne == fl <= Size  \* mutant
HasRoom == fl < Size

HasData_Always == fl >= 0  \* mutant
HasData == fl > 0

Fifo_write(d) ==
  /\ IF HasRoom
     THEN /\ buff' = [buff EXCEPT ![wr] = d]
          /\ wr' = (wr + 1) % Size
          /\ fl' = fl + 1
          /\ ret' = "OK"
     ELSE /\ ret' = "NOK"
          /\ UNCHANGED <<buff, wr, fl>>
  /\ UNCHANGED <<rd, out>>

Fifo_read ==
  /\ IF HasData
     THEN /\ out' = buff[rd]
          /\ rd' = (rd + 1) % Size
          /\ fl' = fl - 1
          /\ ret' = "OK"
     ELSE /\ ret' = "NOK"
          /\ UNCHANGED <<out, rd, fl>>
  /\ UNCHANGED <<buff, wr>>

Next == Fifo_read \/ \E d \in Data : Fifo_write(d)

Spec == Init /\ [][Next]_vars
-----------------------------------------------------------------------------
TypeOK ==
  /\ buff \in [Index -> Data]
  /\ rd \in Index
  /\ wr \in Index
  /\ fl \in 0..Size
  /\ out \in Data
  /\ ret \in {"OK", "NOK"}

\* The cell k places after r.
Cell(r, k) == IF r + k < Size THEN r + k ELSE r + k - Size

\* The three counters are redundant: the write position is the read position
\* advanced by the fill level.  Nothing in Fifo.c compares them, so a call
\* that moved one without the others would go unnoticed until data is lost.
CountersAgree == wr = Cell(rd, fl)

\* The bytes between the read and the write position, oldest first.
Content == [k \in 1..fl |-> buff[Cell(rd, k - 1)]]

Queue == INSTANCE ByteQueue WITH queue <- Content

\* The ring buffer is a bounded FIFO queue: bytes come out once each, in the
\* order they went in, whatever the positions wrap to, and a refused call
\* changes nothing (Fifo_write and Fifo_read of Fifo.c).
ImplementsQueue == Queue!Spec
=============================================================================
