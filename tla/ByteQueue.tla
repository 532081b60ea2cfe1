------------------------------ MODULE ByteQueue ------------------------------
(***************************************************************************)
(* What a byte FIFO promises its callers: a bounded queue whose write is   *)
(* refused when it is full and whose read is refused when it is empty, a   *)
(* refused call changing nothing but the returned code.                    *)
(* Fifo.tla shows that the ring buffer of Fifo.c is such a queue.          *)
(***************************************************************************)
EXTENDS Naturals, Sequences

CONSTANTS
  Data,   \* the values a cell may hold (uint8_t in the code)
  Size    \* the capacity

VARIABLES
  queue,  \* the bytes written and not yet read, oldest first
  out,    \* the byte the caller's pointer designates
  ret     \* the code the last call returned

vars == <<queue, out, ret>>

Put(d) ==
  \/ /\ Len(queue) < Size
     /\ queue' = Append(queue, d)
     /\ ret' = "OK"
     /\ UNCHANGED out
  \/ /\ Len(queue) = Size
     /\ ret' = "NOK"
     /\ UNCHANGED <<queue, out>>

Get ==
  \/ /\ queue # << >>
     /\ out' = Head(queue)
     /\ queue' = Tail(queue)
     /\ ret' = "OK"
  \/ /\ queue = << >>
     /\ ret' = "NOK"
     /\ UNCHANGED <<queue, out>>

Init == queue = << >> /\ out \in Data /\ ret = "OK"

Next == Get \/ \E d \in Data : Put(d)

Spec == Init /\ [][Next]_vars
=============================================================================
