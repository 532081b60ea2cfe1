----------------------------- MODULE FifoProofs -----------------------------
(***************************************************************************)
(* For every set of bytes and every size from 1 to 255, the ring buffer of *)
(* Fifo.c is well typed, its counters agree, and it implements the bounded *)
(* queue of ByteQueue.tla.                                                 *)
(***************************************************************************)
EXTENDS Fifo, SequenceTheorems, TLAPS

\* The inductive invariant: the types and the redundancy of the counters.
\* Without CountersAgree a write could land on a byte not yet read.
IInv == TypeOK /\ CountersAgree

\* A position advances to its successor or, from the last cell, to cell 0.
LEMMA Advance ==
  ASSUME NEW p \in Index
  PROVE  (p + 1) % Size = IF p + 1 < Size THEN p + 1 ELSE 0
<1>1. CASE p + 1 < Size
  BY <1>1, SizeAssumption DEF Index
<1>2. CASE ~ (p + 1 < Size)
  <2>1. p + 1 = Size
    BY <1>2, SizeAssumption DEF Index
  <2>2. Size % Size = 0
    BY SizeAssumption
  <2>. QED
    BY <1>2, <2>1, <2>2
<1>. QED
  BY <1>1, <1>2

LEMMA InitInv == Init => IInv
BY SizeAssumption, DataAssumption
DEF Init, IInv, TypeOK, CountersAgree, Cell, Index

\* An accepted write preserves the invariant.
LEMMA WriteInv ==
  ASSUME IInv, NEW d \in Data, Fifo_write(d), fl < Size
  PROVE  IInv'
<1>. USE SizeAssumption DEF IInv, TypeOK
<1>1. wr' = IF wr + 1 < Size THEN wr + 1 ELSE 0
  BY Advance DEF Fifo_write, HasRoom
<1>2. /\ buff' = [buff EXCEPT ![wr] = d]
      /\ fl' = fl + 1
      /\ rd' = rd
      /\ out' = out
      /\ ret' = "OK"
  BY DEF Fifo_write, HasRoom
<1>3. TypeOK'
  BY <1>1, <1>2 DEF Index
<1>4. CountersAgree'
  BY <1>1, <1>2 DEF CountersAgree, Cell, Index
<1>. QED
  BY <1>3, <1>4

\* An accepted read preserves the invariant.
LEMMA ReadInv ==
  ASSUME IInv, Fifo_read, fl > 0
  PROVE  IInv'
<1>. USE SizeAssumption DEF IInv, TypeOK
<1>1. rd' = IF rd + 1 < Size THEN rd + 1 ELSE 0
  BY Advance DEF Fifo_read, HasData
<1>2. /\ buff' = buff
      /\ fl' = fl - 1
      /\ wr' = wr
      /\ out' = buff[rd]
      /\ ret' = "OK"
  BY DEF Fifo_read, HasData
<1>3. TypeOK'
  BY <1>1, <1>2 DEF Index
<1>4. CountersAgree'
  BY <1>1, <1>2 DEF CountersAgree, Cell, Index
<1>. QED
  BY <1>3, <1>4

\* Each call preserves the invariant.
LEMMA StepInv == IInv /\ [Next]_vars => IInv'
<1>. SUFFICES ASSUME IInv, [Next]_vars PROVE IInv'
  OBVIOUS
<1>1. ASSUME NEW d \in Data, Fifo_write(d) PROVE IInv'
  <2>1. CASE fl < Size
    BY <1>1, <2>1, WriteInv
  <2>2. CASE ~ (fl < Size)
    BY <1>1, <2>2
    DEF Fifo_write, HasRoom, IInv, TypeOK, CountersAgree, Cell, Index
  <2>. QED
    BY <2>1, <2>2
<1>2. ASSUME Fifo_read PROVE IInv'
  <2>1. CASE fl > 0
    BY <1>2, <2>1, ReadInv
  <2>2. CASE ~ (fl > 0)
    BY <1>2, <2>2
    DEF Fifo_read, HasData, IInv, TypeOK, CountersAgree, Cell, Index
  <2>. QED
    BY <2>1, <2>2
<1>3. CASE UNCHANGED vars
  BY <1>3 DEF vars, IInv, TypeOK, CountersAgree, Cell, Index
<1>. QED
  BY <1>1, <1>2, <1>3 DEF Next

\* Every field of the handle keeps its type: rd and wr always index the
\* buffer and the fill level never exceeds sz (Fifo_write, Fifo_read).
THEOREM TypeCorrect == Spec => []TypeOK
<1>1. IInv => TypeOK
  BY DEF IInv
<1>. QED
  BY InitInv, StepInv, <1>1, PTL DEF Spec

\* The write position is always the read position advanced by the fill level
\* (the counters Fifo_write and Fifo_read update separately).
THEOREM CountersAlwaysAgree == Spec => []CountersAgree
<1>1. IInv => CountersAgree
  BY DEF IInv
<1>. QED
  BY InitInv, StepInv, <1>1, PTL DEF Spec
-----------------------------------------------------------------------------
\* The cells that follow a position lie in the buffer, wrapping once at most.
LEMMA CellIndex ==
  ASSUME NEW r \in Index, NEW n \in 0..Size, NEW k \in 1..n
  PROVE  Cell(r, k - 1) \in Index
BY SizeAssumption DEF Cell, Index

\* The content is a sequence of bytes as long as the fill level.
LEMMA ContentSeq ==
  ASSUME IInv
  PROVE  /\ Content \in Seq(Data)
         /\ Len(Content) = fl
         /\ \A k \in 1..fl : Content[k] = buff[Cell(rd, k - 1)]
<1>1. \A k \in 1..fl : Cell(rd, k - 1) \in Index
  BY CellIndex DEF IInv, TypeOK
<1>2. \A k \in 1..fl : buff[Cell(rd, k - 1)] \in Data
  BY <1>1 DEF IInv, TypeOK
<1>3. fl \in Nat
  BY SizeAssumption DEF IInv, TypeOK
<1>. QED
  BY <1>2, <1>3 DEF Content

\* The same of the next state.
LEMMA ContentSeqNext ==
  ASSUME IInv'
  PROVE  /\ Content' \in Seq(Data)
         /\ Len(Content') = fl'
         /\ \A k \in 1..fl' : (Content')[k] = buff'[Cell(rd', k - 1)]
<1>1. \A k \in 1..fl' : Cell(rd', k - 1) \in Index
  BY CellIndex DEF IInv, TypeOK
<1>2. \A k \in 1..fl' : buff'[Cell(rd', k - 1)] \in Data
  BY <1>1 DEF IInv, TypeOK
<1>3. fl' \in Nat
  BY SizeAssumption DEF IInv, TypeOK
<1>. QED
  BY <1>2, <1>3 DEF Content, Cell

\* A write that is accepted appends its byte to the content: the cell it
\* fills is none of those that hold unread bytes.
LEMMA WriteAppends ==
  ASSUME IInv, NEW d \in Data, Fifo_write(d), fl < Size
  PROVE  Content' = Append(Content, d)
<1>. USE SizeAssumption
<1>1. IInv'
  BY WriteInv
<1>2. /\ buff' = [buff EXCEPT ![wr] = d]
      /\ fl' = fl + 1
      /\ rd' = rd
  BY DEF Fifo_write, HasRoom
<1>3. fl \in Nat /\ rd \in Index /\ wr = Cell(rd, fl) /\ wr \in Index
      /\ buff \in [Index -> Data]
  BY DEF IInv, TypeOK, CountersAgree
<1>4. ASSUME NEW k \in 1..fl PROVE (Content')[k] = Content[k]
  <2>1. Cell(rd, k - 1) # wr /\ Cell(rd, k - 1) \in Index
    BY <1>3 DEF Cell, Index, IInv, TypeOK
  <2>2. (Content')[k] = buff'[Cell(rd, k - 1)]
    BY <1>1, <1>2, <1>3, ContentSeqNext
  <2>. QED
    BY <1>2, <1>3, <2>1, <2>2, ContentSeq
<1>5. (Content')[fl + 1] = d
  <2>1. (Content')[fl + 1] = buff'[Cell(rd, fl + 1 - 1)]
    BY <1>1, <1>2, <1>3, ContentSeqNext
  <2>2. fl + 1 - 1 = fl
    BY <1>3
  <2>. QED
    BY <1>2, <1>3, <2>1, <2>2
<1>6. /\ Append(Content, d) \in Seq(Data)
      /\ Len(Append(Content, d)) = fl + 1
      /\ \A k \in 1..(fl + 1) :
           Append(Content, d)[k] = IF k = fl + 1 THEN d ELSE Content[k]
  BY <1>3, ContentSeq
<1>7. Content' \in Seq(Data) /\ Len(Content') = fl + 1
  BY <1>1, <1>2, ContentSeqNext
<1>8. \A k \in 1..(fl + 1) : (Content')[k] = Append(Content, d)[k]
  BY <1>3, <1>4, <1>5, <1>6
<1>. QED
  BY <1>6, <1>7, <1>8, SeqEqual

\* A read that is accepted returns the oldest byte and leaves the others.
LEMMA ReadRemovesHead ==
  ASSUME IInv, Fifo_read, fl > 0
  PROVE  /\ Content # << >>
         /\ out' = Head(Content)
         /\ Content' = Tail(Content)
<1>. USE SizeAssumption
<1>1. IInv'
  BY ReadInv
<1>2. /\ buff' = buff
      /\ fl' = fl - 1
      /\ out' = buff[rd]
      /\ rd' = IF rd + 1 < Size THEN rd + 1 ELSE 0
  BY Advance DEF Fifo_read, HasData, IInv, TypeOK
<1>3. fl \in Nat /\ fl <= Size /\ rd \in Index
  BY DEF IInv, TypeOK
<1>4. Content \in Seq(Data) /\ Len(Content) = fl /\ Content # << >>
  BY <1>3, ContentSeq
<1>5. Head(Content) = buff[rd]
  <2>1. Content[1] = buff[Cell(rd, 1 - 1)]
    BY <1>3, ContentSeq
  <2>2. Cell(rd, 1 - 1) = rd
    BY <1>3 DEF Cell, Index
  <2>. QED
    BY <1>4, <2>1, <2>2
<1>6. /\ Tail(Content) \in Seq(Data)
      /\ Len(Tail(Content)) = fl - 1
      /\ \A k \in 1..(fl - 1) : Tail(Content)[k] = Content[k + 1]
  BY <1>4, HeadTailProperties
<1>7. Content' \in Seq(Data) /\ Len(Content') = fl - 1
  BY <1>1, <1>2, ContentSeqNext
<1>8. ASSUME NEW k \in 1..(fl - 1)
      PROVE  (Content')[k] = Tail(Content)[k]
  <2>1. (Content')[k] = buff[Cell(rd', k - 1)]
    BY <1>1, <1>2, ContentSeqNext
  <2>2. Content[k + 1] = buff[Cell(rd, k + 1 - 1)]
    BY <1>3, ContentSeq
  <2>3. Cell(rd', k - 1) = Cell(rd, k + 1 - 1)
    BY <1>2, <1>3 DEF Cell, Index
  <2>. QED
    BY <1>6, <2>1, <2>2, <2>3
<1>9. Content' = Tail(Content)
  BY <1>6, <1>7, <1>8, SeqEqual
<1>. QED
  BY <1>2, <1>4, <1>5, <1>9
-----------------------------------------------------------------------------
\* A step of the ring buffer is a step of the queue or leaves it unchanged.
LEMMA StepRefines ==
  ASSUME IInv, [Next]_vars
  PROVE  [Queue!Next]_(Queue!vars)
<1>1. fl \in 0..Size /\ Size \in Nat /\ Len(Content) = fl
  BY ContentSeq, SizeAssumption DEF IInv, TypeOK
<1>2. ASSUME NEW d \in Data, Fifo_write(d) PROVE Queue!Put(d)
  <2>1. CASE fl < Size
    BY <1>1, <1>2, <2>1, WriteAppends DEF Queue!Put, Fifo_write, HasRoom
  <2>2. CASE ~ (fl < Size)
    <3>1. Content' = Content /\ fl = Size
      BY <1>1, <1>2, <2>2 DEF Fifo_write, HasRoom, Content, Cell
    <3>. QED
      BY <1>1, <1>2, <2>2, <3>1 DEF Queue!Put, Fifo_write, HasRoom
  <2>. QED
    BY <2>1, <2>2
<1>3. ASSUME Fifo_read PROVE Queue!Get
  <2>1. CASE fl > 0
    BY <1>3, <2>1, ReadRemovesHead DEF Queue!Get, Fifo_read, HasData
  <2>2. CASE ~ (fl > 0)
    <3>1. Content' = Content /\ fl = 0
      BY <1>1, <1>3, <2>2 DEF Fifo_read, HasData, Content, Cell
    <3>2. Content = << >>
      BY <1>1, <3>1, ContentSeq, EmptySeq
    <3>. QED
      BY <1>1, <1>3, <2>2, <3>1, <3>2 DEF Queue!Get, Fifo_read, HasData
  <2>. QED
    BY <2>1, <2>2
<1>4. CASE UNCHANGED vars
  BY <1>4 DEF vars, Queue!vars, Content, Cell
<1>. QED
  BY <1>2, <1>3, <1>4 DEF Next, Queue!Next

\* The ring buffer of Fifo.c implements the bounded queue of ByteQueue: every
\* byte comes out once, in order, wherever the positions wrap.
THEOREM Refinement == Spec => ImplementsQueue
<1>1. Init => Queue!Init
  BY InitInv, ContentSeq, EmptySeq DEF Init, Queue!Init
<1>2. IInv /\ [Next]_vars => [Queue!Next]_(Queue!vars)
  BY StepRefines
<1>. QED
  BY InitInv, StepInv, <1>1, <1>2, PTL DEF Spec, ImplementsQueue, Queue!Spec
=============================================================================
