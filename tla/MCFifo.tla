------------------------------- MODULE MCFifo -------------------------------
\* Two distinguishable bytes and three cells: both counters wrap, the buffer
\* fills and empties at every alignment.
EXTENDS Fifo

MCData == {"a", "b"}
=============================================================================
