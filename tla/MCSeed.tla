------------------------------- MODULE MCSeed -------------------------------
\* The sizes of Seed.c made small; every start address, aligned or not.
EXTENDS Seed
=============================================================================
