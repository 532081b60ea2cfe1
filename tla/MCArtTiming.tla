----------------------------- MODULE MCArtTiming -----------------------------
\* The smallest and the largest delays that the assumption allows together,
\* and bytes of both parities.
EXTENDS ArtTiming

MCEntryDelay == {73, 100, 171}
MCIsrDelay == {60, 100}
MCStartDelay == {13, 40}
MCSent == {{0, 1, 2, 4}, {5, 6, 7}}
MCStale == {0, 255}
=============================================================================
