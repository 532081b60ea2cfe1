-------------------------------- MODULE MCRng --------------------------------
\* The sizes of the code (MCRng.cfg), and so all 255 addresses that a seed
\* starts from.
EXTENDS Rng
=============================================================================
