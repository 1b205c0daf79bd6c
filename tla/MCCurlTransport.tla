--------------------------- MODULE MCCurlTransport ---------------------------
EXTENDS CurlTransport, TLC

Symmetry == Permutations(Thread) \cup Permutations(Asynch) \cup Permutations(Synch)
=============================================================================
