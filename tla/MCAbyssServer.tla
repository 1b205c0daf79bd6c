--------------------------- MODULE MCAbyssServer ---------------------------
(* Instances of AbyssServer for TLC. *)
EXTENDS AbyssServer, TLC

\* Clients are interchangeable.
ChanSymmetry == Permutations(Chan)
=============================================================================
