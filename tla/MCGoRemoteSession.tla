------------------------- MODULE MCGoRemoteSession -------------------------
(* The clients are interchangeable. *)
EXTENDS GoRemoteSession, TLC

Symmetry == Permutations(Sessions)

=============================================================================
