--------------------------- MODULE MCSecurityClass ---------------------------
(* Small instances of SecurityClass for TLC. *)
EXTENDS SecurityClass, TLC

Symmetry == Permutations(Posts) \cup Permutations(Files)
=============================================================================
