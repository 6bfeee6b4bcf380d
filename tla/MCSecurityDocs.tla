---------------------------- MODULE MCSecurityDocs ----------------------------
(* Small instances of SecurityDocs for TLC. *)
EXTENDS SecurityDocs, TLC

Symmetry == Permutations(Posts) \cup Permutations(Files) \cup Permutations(Txs)
=============================================================================
