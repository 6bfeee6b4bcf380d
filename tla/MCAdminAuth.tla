----------------------------- MODULE MCAdminAuth -----------------------------
(* Small instances of AdminAuth for TLC. *)
EXTENDS AdminAuth, TLC

Symmetry == Permutations(Logins) \cup Permutations(Enrols) \cup Permutations(Secrets)
  \cup Permutations(Updates)
=============================================================================
