------------------------------ MODULE MCMembers ------------------------------
(***************************************************************************)
(* Accounts and sessions of members on small sets.  The two modules share  *)
(* no state: part says which of them moves, and the run explores the union *)
(* of their state graphs.                                                  *)
(***************************************************************************)
EXTENDS Signups, MemberSessions, TLC

VARIABLE part

MCInit == SignupInit /\ MemberInit /\ part \in {"accounts", "sessions"}

MCNext ==
  \/ part = "accounts" /\ SignupNext /\ UNCHANGED <<part, memberVars>>
  \/ part = "sessions" /\ MemberNext /\ UNCHANGED <<part, signupVars>>

Spec == MCInit /\ [][MCNext]_<<part, signupVars, memberVars>>

Symmetry ==
  UNION {Permutations(S) : S \in {Accounts, Applicants, Sids, Edits}}
=============================================================================
