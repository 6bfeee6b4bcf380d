------------------------------ MODULE MCSurveys ------------------------------
(* Small instances of Surveys for TLC. *)
EXTENDS Surveys, TLC

Form(from, to, membersOnly, anonymous) ==
  [from |-> from, to |-> to, membersOnly |-> membersOnly, anonymous |-> anonymous]

\* Without bounds, named and anonymous; scheduled; for members only, at 0.
SomeForms == {Form(NoTime, NoTime, FALSE, FALSE), Form(NoTime, NoTime, FALSE, TRUE),
              Form(1, NoTime, FALSE, FALSE), Form(0, 0, TRUE, FALSE)}

Symmetry == Permutations(Responses) \cup Permutations(Submits)
=============================================================================
