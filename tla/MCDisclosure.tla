----------------------------- MODULE MCDisclosure -----------------------------
(***************************************************************************)
(* What is shown to whom and what is written down about it, on small sets: *)
(* permissions, reports, the lists of boards, the results of a survey and  *)
(* the audit trail.  The modules share no state: part says which of them   *)
(* moves while the others rest in one initial state, so the run explores   *)
(* the union of their state graphs, each under the initial condition and   *)
(* the next-state relation of its module.                                  *)
(***************************************************************************)
EXTENDS Access, Reports, AuditTrail, BoardList, Questionnaire, TLC

VARIABLE part

QueriesMC == {[word |-> "", field |-> ""]} \cup [word: {"a"}, field: {"", "team"}]
AuthorMC == [d \in Docs |-> CHOOSE u \in Admins : TRUE]

\* A question that may jump over the second, a text in the order of either,
\* and a last one that is multiple, jumps back, or is deleted.
Asking(order, type, required, options, other, jump, public) ==
  [order |-> order, type |-> type, required |-> required, options |-> options,
   other |-> other, jump |-> jump, public |-> public]
Straight == [v \in OptionValues |-> NoJump]
DraftsMC ==
  <<{Asking(1, "single", TRUE, {"a", "b"}, {}, [Straight EXCEPT !["a"] = 3], FALSE)},
    {Asking(1, "text", TRUE, {}, {}, Straight, TRUE),
     Asking(2, "text", TRUE, {}, {}, Straight, FALSE)},
    {Asking(3, "multi", FALSE, {"b"}, {"b"}, Straight, FALSE),
     Asking(3, "single", TRUE, {"b"}, {}, [Straight EXCEPT !["b"] = 2], FALSE),
     NoQuestion}>>

\* The jump taken, the second question answered, and answered though skipped.
Filling(picks, text) == [picks |-> picks, text |-> text]
FilledMC ==
  {<<Filling({"a"}, FALSE), Filling({}, wrote), Filling({"b"}, TRUE)>> : wrote \in BOOLEAN}
    \cup {<<Filling({"b"}, FALSE), Filling({}, TRUE), Blank>>}

\* What a part that does not move starts with, where its module has a choice.
Resting ==
  /\ part # "access" => \A i \in MenuIds : menus[i] = UnbornMenu
  /\ part # "reports" => screen = "boardExport"
  /\ part # "list" => ~oldestFirst
  /\ part # "survey" => asked = [i \in QuestionIds |-> CHOOSE q \in Drafts[i] : TRUE]

DisclosureInit ==
  /\ part \in {"access", "reports", "audit", "list", "survey"}
  /\ AccessInit /\ ReportInit /\ AuditInit /\ ListInit
  /\ QuestionnaireInit /\ Resting

DisclosureNext ==
  \/ part = "access" /\ AccessNext /\ UNCHANGED <<part, reportVars, auditVars, listVars, questionVars>>
  \/ part = "reports" /\ ReportNext /\ UNCHANGED <<part, accessVars, auditVars, listVars, questionVars>>
  \/ part = "audit" /\ AuditNext /\ UNCHANGED <<part, accessVars, reportVars, listVars, questionVars>>
  \/ part = "list" /\ ListNext /\ UNCHANGED <<part, accessVars, reportVars, auditVars, questionVars>>
  \/ /\ part = "survey" /\ QuestionnaireNext
     /\ UNCHANGED <<part, accessVars, reportVars, auditVars, listVars>>

Spec ==
  DisclosureInit
  /\ [][DisclosureNext]_<<part, accessVars, reportVars, auditVars, listVars, questionVars>>

\* One pair of model values stands for the menu ids, the operations and the
\* responses of the survey.
Symmetry == Permutations(MenuIds) \cup Permutations(Sites)
=============================================================================
