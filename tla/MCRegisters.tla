------------------------------ MODULE MCRegisters ------------------------------
(***************************************************************************)
(* The registers whose rows constrain one another, on small sets: the      *)
(* standardization dictionaries, the security class of boards, posts and   *)
(* files, the codes and the tree of menus.  The modules share no state:    *)
(* part says which of them moves while the others rest in one initial      *)
(* state, so the run explores the union of their state graphs, each under  *)
(* the initial condition and the next-state relation of its module.        *)
(***************************************************************************)
EXTENDS Standards, SecurityClass, Codes, SiteNav, TLC

VARIABLE part

KindMC == [m \in Menus |-> IF m = "m1" THEN "content" ELSE "board"]

\* What a part that does not move starts with, where its module has a choice.
Resting ==
  /\ part # "standards" =>
       \E e \in Entries : entries[e] = CHOOSE row \in EntryRow : row.used
  /\ part # "class" => \A b \in Boards : ~boardSec[b]

RegistersInit ==
  /\ part \in {"standards", "class", "codes", "menus"}
  /\ StandardsInit /\ Init /\ CodesInit /\ NavInit /\ Resting

RegistersNext ==
  \/ part = "standards" /\ StandardsNext /\ UNCHANGED <<part, classVars, codeVars, navVars>>
  \/ part = "class" /\ Next /\ UNCHANGED <<part, standardsVars, codeVars, navVars>>
  \/ part = "codes" /\ CodesNext /\ UNCHANGED <<part, standardsVars, classVars, navVars>>
  \/ part = "menus" /\ NavNext /\ UNCHANGED <<part, standardsVars, classVars, codeVars>>

RegistersSpec ==
  RegistersInit /\ [][RegistersNext]_<<part, standardsVars, classVars, codeVars, navVars>>

\* The same model values stand for the interchangeable ids of each part.
Symmetry == Permutations(Entries) \cup Permutations(Names)
=============================================================================
