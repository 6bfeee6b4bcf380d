------------------------------- MODULE Codes -------------------------------
(***************************************************************************)
(* Common codes (src/collections/codes): classifications hold groups,      *)
(* groups hold a tree of detail codes, a board binds a group to a category *)
(* and its posts choose codes of that group.                               *)
(*                                                                         *)
(* A save of a code is checked against the rows as they are then: its      *)
(* parent, and a code of the same value.  Nothing looks at the rows that   *)
(* point to the saved one, so what a check established lasts until another *)
(* row is saved.  References are kept by the database: NOT NULL ones make  *)
(* a deletion fail, the others are emptied.                                *)
(***************************************************************************)
EXTENDS Naturals, Sequences, SequencesExt

CONSTANTS
  CodeIds,      \* ids of detail codes
  Groups, Classes,
  Segments,  \* two-digit segments
  MaxLevels, \* bound on the segments of a code
  Savers,    \* admin forms of a code
  Citing,
  NoRow     \* no row

ASSUME CodesAssumption ==
  /\ MaxLevels \in Nat \ {0} /\ NoRow \notin CodeIds \cup Groups \cup Classes
  /\ Groups # {} /\ Classes # {}
  /\ CodeIds \cap Savers = {} /\ CodeIds \cap Citing = {} /\ Savers \cap Citing = {}

VARIABLES
  codes,    \* detail codes
  groups,   \* classification of each group
  classes,  \* classifications that exist
  saving,   \* saves between their check and their write
  bound,    \* group the board binds to its category
  chosen,   \* code each post of the board chose
  stale     \* history: saves, codes and choices whose parent, code or board was saved
            \* after their check

codeVars == <<codes, groups, classes, saving, bound, chosen, stale>>

\* A code of other digits than whole segments fits no depth and is never saved.
CodeValues == UNION {[1..n -> Segments] : n \in 1..MaxLevels}

\* What a form submits; the depth is computed.
Forms == [group: Groups, code: CodeValues, parent: CodeIds \cup {NoRow}]

Code == [group: Groups, code: CodeValues, parent: CodeIds \cup {NoRow}, depth: 1..MaxLevels]

ASSUME NoRowAssumption == NoRow \notin Code

Saved == {r \in CodeIds : codes[r] # NoRow}
KeptGroups == {g \in Groups : groups[g] # NoRow}

Depth(d) == IF d.parent = NoRow THEN 1 ELSE codes[d.parent].depth + 1

\* Mutant: the group of the parent is not compared.
FitsParent_AnyGroup(d) ==
  d.parent # NoRow => d.parent \in Saved /\ IsPrefix(codes[d.parent].code, d.code)

\* The parent exists, belongs to the same group and begins the code.
FitsParent(d) ==
  d.parent # NoRow =>
    /\ d.parent \in Saved
    /\ codes[d.parent].group = d.group /\ IsPrefix(codes[d.parent].code, d.code)

Taken(r, d) == \E x \in Saved \ {r} : codes[x].group = d.group /\ codes[x].code = d.code

\* The check of a form that saves row r, or creates a row.
Valid(r, d) ==
  /\ (r # NoRow => d.parent # r) /\ FitsParent(d)
  /\ Len(d.code) = Depth(d)
  /\ ~Taken(r, d)

IdleForm == [row |-> NoRow, form |-> NoRow]

CodesInit ==
  /\ codes = [r \in CodeIds |-> NoRow]
  /\ groups = [g \in Groups |-> CHOOSE c \in Classes : TRUE] /\ classes = Classes
  /\ saving = [s \in Savers |-> IdleForm]
  /\ bound = CHOOSE g \in Groups : TRUE
  /\ chosen = [p \in Citing |-> NoRow]
  /\ stale = {}

\* The check of a save: of row r, or of a new one where r = NoRow.
CheckCode(s, r, d) ==
  /\ saving[s] = IdleForm /\ Valid(r, d)
  /\ saving' = [saving EXCEPT ![s] =
       [row |-> r, form |-> [group |-> d.group, code |-> d.code, parent |-> d.parent,
                             depth |-> Depth(d)]]]
  /\ UNCHANGED <<codes, groups, classes, bound, chosen, stale>>

\* Saves, codes and choices that name row r.
NamedBy(r) ==
  {s \in Savers : saving[s] # IdleForm /\ saving[s].form.parent = r}
    \cup {x \in Saved : codes[x].parent = r} \cup {p \in Citing : chosen[p] = r}

\* The row a save writes: the one it read, unless that is gone, or the next number,
\* which nothing names.
Written(s, r) ==
  IF saving[s].row = NoRow
  THEN r \notin Saved /\ NamedBy(r) = {} /\ \A x \in Savers : saving[x].row # r
  ELSE r = saving[s].row

\* The database: foreign keys and the unique index on group and code.
Storable(r, d) ==
  d.group \in KeptGroups /\ d.parent \in Saved \cup {NoRow} /\ ~Taken(r, d)

\* The write of a save; where the row is gone or the database refuses, the save
\* fails.
WriteCode(s, r) ==
  LET d == saving[s].form
  IN  /\ saving[s] # IdleForm /\ Written(s, r)
      /\ saving' = [saving EXCEPT ![s] = IdleForm]
      /\ IF (saving[s].row = NoRow \/ r \in Saved) /\ Storable(r, d)
         THEN /\ codes' = [codes EXCEPT ![r] = d]
              /\ stale' = ((stale \cup NamedBy(r)) \ {r, s})
                            \cup {x \in {r} : s \in stale}
         ELSE UNCHANGED codes /\ stale' = stale \ {s}
      /\ UNCHANGED <<groups, classes, bound, chosen>>

\* ON DELETE SET NULL.
Detached(r) ==
  [x \in CodeIds |-> IF codes[x] # NoRow /\ codes[x].parent = r
                  THEN [codes[x] EXCEPT !.parent = NoRow] ELSE codes[x]]

\* A code is deleted; children and choices lose their reference.
DeleteCode(r) ==
  /\ r \in Saved
  /\ codes' = [Detached(r) EXCEPT ![r] = NoRow]
  /\ chosen' = [p \in Citing |-> IF chosen[p] = r THEN NoRow ELSE chosen[p]]
  /\ stale' = stale \ ({r} \cup (NamedBy(r) \ Savers))
  /\ UNCHANGED <<groups, classes, saving, bound>>

\* Codes and category bindings have NOT NULL columns for their group.
GroupFree(g) == bound # g /\ \A r \in Saved : codes[r].group # g

DeleteGroup(g) ==
  /\ g \in KeptGroups /\ GroupFree(g)
  /\ groups' = [groups EXCEPT ![g] = NoRow]
  /\ UNCHANGED <<codes, classes, saving, bound, chosen, stale>>

SaveGroup(g, c) ==
  /\ c \in classes /\ groups' = [groups EXCEPT ![g] = c]
  /\ UNCHANGED <<codes, classes, saving, bound, chosen, stale>>

\* So have groups for their classification.
DeleteClass(c) ==
  /\ c \in classes /\ \A g \in KeptGroups : groups[g] # c
  /\ classes' = classes \ {c}
  /\ UNCHANGED <<codes, groups, saving, bound, chosen, stale>>

\* The board is saved with another group; its posts are not looked at.
RebindBoard(g) ==
  /\ g \in KeptGroups /\ g # bound /\ bound' = g
  /\ stale' = stale \cup {p \in Citing : chosen[p] # NoRow}
  /\ UNCHANGED <<codes, groups, classes, saving, chosen>>

Choosable(r) == r \in Saved /\ codes[r].group = bound

\* A post is saved with a code of the group its board binds.
ChooseCode(p, r) ==
  /\ Choosable(r)
  /\ chosen' = [chosen EXCEPT ![p] = r] /\ stale' = stale \ {p}
  /\ UNCHANGED <<codes, groups, classes, saving, bound>>

CodesNext ==
  \/ \E s \in Savers, r \in CodeIds : WriteCode(s, r)
  \/ \E s \in Savers, r \in Saved \cup {NoRow}, d \in Forms : CheckCode(s, r, d)
  \/ \E r \in CodeIds : DeleteCode(r) \/ \E p \in Citing : ChooseCode(p, r)
  \/ \E g \in Groups : DeleteGroup(g) \/ RebindBoard(g) \/ \E c \in Classes : SaveGroup(g, c)
  \/ \E c \in Classes : DeleteClass(c)

CodesSpec == CodesInit /\ [][CodesNext]_codeVars

\* A row of the code specification of classifications S (codeSpecData.ts): the
\* parent is looked up among the codes the report selected.
SpecRow(r, S) ==
  LET p == codes[r].parent
  IN  [group |-> codes[r].group, code |-> codes[r].code,
       parent |-> IF p = NoRow THEN <<"0">>
                  ELSE IF groups[codes[p].group] \in S THEN codes[p].code ELSE <<>>]

-----------------------------------------------------------------------------
(* Properties.                                                             *)

\* Type invariant of the codes; a code has a segment for each level.
CodesTypeOK ==
  /\ codes \in [CodeIds -> Code \cup {NoRow}]
  /\ \A r \in Saved : Len(codes[r].code) = codes[r].depth
  /\ groups \in [Groups -> Classes \cup {NoRow}] /\ classes \subseteq Classes
  /\ bound \in Groups /\ chosen \in [Citing -> CodeIds \cup {NoRow}]

\* No two codes of a group have the same value, also when two saves pass the
\* look-up together (the index is "the correctness backstop for the race").
CodesUnique ==
  \A x, y \in Saved :
    codes[x].group = codes[y].group /\ codes[x].code = codes[y].code => x = y

\* Every reference names a row that exists: groups keep their classification and
\* codes their group; children and choices lose a deleted code.
ReferencesResolve ==
  /\ \A g \in KeptGroups : groups[g] \in classes
  /\ \A r \in Saved : codes[r].group \in KeptGroups /\ codes[r].parent \in Saved \cup {NoRow}
  /\ \A p \in Citing : chosen[p] \in Saved \cup {NoRow}

FollowsParent(r) ==
  LET c == codes[r]
      p == codes[c.parent]
  IN  c.parent # NoRow =>
        p.group = c.group /\ c.depth = p.depth + 1 /\ IsPrefix(p.code, c.code)

\* A code stops extending the code of its parent, in the same group and one level
\* deeper, only where that parent was saved after the code was checked.
StrayOnlyByParentSave ==
  \A r \in Saved : ~FollowsParent(r) => r \in stale

\* A post holds a code outside the group of its category only where that code,
\* or the board, was saved after the post.
MisfiledOnlyBySave ==
  \A p \in Citing :
    chosen[p] # NoRow /\ codes[chosen[p]].group # bound => p \in stale

\* The specification of one classification says of a code what the whole one
\* says, unless the code's parent was saved after it was checked.
SpecAgrees ==
  \A r \in Saved :
    SpecRow(r, {groups[codes[r].group]}) # SpecRow(r, Classes) => r \in stale

\* The dictionary of codes stays consistent: values unique, references resolved,
\* and a code out of place below its parent, in the category of a post or in a
\* specification only after a later save of the other row.
OutOfPlaceOnlyBySave ==
  /\ CodesTypeOK /\ CodesUnique /\ ReferencesResolve
  /\ StrayOnlyByParentSave /\ MisfiledOnlyBySave /\ SpecAgrees

\* What validateAndComputeDepth says it enforces: "a child's code must start with
\* its parent's code, a child's parent must belong to the same code group".
TreeOfPrefixes == \A r \in Saved : FollowsParent(r)
=============================================================================
