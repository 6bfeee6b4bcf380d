---------------------------- MODULE Standards ----------------------------
(***************************************************************************)
(* The standardization dictionaries (domains, words, terms) and the        *)
(* proposal workflow that is the only sanctioned way to change a row that  *)
(* is enacted: src/collections/standardization/{proposalApply,             *)
(* lockStandard,StandardizationProposals,sharedFields}.ts.                 *)
(*                                                                         *)
(* A save of a proposal and a direct edit of a dictionary row are requests *)
(* of several steps: Payload reads the row, runs the hooks on what it      *)
(* read, and later writes the whole merged row.  Between the two another   *)
(* request may commit.  What an approval does to the dictionary and to its *)
(* own row commits together (one transaction).                             *)
(***************************************************************************)
EXTENDS Integers, FiniteSets

CONSTANTS Entries,    \* ids of dictionary rows
          Names,      \* values of the unique column (name, abbreviation)
          Proposals,  \* ids of proposal rows
          Reviewers,  \* concurrent requests saving a proposal
          Editors,    \* concurrent requests on a dictionary row
          MaxLanded,  \* the ghost counter landed stays at this bound
          Unborn, Gone, None

ASSUME MaxLandedAssumption == MaxLanded \in Nat /\ MaxLanded > 1

VARIABLES entries,     \* [Entries -> a row, Unborn or Gone]
          proposals,   \* [Proposals -> a proposal row or None]
          saves,       \* [Reviewers -> the save in progress or None]
          edits,       \* [Editors -> the direct write in progress or None]
          landed,      \* ghost: how often a proposal's change was committed
          overwritten  \* ghost: proposals written from an outdated read

standardsVars == <<entries, proposals, saves, edits, landed, overwritten>>

EntryRow == [name : Names, enacted : BOOLEAN, used : BOOLEAN]
ProposalKinds == {"register", "edit", "discard"}
\* A rejected proposal is in every guard what a pending one is.
Statuses == {"pending", "approved"}

Proposal == [kind : ProposalKinds, target : Entries \cup {None}, name : Names,
             status : Statuses, applied : Entries \cup {None}]

ASSUME NothingAssumption ==
  /\ None \notin Entries \cup EntryRow \cup Proposal
  /\ Unborn \notin EntryRow /\ Gone \notin EntryRow

OpenSave == [prop : Proposals, read : Proposal \cup {None}, next : Proposal,
         seen : EntryRow \cup {None}]
Edit == [entry : Entries, read : EntryRow, next : EntryRow \cup {Gone}]

ASSUME NoRequestAssumption == None \notin OpenSave \cup Edit

StandardsTypeOK ==
  /\ entries \in [Entries -> EntryRow \cup {Unborn, Gone}]
  /\ proposals \in [Proposals -> Proposal \cup {None}]
  /\ saves \in [Reviewers -> OpenSave \cup {None}]
  /\ edits \in [Editors -> Edit \cup {None}]
  /\ landed \in [Proposals -> 0..MaxLanded]
  /\ overwritten \in SUBSET Proposals

Live(e) == entries[e] \notin {Unborn, Gone}
Enacted(e) == Live(e) /\ entries[e].enacted
NameFree(n, e) == \A f \in Entries \ {e} : Live(f) => entries[f].name # n

(* The system starts with the seeded dictionary: one row, a baseline       *)
(* standard or an institution entry, and no proposal.                      *)
StandardsInit ==
  /\ \E e \in Entries, row \in [name : Names, enacted : BOOLEAN, used : {TRUE}] :
       entries = [f \in Entries |-> IF f = e THEN row ELSE Unborn]
  /\ proposals = [p \in Proposals |-> None]
  /\ saves = [r \in Reviewers |-> None]
  /\ edits = [d \in Editors |-> None]
  /\ landed = [p \in Proposals |-> 0]
  /\ overwritten = {}

---------------------------------------------------------------------------
(* Saving a proposal. *)

BeginSave(r, p, read, row) ==
  saves' = [saves EXCEPT ![r] =
              [prop |-> p, read |-> read, next |-> row, seen |-> None]]

\* A new proposal; the form may be saved as approved at once.
CreateProposal(r, p, k, t, n, st) ==
  /\ saves[r] = None /\ proposals[p] = None
  /\ \A q \in Reviewers : saves[q] # None => saves[q].prop # p
  /\ BeginSave(r, p, None, [kind |-> k, target |-> t, name |-> n,
                            status |-> st, applied |-> None])
  /\ UNCHANGED <<entries, proposals, edits, landed, overwritten>>

\* A save of the form: the status, the proposed name, or both.
SaveProposal(r, p, n, st) ==
  /\ saves[r] = None /\ proposals[p] # None
  /\ BeginSave(r, p, proposals[p], [proposals[p] EXCEPT !.name = n, !.status = st])
  /\ UNCHANGED <<entries, proposals, edits, landed, overwritten>>

\* Mutant: the stamp is not consulted.
Unapplied_Ignored(s) == s.next.status = "approved"

\* The hook acts on the transition to approved of a row that has no stamp.
BecomingApproved(s) ==
  s.next.status = "approved" /\ (s.read # None => s.read.status # "approved")
Unapplied(s) == s.read # None => s.read.applied = None
Applies(s) == BecomingApproved(s) /\ Unapplied(s)

\* The nested update of an edit or discard reads its target; it throws when
\* the proposal names none or the row is not there, and the save rolls back.
ReadTarget(r) ==
  LET s == saves[r] IN
  /\ s # None /\ Applies(s) /\ s.next.kind # "register" /\ s.seen = None
  /\ IF s.next.target # None /\ Live(s.next.target)
     THEN saves' = [saves EXCEPT ![r].seen = entries[s.next.target]]
     ELSE saves' = [saves EXCEPT ![r] = None]
  /\ UNCHANGED <<entries, proposals, edits, landed, overwritten>>

\* What the approval writes: enacted is stripped from the payload, so it
\* keeps the value the target had when it was read (false for a new row).
AppliedRow(s) ==
  CASE s.next.kind = "register" ->
         [name |-> s.next.name, enacted |-> FALSE, used |-> TRUE]
    [] s.next.kind = "edit"     -> [s.seen EXCEPT !.name = s.next.name]
    [] s.next.kind = "discard"  -> [s.seen EXCEPT !.used = FALSE]

\* The row a register creates, or the target of an edit or discard.
Destination(s, e) ==
  IF s.next.kind = "register" THEN entries[e] = Unborn
                              ELSE s.seen # None /\ e = s.next.target

StoreProposal(r, row) ==
  LET s == saves[r] IN
  /\ proposals' = [proposals EXCEPT ![s.prop] = row]
  /\ overwritten' = IF proposals[s.prop] = s.read
                    THEN overwritten ELSE overwritten \cup {s.prop}
  /\ saves' = [saves EXCEPT ![r] = None]

\* The approval commits: the dictionary row and the stamped proposal.
Land(r, e) ==
  LET s == saves[r]
      row == AppliedRow(s) IN
  /\ s # None /\ Applies(s) /\ Destination(s, e)
  /\ s.next.kind # "register" => Live(e)
  /\ NameFree(row.name, e)
  /\ entries' = [entries EXCEPT ![e] = row]
  /\ StoreProposal(r, [s.next EXCEPT !.applied = e])
  /\ landed' = [landed EXCEPT ![s.prop] = IF @ < MaxLanded THEN @ + 1 ELSE @]
  /\ UNCHANGED edits

\* The nested write fails: the name is taken, or the target was deleted
\* since it was read.  (A register also fails when Entries has no id left,
\* which is a bound of the model.)
FailToLand(r) ==
  LET s == saves[r] IN
  /\ s # None /\ Applies(s)
  /\ s.next.kind # "register" => s.seen # None
  /\ \A e \in Entries :
       Destination(s, e) => ~NameFree(AppliedRow(s).name, e)
                            \/ (s.next.kind # "register" /\ ~Live(e))
  /\ saves' = [saves EXCEPT ![r] = None]
  /\ UNCHANGED <<entries, proposals, edits, landed, overwritten>>

\* Any other save only writes the proposal's row.
StoreOnly(r) ==
  /\ saves[r] # None /\ ~Applies(saves[r])
  /\ StoreProposal(r, saves[r].next)
  /\ UNCHANGED <<entries, edits, landed>>

---------------------------------------------------------------------------
(* Writing a dictionary row directly. *)

\* Creates are not locked; only a super administrator sets enacted.
CreateEntry(e, n, en) ==
  /\ entries[e] = Unborn /\ NameFree(n, e)
  /\ entries' = [entries EXCEPT ![e] = [name |-> n, enacted |-> en, used |-> TRUE]]
  /\ UNCHANGED <<proposals, saves, edits, landed, overwritten>>

\* Mutant: the lock looks at the use status, not at the mark.
Unlocked_ByUse(e) == Live(e) /\ entries[e].used

\* The lock, evaluated on the row as it is read.
Unlocked(e) == Live(e) /\ ~entries[e].enacted

\* An edit changes the name, a super administrator's sets enacted; Gone
\* stands for a delete.
BeginEdit(d, e, next) ==
  /\ edits[d] = None /\ Unlocked(e)
  /\ next \in {Gone, [entries[e] EXCEPT !.enacted = TRUE]}
       \cup {[entries[e] EXCEPT !.name = n] : n \in Names \ {entries[e].name}}
  /\ edits' = [edits EXCEPT ![d] = [entry |-> e, read |-> entries[e], next |-> next]]
  /\ UNCHANGED <<entries, proposals, saves, landed, overwritten>>

CanWrite(w) == Live(w.entry) /\ (w.next # Gone => NameFree(w.next.name, w.entry))

FinishEdit(d) ==
  LET w == edits[d] IN
  /\ w # None
  /\ entries' = IF CanWrite(w) THEN [entries EXCEPT ![w.entry] = w.next] ELSE entries
  /\ edits' = [edits EXCEPT ![d] = None]
  /\ UNCHANGED <<proposals, saves, landed, overwritten>>

StandardsNext ==
  \/ \E r \in Reviewers, p \in Proposals :
       \/ \E k \in ProposalKinds, t \in Entries \cup {None}, n \in Names,
             st \in Statuses : CreateProposal(r, p, k, t, n, st)
       \/ \E n \in Names, st \in Statuses : SaveProposal(r, p, n, st)
  \/ \E r \in Reviewers : ReadTarget(r) \/ FailToLand(r) \/ StoreOnly(r)
  \/ \E r \in Reviewers, e \in Entries : Land(r, e)
  \/ \E e \in Entries, n \in Names, en \in BOOLEAN : CreateEntry(e, n, en)
  \/ \E d \in Editors :
       \/ \E e \in Entries, next \in EntryRow \cup {Gone} : BeginEdit(d, e, next)
       \/ FinishEdit(d)

StandardsSpec == StandardsInit /\ [][StandardsNext]_standardsVars

---------------------------------------------------------------------------
(* Properties. *)

\* The dictionary is written once for a proposal, however often its status
\* is changed back and forth, unless two saves of it overlapped: the stamp
\* appliedEntryId of the first approval is what the second must read
\* (proposalApply.ts:24-28, 69-72).
LandsOnce == \A p \in Proposals : landed[p] > 1 => p \in overwritten

\* A proposal is recorded as approved only when its change was committed to
\* the dictionary, at this approval or at an earlier one
\* (proposalApply.ts:18-22).
ApprovedHasLanded ==
  \A p \in Proposals :
    proposals[p] # None =>
      (proposals[p].status = "approved" => landed[p] > 0)

\* An approval and its change of the dictionary are one: never the one without the
\* other, and the change no second time, unless saves of the proposal overlapped.
LandsExactlyOnce == LandsOnce /\ ApprovedHasLanded

\* The save r, or the direct write d, wrote row e in this step.
SavedBy(r, e) ==
  saves[r] # None /\ saves'[r] = None /\ Applies(saves[r]) /\ Destination(saves[r], e)
EditedBy(d, e) == edits[d] # None /\ edits'[d] = None /\ edits[d].entry = e

\* A row that is enacted changes only through an approved proposal, which
\* leaves it enacted, or through a request that read the row before it was
\* enacted; the lock cannot stop that one (lockStandard.ts:36-67).
EnactedGuarded ==
  [][\A e \in Entries :
       Enacted(e) /\ entries'[e] # entries[e] =>
         \/ \E r \in Reviewers :
              SavedBy(r, e) /\ (saves[r].seen.enacted => Enacted(e)')
         \/ \E d \in Editors : EditedBy(d, e) /\ ~edits[d].read.enacted]_standardsVars

\* No proposal makes a row enacted, whatever its payload carries
\* (proposalApply.ts:96-102): a row becomes enacted in a write of its own,
\* or a stale approval writes back the mark it had read.
NeverMinted ==
  [][\A e \in Entries, r \in Reviewers :
       SavedBy(r, e) /\ entries'[e] # entries[e] /\ Enacted(e)' =>
         saves[r].seen # None /\ saves[r].seen.enacted]_standardsVars

\* An enacted row is under the change procedure for good: nothing but an approval
\* touches it, and no approval brings the mark about (lockStandard.ts,
\* proposalApply.ts) - apart from requests that had read the row without it.
EnactedIsGuarded == EnactedGuarded /\ NeverMinted
==========================================================================
