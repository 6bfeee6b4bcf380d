-------------------------- MODULE RegistersProofs --------------------------
(***************************************************************************)
(* Proofs about the registers whose rows constrain one another, for any    *)
(* rows, names, proposals and requests of the dictionaries, any boards,    *)
(* posts and attachments, any ids, groups and saves of the codes, and any  *)
(* finite set of menus with any saves.                                     *)
(***************************************************************************)
EXTENDS Standards, SecurityClass, Codes, SiteNav, SequenceTheorems, SumTheorems

-----------------------------------------------------------------------------
(* Standards: the dictionaries and their proposals *)

\* Lemma: what an approval writes to the dictionary is a row.
LEMMA AppliedRowType ==
  ASSUME NEW s \in OpenSave, s.next.kind # "register" => s.seen # None
  PROVE  AppliedRow(s) \in EntryRow
<1>1. s.next \in Proposal /\ s.seen \in EntryRow \cup {None}
  BY DEF OpenSave
<1>2. CASE s.next.kind = "register"
  BY <1>1, <1>2 DEF AppliedRow, EntryRow, Proposal
<1>3. CASE s.next.kind = "edit"
  BY <1>1, <1>3 DEF AppliedRow, EntryRow, Proposal
<1>4. CASE s.next.kind = "discard"
  BY <1>1, <1>4 DEF AppliedRow, EntryRow, Proposal
<1> QED BY <1>1, <1>2, <1>3, <1>4 DEF Proposal, ProposalKinds

\* Lemma: a step that only starts a save keeps the types.
LEMMA BeginSaveType ==
  ASSUME StandardsTypeOK, NEW r \in Reviewers, NEW p \in Proposals,
         NEW read \in Proposal \cup {None}, NEW row \in Proposal,
         BeginSave(r, p, read, row),
         UNCHANGED <<entries, proposals, edits, landed, overwritten>>
  PROVE  StandardsTypeOK'
<1>1. [prop |-> p, read |-> read, next |-> row, seen |-> None] \in OpenSave
  BY DEF OpenSave
<1> QED BY <1>1 DEF BeginSave, StandardsTypeOK

\* Lemma: writing a proposal's row keeps the types of what it writes.
LEMMA StoreProposalType ==
  ASSUME StandardsTypeOK, NEW r \in Reviewers, saves[r] # None, NEW row \in Proposal,
         StoreProposal(r, row)
  PROVE  /\ proposals' \in [Proposals -> Proposal \cup {None}]
         /\ overwritten' \in SUBSET Proposals
         /\ saves' \in [Reviewers -> OpenSave \cup {None}]
<1>1. saves[r].prop \in Proposals
  BY DEF StandardsTypeOK, OpenSave
<1> QED BY <1>1 DEF StoreProposal, StandardsTypeOK

\* Every part of the state keeps its type.
THEOREM StandardsTyped == StandardsSpec => []StandardsTypeOK
<1> USE MaxLandedAssumption, NothingAssumption, NoRequestAssumption
<1>1. ASSUME StandardsInit PROVE StandardsTypeOK
  <2>1. PICK e \in Entries, row \in [name : Names, enacted : BOOLEAN, used : {TRUE}] :
               entries = [f \in Entries |-> IF f = e THEN row ELSE Unborn]
    BY <1>1 DEF StandardsInit
  <2>2. row \in EntryRow
    BY DEF EntryRow
  <2> QED BY <1>1, <2>1, <2>2 DEF StandardsInit, StandardsTypeOK
<1>2. StandardsTypeOK /\ [StandardsNext]_standardsVars => StandardsTypeOK'
  <2> SUFFICES ASSUME StandardsTypeOK, [StandardsNext]_standardsVars PROVE StandardsTypeOK'
    OBVIOUS
  <2>1. ASSUME NEW r \in Reviewers, NEW p \in Proposals, NEW k \in ProposalKinds,
               NEW t \in Entries \cup {None}, NEW n \in Names, NEW st \in Statuses,
               CreateProposal(r, p, k, t, n, st)
        PROVE  StandardsTypeOK'
    <3>1. [kind |-> k, target |-> t, name |-> n, status |-> st,
           applied |-> None] \in Proposal
      BY DEF Proposal
    <3> QED BY <2>1, <3>1, BeginSaveType DEF CreateProposal
  <2>2. ASSUME NEW r \in Reviewers, NEW p \in Proposals, NEW n \in Names,
               NEW st \in Statuses, SaveProposal(r, p, n, st)
        PROVE  StandardsTypeOK'
    <3>1. proposals[p] \in Proposal
      BY <2>2 DEF SaveProposal, StandardsTypeOK
    <3>2. [proposals[p] EXCEPT !.name = n, !.status = st] \in Proposal
      BY <3>1 DEF Proposal
    <3> QED BY <2>2, <3>1, <3>2, BeginSaveType DEF SaveProposal
  <2>3. ASSUME NEW r \in Reviewers, ReadTarget(r) PROVE StandardsTypeOK'
    <3>1. saves[r] \in OpenSave
      BY <2>3 DEF ReadTarget, StandardsTypeOK
    <3>2. CASE saves[r].next.target # None /\ Live(saves[r].next.target)
      <4>1. saves[r].next.target \in Entries
        BY <3>1, <3>2 DEF OpenSave, Proposal
      <4>2. entries[saves[r].next.target] \in EntryRow
        BY <3>2, <4>1 DEF Live, StandardsTypeOK
      <4>3. [saves[r] EXCEPT !.seen = entries[saves[r].next.target]] \in OpenSave
        BY <3>1, <4>2 DEF OpenSave
      <4> QED BY <2>3, <3>2, <4>3 DEF ReadTarget, StandardsTypeOK
    <3>3. CASE ~(saves[r].next.target # None /\ Live(saves[r].next.target))
      BY <2>3, <3>3 DEF ReadTarget, StandardsTypeOK
    <3> QED BY <3>2, <3>3
  <2>4. ASSUME NEW r \in Reviewers, FailToLand(r) PROVE StandardsTypeOK'
    BY <2>4 DEF FailToLand, StandardsTypeOK
  <2>5. ASSUME NEW r \in Reviewers, StoreOnly(r) PROVE StandardsTypeOK'
    <3>1. saves[r].next \in Proposal
      BY <2>5 DEF StoreOnly, StandardsTypeOK, OpenSave
    <3> QED BY <2>5, <3>1, StoreProposalType DEF StoreOnly, StandardsTypeOK
  <2>6. ASSUME NEW r \in Reviewers, NEW e \in Entries, Land(r, e) PROVE StandardsTypeOK'
    <3> DEFINE s == saves[r]
    <3>1. s \in OpenSave /\ s.next \in Proposal /\ s.prop \in Proposals
      BY <2>6 DEF Land, StandardsTypeOK, OpenSave
    <3>2. AppliedRow(s) \in EntryRow
      BY <2>6, <3>1, AppliedRowType DEF Land, Destination
    <3>3. [s.next EXCEPT !.applied = e] \in Proposal
      BY <3>1 DEF Proposal
    <3>4. /\ proposals' \in [Proposals -> Proposal \cup {None}]
          /\ overwritten' \in SUBSET Proposals
          /\ saves' \in [Reviewers -> OpenSave \cup {None}]
      BY <2>6, <3>3, StoreProposalType DEF Land
    <3>5. entries' \in [Entries -> EntryRow \cup {Unborn, Gone}]
      BY <2>6, <3>2 DEF Land, StandardsTypeOK
    <3>6. landed' \in [Proposals -> 0..MaxLanded]
      BY <2>6, <3>1 DEF Land, StandardsTypeOK
    <3> QED BY <2>6, <3>4, <3>5, <3>6 DEF Land, StandardsTypeOK
  <2>7. ASSUME NEW e \in Entries, NEW n \in Names, NEW en \in BOOLEAN,
               CreateEntry(e, n, en)
        PROVE  StandardsTypeOK'
    BY <2>7 DEF CreateEntry, StandardsTypeOK, EntryRow
  <2>8. ASSUME NEW d \in Editors, NEW e \in Entries, NEW next \in EntryRow \cup {Gone},
               BeginEdit(d, e, next)
        PROVE  StandardsTypeOK'
    <3>1. entries[e] \in EntryRow
      BY <2>8 DEF BeginEdit, Unlocked, Live, StandardsTypeOK
    <3>2. [entry |-> e, read |-> entries[e], next |-> next] \in Edit
      BY <3>1 DEF Edit
    <3> QED BY <2>8, <3>2 DEF BeginEdit, StandardsTypeOK
  <2>9. ASSUME NEW d \in Editors, FinishEdit(d) PROVE StandardsTypeOK'
    BY <2>9 DEF FinishEdit, StandardsTypeOK, Edit
  <2>10. CASE UNCHANGED standardsVars
    BY <2>10 DEF standardsVars, StandardsTypeOK
  <2> QED BY <2>1, <2>2, <2>3, <2>4, <2>5, <2>6, <2>7, <2>8, <2>9, <2>10 DEF StandardsNext
<1> QED BY <1>1, <1>2, PTL DEF StandardsSpec

-----------------------------------------------------------------------------

\* The strengthening that makes LandsOnce and ApprovedHasLanded inductive.  A
\* landed proposal nobody overwrote still carries its stamp; a row that is
\* approved or stamped, or was when a save read it, has landed; and a save
\* carries the stamp it read.
Stamped(row) == row # None /\ row.applied # None
Settled(row) == row # None /\ (row.status = "approved" \/ row.applied # None)

StampInv ==
  /\ \A p \in Proposals : p \notin overwritten =>
       landed[p] <= 1 /\ (landed[p] > 0 => Stamped(proposals[p]))
  /\ \A p \in Proposals : Settled(proposals[p]) => landed[p] > 0
  /\ \A r \in Reviewers : saves[r] # None =>
       /\ Settled(saves[r].read) => landed[saves[r].prop] > 0
       /\ saves[r].next.applied =
            IF saves[r].read = None THEN None ELSE saves[r].read.applied

\* Lemma: a step that writes no proposal and starts no save keeps StampInv.
LEMMA StampFrame ==
  ASSUME StandardsTypeOK, StampInv, UNCHANGED <<proposals, landed, overwritten>>,
         \A q \in Reviewers :
           \/ saves'[q] = None
           \/ saves[q] # None /\ saves'[q].read = saves[q].read
                /\ saves'[q].prop = saves[q].prop /\ saves'[q].next = saves[q].next
  PROVE  StampInv'
BY DEF StampInv

\* Lemma: starting a save that carries the stamp it read keeps StampInv.
LEMMA StampBegin ==
  ASSUME StandardsTypeOK, StampInv, NEW r \in Reviewers, NEW p \in Proposals,
         NEW row \in Proposal, BeginSave(r, p, proposals[p], row),
         row.applied = IF proposals[p] = None THEN None ELSE proposals[p].applied,
         UNCHANGED <<entries, proposals, edits, landed, overwritten>>
  PROVE  StampInv'
<1>1. ASSUME NEW q \in Reviewers, saves'[q] # None
      PROVE  /\ Settled(saves'[q].read) => landed[saves'[q].prop] > 0
             /\ saves'[q].next.applied =
                  IF saves'[q].read = None THEN None ELSE saves'[q].read.applied
  <2>1. CASE q = r
    BY <2>1 DEF BeginSave, StampInv, StandardsTypeOK
  <2>2. CASE q # r
    BY <1>1, <2>2 DEF BeginSave, StampInv, StandardsTypeOK
  <2> QED BY <2>1, <2>2
<1> QED BY <1>1 DEF StampInv

\* The inductive invariant holds of the specification.
THEOREM StampInvHolds == StandardsSpec => []StampInv
<1> USE MaxLandedAssumption, NothingAssumption, NoRequestAssumption
<1>1. StandardsInit => StampInv
  BY DEF StandardsInit, StampInv, Settled
<1>2. StandardsTypeOK /\ StampInv /\ [StandardsNext]_standardsVars => StampInv'
  <2> SUFFICES ASSUME StandardsTypeOK, StampInv, [StandardsNext]_standardsVars PROVE StampInv'
    OBVIOUS
  <2>1. ASSUME NEW r \in Reviewers, NEW p \in Proposals, NEW k \in ProposalKinds,
               NEW t \in Entries \cup {None}, NEW n \in Names, NEW st \in Statuses,
               CreateProposal(r, p, k, t, n, st)
        PROVE  StampInv'
    <3> DEFINE row == [kind |-> k, target |-> t, name |-> n, status |-> st,
                       applied |-> None]
    <3>1. row \in Proposal /\ row.applied = None
      BY DEF Proposal
    <3>2. proposals[p] = None /\ BeginSave(r, p, proposals[p], row)
      BY <2>1 DEF CreateProposal
    <3> QED BY <2>1, <3>1, <3>2, StampBegin DEF CreateProposal
  <2>2. ASSUME NEW r \in Reviewers, NEW p \in Proposals, NEW n \in Names,
               NEW st \in Statuses, SaveProposal(r, p, n, st)
        PROVE  StampInv'
    <3> DEFINE row == [proposals[p] EXCEPT !.name = n, !.status = st]
    <3>1. proposals[p] \in Proposal
      BY <2>2 DEF SaveProposal, StandardsTypeOK
    <3>2. row \in Proposal /\ row.applied = proposals[p].applied
      BY <3>1 DEF Proposal
    <3> QED BY <2>2, <3>1, <3>2, StampBegin DEF SaveProposal
  <2>3. ASSUME NEW r \in Reviewers, ReadTarget(r) PROVE StampInv'
    <3>1. saves[r] \in OpenSave
      BY <2>3 DEF ReadTarget, StandardsTypeOK
    <3>2. \A q \in Reviewers \ {r} : saves'[q] = saves[q]
      BY <2>3 DEF ReadTarget, StandardsTypeOK
    <3>3. \/ saves'[r] = None
          \/ saves'[r] = [saves[r] EXCEPT !.seen = entries[saves[r].next.target]]
      BY <2>3 DEF ReadTarget, StandardsTypeOK
    <3>4. \/ saves'[r] = None
          \/ /\ saves'[r].read = saves[r].read
             /\ saves'[r].prop = saves[r].prop /\ saves'[r].next = saves[r].next
      BY <3>1, <3>3 DEF OpenSave
    <3> QED BY <2>3, <3>1, <3>2, <3>4, StampFrame DEF ReadTarget
  <2>4. ASSUME NEW r \in Reviewers, FailToLand(r) PROVE StampInv'
    BY <2>4, StampFrame DEF FailToLand, StandardsTypeOK
  <2>5. ASSUME NEW r \in Reviewers, StoreOnly(r) PROVE StampInv'
    <3> DEFINE s == saves[r]
    <3>1. s \in OpenSave /\ s.prop \in Proposals /\ s.next \in Proposal
      BY <2>5 DEF StoreOnly, StandardsTypeOK, OpenSave
    <3>2. Settled(s.next) => landed[s.prop] > 0
      BY <2>5, <3>1 DEF StoreOnly, Applies, BecomingApproved, Unapplied,
                       StampInv, Settled
    <3>3. ASSUME s.prop \notin overwritten', landed[s.prop] > 0
          PROVE  Stamped(s.next)
      <4>1. proposals[s.prop] = s.read /\ s.prop \notin overwritten
        BY <2>5, <3>1, <3>3 DEF StoreOnly, StoreProposal, StandardsTypeOK
      <4> QED BY <2>5, <3>1, <3>3, <4>1 DEF StoreOnly, StampInv, Stamped
    <3>4. /\ proposals' = [proposals EXCEPT ![s.prop] = s.next]
          /\ saves' = [saves EXCEPT ![r] = None]
          /\ overwritten \subseteq overwritten' /\ landed' = landed
      BY <2>5 DEF StoreOnly, StoreProposal
    <3>5. \A p \in Proposals : Settled(proposals'[p]) => landed[p] > 0
      BY <3>1, <3>2, <3>4 DEF StampInv, StandardsTypeOK
    <3>6. \A p \in Proposals : p \notin overwritten' =>
            landed[p] <= 1 /\ (landed[p] > 0 => Stamped(proposals'[p]))
      BY <3>1, <3>3, <3>4 DEF StampInv, StandardsTypeOK
    <3>7. \A q \in Reviewers : saves'[q] # None => saves'[q] = saves[q]
      BY <3>4 DEF StandardsTypeOK
    <3> QED BY <3>4, <3>5, <3>6, <3>7 DEF StampInv
  <2>6. ASSUME NEW r \in Reviewers, NEW e \in Entries, Land(r, e) PROVE StampInv'
    <3> DEFINE s == saves[r]
               row == [s.next EXCEPT !.applied = e]
    <3>1. s \in OpenSave /\ s.prop \in Proposals /\ s.next \in Proposal
      BY <2>6 DEF Land, StandardsTypeOK, OpenSave
    <3>2. Stamped(row)
      BY <3>1 DEF Stamped, Proposal
    <3>3. /\ proposals' = [proposals EXCEPT ![s.prop] = row]
          /\ saves' = [saves EXCEPT ![r] = None]
          /\ overwritten \subseteq overwritten'
          /\ landed' = [landed EXCEPT ![s.prop] = IF @ < MaxLanded THEN @ + 1 ELSE @]
      BY <2>6 DEF Land, StoreProposal
    <3>4. landed'[s.prop] > 0 /\ \A p \in Proposals : landed'[p] >= landed[p]
      BY <3>1, <3>3 DEF StandardsTypeOK
    <3>5. ASSUME s.prop \notin overwritten' PROVE landed'[s.prop] <= 1
      <4>1. proposals[s.prop] = s.read /\ s.prop \notin overwritten
        BY <2>6, <3>1, <3>5 DEF Land, StoreProposal, StandardsTypeOK
      <4>2. ~(landed[s.prop] > 0)
        BY <2>6, <3>1, <4>1 DEF Land, Applies, Unapplied, StampInv, Stamped
      <4> QED BY <3>1, <3>3, <4>2 DEF StandardsTypeOK
    <3>6. \A p \in Proposals : p # s.prop =>
            proposals'[p] = proposals[p] /\ landed'[p] = landed[p]
      BY <3>3 DEF StandardsTypeOK
    <3>7. proposals'[s.prop] = row
      BY <3>1, <3>3 DEF StandardsTypeOK
    <3>8. \A p \in Proposals : p \notin overwritten' =>
            landed'[p] <= 1 /\ (landed'[p] > 0 => Stamped(proposals'[p]))
      BY <3>2, <3>3, <3>5, <3>6, <3>7 DEF StampInv
    <3>9. \A p \in Proposals : Settled(proposals'[p]) => landed'[p] > 0
      BY <3>4, <3>6 DEF StampInv
    <3>10. \A q \in Reviewers : saves'[q] # None => saves'[q] = saves[q]
      BY <3>3 DEF StandardsTypeOK
    <3>11. \A q \in Reviewers : saves'[q] # None => landed[saves[q].prop] \in Nat
                                  /\ landed'[saves[q].prop] >= landed[saves[q].prop]
                                  /\ landed'[saves[q].prop] \in Nat
      <4> TAKE q \in Reviewers
      <4> HAVE saves'[q] # None
      <4>1. saves[q].prop \in Proposals
        BY <3>10 DEF StandardsTypeOK, OpenSave
      <4> QED BY <3>1, <3>3, <4>1 DEF StandardsTypeOK
    <3>12. \A q \in Reviewers : saves'[q] # None =>
             /\ Settled(saves'[q].read) => landed'[saves'[q].prop] > 0
             /\ saves'[q].next.applied =
                  IF saves'[q].read = None THEN None ELSE saves'[q].read.applied
      BY <3>10, <3>11 DEF StampInv
    <3> QED BY <3>8, <3>9, <3>12 DEF StampInv
  <2>7. ASSUME NEW e \in Entries, NEW n \in Names, NEW en \in BOOLEAN,
               CreateEntry(e, n, en)
        PROVE  StampInv'
    BY <2>7, StampFrame DEF CreateEntry
  <2>8. ASSUME NEW d \in Editors, NEW e \in Entries, NEW next \in EntryRow \cup {Gone},
               BeginEdit(d, e, next)
        PROVE  StampInv'
    BY <2>8, StampFrame DEF BeginEdit
  <2>9. ASSUME NEW d \in Editors, FinishEdit(d) PROVE StampInv'
    BY <2>9, StampFrame DEF FinishEdit
  <2>10. CASE UNCHANGED standardsVars
    BY <2>10, StampFrame DEF standardsVars
  <2> QED BY <2>1, <2>2, <2>3, <2>4, <2>5, <2>6, <2>7, <2>8, <2>9, <2>10 DEF StandardsNext
<1> QED BY <1>1, <1>2, StandardsTyped, PTL DEF StandardsSpec

\* The change of a proposal is committed at most once unless a save of it was
\* written from an outdated read.
THEOREM LandsOnceHolds == StandardsSpec => []LandsOnce
<1>1. StandardsTypeOK /\ StampInv => LandsOnce
  BY MaxLandedAssumption DEF StandardsTypeOK, StampInv, LandsOnce
<1> QED BY <1>1, StandardsTyped, StampInvHolds, PTL

\* A proposal is approved only when its change has been committed.
THEOREM ApprovedHasLandedHolds == StandardsSpec => []ApprovedHasLanded
<1>1. StampInv => ApprovedHasLanded
  BY DEF StampInv, Settled, ApprovedHasLanded
<1> QED BY <1>1, StampInvHolds, PTL

-----------------------------------------------------------------------------

\* Who may change a row that is live: only a landing save or a finishing edit.
\* Lemma: every step that changes a live row is one of the two.
LEMMA LiveRowWriters ==
  ASSUME StandardsTypeOK, [StandardsNext]_standardsVars, NEW e \in Entries, Live(e), entries'[e] # entries[e]
  PROVE  \/ \E r \in Reviewers : Land(r, e)
         \/ \E d \in Editors : FinishEdit(d) /\ edits[d].entry = e
<1>1. ASSUME NEW r \in Reviewers, NEW f \in Entries, Land(r, f) PROVE f = e
  BY <1>1 DEF Land, StandardsTypeOK
<1>2. ASSUME NEW d \in Editors, FinishEdit(d) PROVE edits[d].entry = e
  BY <1>2 DEF FinishEdit, StandardsTypeOK
<1>3. ASSUME NEW f \in Entries, NEW n \in Names, NEW en \in BOOLEAN,
             CreateEntry(f, n, en)
      PROVE  FALSE
  BY <1>3 DEF CreateEntry, Live, StandardsTypeOK
<1>4. entries' # entries
  OBVIOUS
<1> QED
  BY <1>1, <1>2, <1>3, <1>4
  DEF StandardsNext, standardsVars, CreateProposal, SaveProposal, ReadTarget, FailToLand, StoreOnly,
      BeginEdit

\* Lemma: an approval that lands writes the mark its target was read with.
LEMMA LandKeepsMark ==
  ASSUME StandardsTypeOK, NEW r \in Reviewers, NEW e \in Entries, Land(r, e)
  PROVE  /\ SavedBy(r, e)
         /\ entries'[e] = AppliedRow(saves[r]) /\ AppliedRow(saves[r]) \in EntryRow
         /\ Live(e) => /\ saves[r].seen # None
                       /\ AppliedRow(saves[r]).enacted = saves[r].seen.enacted
<1> USE NothingAssumption
<1> DEFINE s == saves[r]
<1>1. s \in OpenSave
  BY DEF Land, StandardsTypeOK
<1>2. AppliedRow(s) \in EntryRow
  BY <1>1, AppliedRowType DEF Land, Destination
<1>3. SavedBy(r, e) /\ entries'[e] = AppliedRow(s)
  BY DEF Land, StoreProposal, SavedBy, StandardsTypeOK
<1>4. ASSUME Live(e) PROVE s.seen # None /\ AppliedRow(s).enacted = s.seen.enacted
  <2>1. s.next.kind # "register" /\ s.seen # None
    BY <1>4 DEF Land, Destination, Live
  <2>2. s.next.kind \in {"edit", "discard"} /\ s.seen \in EntryRow
    BY <1>1, <2>1 DEF OpenSave, Proposal, ProposalKinds
  <2>3. CASE s.next.kind = "edit"
    BY <2>1, <2>2, <2>3 DEF AppliedRow, EntryRow
  <2>4. CASE s.next.kind = "discard"
    BY <2>1, <2>2, <2>4 DEF AppliedRow, EntryRow
  <2> QED BY <2>1, <2>2, <2>3, <2>4
<1> QED BY <1>2, <1>3, <1>4

\* The lock as an invariant: an edit in progress read a row that was not
\* enacted.
LockInv == \A d \in Editors : edits[d] # None => ~edits[d].read.enacted

\* Every direct write in progress passed the lock.
THEOREM LockInvHolds == StandardsSpec => []LockInv
<1>1. StandardsInit => LockInv
  BY DEF StandardsInit, LockInv
<1>2. StandardsTypeOK /\ LockInv /\ [StandardsNext]_standardsVars => LockInv'
  <2> SUFFICES ASSUME StandardsTypeOK, LockInv, [StandardsNext]_standardsVars PROVE LockInv'
    OBVIOUS
  <2>1. ASSUME NEW d \in Editors, NEW e \in Entries, NEW next \in EntryRow \cup {Gone},
               BeginEdit(d, e, next)
        PROVE  LockInv'
    BY <2>1 DEF BeginEdit, Unlocked, LockInv, StandardsTypeOK
  <2>2. ASSUME NEW d \in Editors, FinishEdit(d) PROVE LockInv'
    BY <2>2 DEF FinishEdit, LockInv, StandardsTypeOK
  <2>3. CASE UNCHANGED edits
    BY <2>3 DEF LockInv
  <2> QED
    BY <2>1, <2>2, <2>3
    DEF StandardsNext, standardsVars, CreateProposal, SaveProposal, ReadTarget, FailToLand, StoreOnly,
        Land, CreateEntry
<1> QED BY <1>1, <1>2, StandardsTyped, PTL DEF StandardsSpec

\* An enacted row changes only through an approval, which keeps it enacted, or
\* through a request that read the row before it was enacted.
THEOREM EnactedGuardedHolds == StandardsSpec => EnactedGuarded
<1> DEFINE Guarded ==
      \A e \in Entries :
        Enacted(e) /\ entries'[e] # entries[e] =>
          \/ \E r \in Reviewers :
               SavedBy(r, e) /\ (saves[r].seen.enacted => Enacted(e)')
          \/ \E d \in Editors : EditedBy(d, e) /\ ~edits[d].read.enacted
<1>1. StandardsTypeOK /\ LockInv /\ [StandardsNext]_standardsVars => Guarded
  <2> SUFFICES ASSUME StandardsTypeOK, LockInv, [StandardsNext]_standardsVars,
                      NEW e \in Entries, Enacted(e), entries'[e] # entries[e]
               PROVE  \/ \E r \in Reviewers :
                           SavedBy(r, e) /\ (saves[r].seen.enacted => Enacted(e)')
                      \/ \E d \in Editors : EditedBy(d, e) /\ ~edits[d].read.enacted
    OBVIOUS
  <2>1. Live(e)
    BY DEF Enacted
  <2>2. ASSUME NEW r \in Reviewers, Land(r, e)
        PROVE  SavedBy(r, e) /\ (saves[r].seen.enacted => Enacted(e)')
    BY <2>1, <2>2, LandKeepsMark, NothingAssumption DEF Enacted, Live
  <2>3. ASSUME NEW d \in Editors, FinishEdit(d), edits[d].entry = e
        PROVE  EditedBy(d, e) /\ ~edits[d].read.enacted
    BY <2>3 DEF FinishEdit, EditedBy, LockInv, StandardsTypeOK
  <2> QED BY <2>1, <2>2, <2>3, LiveRowWriters
<1> QED BY <1>1, StandardsTyped, LockInvHolds, PTL DEF StandardsSpec, EnactedGuarded

\* Theorem: approval and dictionary stay together, once a proposal.
THEOREM LandsExactlyOnceHolds == StandardsSpec => []LandsExactlyOnce
<1> QED BY LandsOnceHolds, ApprovedHasLandedHolds, PTL DEF LandsExactlyOnce

\* Theorem: a save of a proposal leaves a row enacted only where it had read it so.
THEOREM NeverMintedHolds == StandardsSpec => NeverMinted
<1> USE NothingAssumption, NoRequestAssumption
<1>1. StandardsTypeOK /\ [StandardsNext]_standardsVars
        => [\A e \in Entries, r \in Reviewers :
              SavedBy(r, e) /\ entries'[e] # entries[e] /\ Enacted(e)' =>
                saves[r].seen # None /\ saves[r].seen.enacted]_standardsVars
  <2> SUFFICES ASSUME StandardsTypeOK, StandardsNext, NEW e \in Entries, NEW r \in Reviewers,
                      SavedBy(r, e), entries'[e] # entries[e], Enacted(e)'
               PROVE  saves[r].seen # None /\ saves[r].seen.enacted
    OBVIOUS
  <2>1. PICK f \in Entries : Land(r, f)
    <3>1. entries' # entries /\ saves[r] # None /\ saves'[r] = None
      BY DEF SavedBy
    <3>2. ASSUME NEW q \in Reviewers, NEW f \in Entries, Land(q, f) PROVE q = r
      BY <3>1, <3>2 DEF Land, StoreProposal, StandardsTypeOK
    <3> QED BY <3>1, <3>2 DEF StandardsNext, CreateProposal, SaveProposal, ReadTarget, FailToLand,
                             StoreOnly, CreateEntry, BeginEdit, FinishEdit
  <2>2. f = e /\ entries'[e] = AppliedRow(saves[r])
    BY <2>1 DEF Land, StandardsTypeOK
  <2>3. saves[r] \in OpenSave /\ saves[r].next \in Proposal
    BY <2>1 DEF Land, StandardsTypeOK, OpenSave
  <2>4. entries'[e].enacted
    BY DEF Enacted
  <2>5. saves[r].next.kind \in {"edit", "discard"} /\ saves[r].seen # None
    BY <2>1, <2>2, <2>3, <2>4 DEF Land, Destination, AppliedRow, Proposal, ProposalKinds
  <2>6. saves[r].seen \in EntryRow
    BY <2>3, <2>5 DEF OpenSave
  <2> QED BY <2>2, <2>4, <2>5, <2>6 DEF AppliedRow, EntryRow
<1> QED BY <1>1, StandardsTyped, PTL DEF StandardsSpec, NeverMinted

\* Theorem: nothing but an approval changes an enacted row or keeps the mark.
THEOREM EnactedIsGuardedHolds == StandardsSpec => EnactedIsGuarded
<1> QED BY EnactedGuardedHolds, NeverMintedHolds, PTL DEF EnactedIsGuarded

-----------------------------------------------------------------------------
(* SecurityClass: the class of boards, posts and attachments *)

\* Lemma: the empty row is a row.
LEMMA NoPostType == NoPost \in PostRow
BY BoardsAssumption DEF NoPost, PostRow

\* Every stored board, post and flag keeps its type, whatever is saved,
\* flipped or deleted.
THEOREM ClassTyped == Spec => []TypeOK
<1>1. Init => TypeOK
  BY NoPostType DEF Init, TypeOK
<1>2. TypeOK /\ [Next]_classVars => TypeOK'
  <2> SUFFICES ASSUME TypeOK, [Next]_classVars PROVE TypeOK'
    OBVIOUS
  <2> USE DEF TypeOK
  <2>1. ASSUME NEW p \in Posts, NEW b \in Boards, NEW refs \in SUBSET Files,
               Save(p, b, refs)
        PROVE  TypeOK'
    <3>1. [live |-> TRUE, board |-> b, sec |-> boardSec[b], refs |-> refs] \in PostRow
      BY DEF PostRow
    <3>2. post' \in [Posts -> PostRow]
      BY <2>1, <3>1 DEF Save
    <3> QED BY <2>1, <3>2 DEF Save, Synced
  <2>2. ASSUME NEW b \in Boards, Flip(b) PROVE TypeOK'
    <3>1. \A r \in PostRow : [r EXCEPT !.sec = ~boardSec[b]] \in PostRow
      BY DEF PostRow
    <3>2. post' \in [Posts -> PostRow]
      BY <2>2, <3>1 DEF Flip, Flipped
    <3>3. UNION {post[p].refs : p \in {q \in Posts : post[q].live /\ post[q].board = b}}
            \subseteq Files
      BY DEF PostRow
    <3> QED BY <2>2, <3>2, <3>3 DEF Flip, Synced
  <2>3. ASSUME NEW p \in Posts, Delete(p) PROVE TypeOK'
    BY <2>3, NoPostType DEF Delete
  <2>4. CASE UNCHANGED classVars
    BY <2>4 DEF classVars
  <2> QED BY <2>1, <2>2, <2>3, <2>4 DEF Next
<1> QED BY <1>1, <1>2, PTL DEF Spec

\* A board and its posts never disagree on the class: a save reads it, a flip
\* rewrites every post of the board.
THEOREM PostsFollowBoardHolds == Spec => []PostsFollowBoard
<1>1. Init => PostsFollowBoard
  BY DEF Init, PostsFollowBoard, NoPost
<1>2. TypeOK /\ PostsFollowBoard /\ [Next]_classVars => PostsFollowBoard'
  <2> SUFFICES ASSUME TypeOK, PostsFollowBoard, [Next]_classVars,
                      NEW q \in Posts, post'[q].live
               PROVE  post'[q].sec = boardSec'[post'[q].board]
    BY DEF PostsFollowBoard
  <2> USE DEF TypeOK, PostsFollowBoard, PostRow
  <2>1. ASSUME NEW p \in Posts, NEW b \in Boards, NEW refs \in SUBSET Files,
               Save(p, b, refs)
        PROVE  post'[q].sec = boardSec'[post'[q].board]
    BY <2>1 DEF Save
  <2>2. ASSUME NEW b \in Boards, Flip(b)
        PROVE  post'[q].sec = boardSec'[post'[q].board]
    <3>1. CASE post[q].live /\ post[q].board = b
      BY <2>2, <3>1 DEF Flip, Flipped
    <3>2. CASE ~(post[q].live /\ post[q].board = b)
      BY <2>2, <3>2 DEF Flip, Flipped
    <3> QED BY <3>1, <3>2
  <2>3. ASSUME NEW p \in Posts, Delete(p)
        PROVE  post'[q].sec = boardSec'[post'[q].board]
    BY <2>3 DEF Delete, NoPost
  <2>4. CASE UNCHANGED classVars
    BY <2>4 DEF classVars
  <2> QED BY <2>1, <2>2, <2>3, <2>4 DEF Next
<1> QED BY <1>1, <1>2, ClassTyped, PTL DEF Spec

-----------------------------------------------------------------------------

\* The files of security-document posts stay flagged when the flags of refs are
\* recomputed, provided a file outside refs was flagged already.
LEMMA SyncedFlags ==
  ASSUME NEW fl, NEW ps, NEW refs, NEW f \in SecureFiles(ps),
         f \in refs \/ f \in fl
  PROVE  f \in Synced(fl, ps, refs)
BY DEF Synced

\* A step makes a file a security-document file only if the file is among those
\* whose flag the step recomputes.
LEMMA NewlySecureIsSynced ==
  ASSUME TypeOK, SecureFilesFlagged, Next, NEW f \in SecureFiles(post')
  PROVE  f \in flagged'
<1> USE DEF TypeOK
<1>1. PICK q \in Posts : post'[q].sec /\ f \in post'[q].refs
  BY DEF SecureFiles
<1>2. f \in Files
  BY DEF SecureFiles
<1>3. ASSUME post[q].sec, f \in post[q].refs PROVE f \in flagged
  BY <1>2, <1>3 DEF SecureFiles, SecureFilesFlagged
<1>4. ASSUME NEW p \in Posts, NEW b \in Boards, NEW refs \in SUBSET Files,
             Save(p, b, refs)
      PROVE  f \in flagged'
  <2>1. f \in refs \/ f \in flagged
    BY <1>1, <1>3, <1>4 DEF Save
  <2> QED BY <1>4, <2>1, SyncedFlags DEF Save
<1>5. ASSUME NEW b \in Boards, Flip(b) PROVE f \in flagged'
  <2> DEFINE children == {r \in Posts : post[r].live /\ post[r].board = b}
  <2>1. CASE q \in children
    <3>1. post'[q].refs = post[q].refs
      BY <1>5, <2>1 DEF Flip, Flipped, PostRow
    <3>2. f \in UNION {post[r].refs : r \in children}
      BY <1>1, <2>1, <3>1
    <3> QED BY <1>5, <3>2, SyncedFlags DEF Flip
  <2>2. CASE q \notin children
    <3>1. post'[q] = post[q]
      BY <1>5, <2>2 DEF Flip, Flipped
    <3>2. f \in flagged
      BY <1>1, <1>3, <3>1
    <3> QED BY <1>5, <3>2, SyncedFlags DEF Flip
  <2> QED BY <2>1, <2>2
<1>6. ASSUME NEW p \in Posts, Delete(p) PROVE f \in flagged'
  BY <1>1, <1>3, <1>6 DEF Delete, NoPost
<1> QED BY <1>4, <1>5, <1>6 DEF Next

\* The files of security-document posts are flagged at all times.
THEOREM SecureFilesFlaggedHolds == Spec => []SecureFilesFlagged
<1>1. Init => SecureFilesFlagged
  <2> SUFFICES ASSUME Init PROVE SecureFiles(post) = {}
    BY DEF SecureFilesFlagged
  <2>1. \A p \in Posts : ~post[p].sec
    BY DEF Init, NoPost
  <2> QED BY <2>1 DEF SecureFiles
<1>2. TypeOK /\ SecureFilesFlagged /\ [Next]_classVars => SecureFilesFlagged'
  <2> SUFFICES ASSUME TypeOK, SecureFilesFlagged, [Next]_classVars,
                      NEW f \in SecureFiles(post')
               PROVE  f \in flagged'
    BY DEF SecureFilesFlagged
  <2>1. CASE Next
    BY <2>1, NewlySecureIsSynced
  <2>2. CASE UNCHANGED classVars
    BY <2>2 DEF classVars, SecureFilesFlagged, SecureFiles
  <2> QED BY <2>1, <2>2
<1> QED BY <1>1, <1>2, ClassTyped, PTL DEF Spec

\* No step lowers the flag of a file that a security-document post refers to.
THEOREM LoweredOnlyWhenFreeHolds == Spec => LoweredOnlyWhenFree
<1>1. TypeOK /\ SecureFilesFlagged /\ [Next]_classVars
        => [SecureFiles(post)' \cap (flagged \ flagged') = {}]_classVars
  <2> SUFFICES ASSUME TypeOK, SecureFilesFlagged, Next,
                      NEW f \in SecureFiles(post')
               PROVE  f \in flagged'
    BY DEF SecureFiles
  <2> QED BY NewlySecureIsSynced
<1> QED BY <1>1, ClassTyped, SecureFilesFlaggedHolds, PTL
        DEF Spec, LoweredOnlyWhenFree

\* No step gives an ordinary post a reference to a file that a
\* security-document post refers to.
THEOREM OrdinaryNeverJoinsHolds == Spec => OrdinaryNeverJoins
<1>1. TypeOK /\ SecureFilesFlagged /\ [Next]_classVars
        => [\A f \in Files, p \in Posts :
              (f \in SecureFiles(post)' /\ f \in post'[p].refs /\ ~post'[p].sec)
                => f \in post[p].refs]_classVars
  <2> SUFFICES ASSUME TypeOK, SecureFilesFlagged, Next,
                      NEW f \in SecureFiles(post'), NEW q \in Posts,
                      f \in post'[q].refs, ~post'[q].sec
               PROVE  f \in post[q].refs
    BY DEF SecureFiles
  <2> USE DEF TypeOK
  <2>1. ASSUME NEW p \in Posts, NEW b \in Boards, NEW refs \in SUBSET Files,
               Save(p, b, refs)
        PROVE  f \in post[q].refs
    <3>1. CASE p # q
      BY <2>1, <3>1 DEF Save
    <3>2. CASE p = q
      <4>1. ~boardSec[b] /\ f \in refs
        BY <2>1, <3>2 DEF Save
      <4>2. f \notin flagged
        BY <2>1, <4>1 DEF Save, MaySave
      <4>3. PICK r \in Posts : post'[r].sec /\ f \in post'[r].refs
        BY DEF SecureFiles
      <4>4. f \in SecureFiles(post)
        BY <2>1, <3>2, <4>3 DEF Save, SecureFiles
      <4> QED BY <4>2, <4>4 DEF SecureFilesFlagged
    <3> QED BY <3>1, <3>2
  <2>2. ASSUME NEW b \in Boards, Flip(b) PROVE f \in post[q].refs
    BY <2>2 DEF Flip, Flipped, PostRow
  <2>3. ASSUME NEW p \in Posts, Delete(p) PROVE f \in post[q].refs
    BY <2>3 DEF Delete, NoPost
  <2> QED BY <2>1, <2>2, <2>3 DEF Next
<1> QED BY <1>1, ClassTyped, SecureFilesFlaggedHolds, PTL
        DEF Spec, OrdinaryNeverJoins

\* Theorem: the promise of the security-document class, all parts together.
THEOREM ClassHoldsAlways == Spec => ClassHolds
<1> QED BY ClassTyped, PostsFollowBoardHolds, SecureFilesFlaggedHolds, LoweredOnlyWhenFreeHolds,
           OrdinaryNeverJoinsHolds, PTL DEF ClassHolds

-----------------------------------------------------------------------------
(* Codes: codes, groups and classifications *)

\* Lemma: the length of a code value is a depth.
LEMMA CodeLength == \A v \in CodeValues : Len(v) \in 1..MaxLevels
<1> SUFFICES ASSUME NEW n \in 1..MaxLevels, NEW v \in [1..n -> Segments]
             PROVE  Len(v) \in 1..MaxLevels
  BY DEF CodeValues
<1>1. n \in Nat
  BY CodesAssumption
<1>2. v \in Seq(Segments)
  BY <1>1, SeqDef
<1>3. Len(v) = n
  BY <1>1, <1>2, LenProperties
<1> QED BY <1>3

\* A form agrees with the parent it names.
FormFollows(d) ==
  /\ codes[d.parent].group = d.group
  /\ d.depth = codes[d.parent].depth + 1
  /\ IsPrefix(codes[d.parent].code, d.code)

\* What is known of a save between its check and its write: as long as its parent
\* was not saved in between, it still agrees with it.
SaveOK(s) ==
  /\ saving[s].row \in CodeIds \cup {NoRow}
  /\ saving[s].form \in Code
  /\ Len(saving[s].form.code) = saving[s].form.depth
  /\ saving[s].row # NoRow => saving[s].form.parent # saving[s].row
  /\ s \notin stale /\ saving[s].form.parent \in Saved => FormFollows(saving[s].form)

SavesOK ==
  /\ saving \in [Savers -> [row: CodeIds \cup {NoRow}, form: Code \cup {NoRow}]]
  /\ \A s \in Savers : saving[s] # IdleForm => SaveOK(s)

CodesInv ==
  CodesTypeOK /\ SavesOK /\ CodesUnique /\ ReferencesResolve /\ StrayOnlyByParentSave
    /\ MisfiledOnlyBySave

\* Lemma: the codes start with everything in its place.
LEMMA CodesInitHolds == CodesInit => CodesInv
<1> SUFFICES ASSUME CodesInit PROVE CodesInv
  OBVIOUS
<1>1. Saved = {}
  BY DEF CodesInit, Saved
<1>2. (CHOOSE g \in Groups : TRUE) \in Groups /\ (CHOOSE c \in Classes : TRUE) \in Classes
  BY CodesAssumption
<1>3. CodesTypeOK
  BY <1>1, <1>2 DEF CodesInit, CodesTypeOK
<1>4. SavesOK
  BY DEF CodesInit, SavesOK, IdleForm
<1>5. CodesUnique /\ StrayOnlyByParentSave
  BY <1>1 DEF CodesUnique, StrayOnlyByParentSave
<1>6. ReferencesResolve /\ MisfiledOnlyBySave
  BY <1>1, <1>2 DEF CodesInit, ReferencesResolve, KeptGroups, MisfiledOnlyBySave
<1> QED BY <1>3, <1>4, <1>5, <1>6 DEF CodesInv

\* Lemma: a check keeps the invariant.
LEMMA CheckKeeps ==
  ASSUME CodesInv, NEW s \in Savers, NEW r \in Saved \cup {NoRow}, NEW d \in Forms,
         CheckCode(s, r, d)
  PROVE  CodesInv'
<1> DEFINE form == [group |-> d.group, code |-> d.code, parent |-> d.parent,
                    depth |-> Depth(d)]
<1>1. /\ d.group \in Groups /\ d.code \in CodeValues /\ d.parent \in CodeIds \cup {NoRow}
      /\ Valid(r, d)
      /\ saving' = [saving EXCEPT ![s] = [row |-> r, form |-> form]]
      /\ UNCHANGED <<codes, groups, classes, bound, chosen, stale>>
  BY DEF CheckCode, Forms
<1>2. Len(d.code) = Depth(d) /\ Depth(d) \in 1..MaxLevels
  BY <1>1, CodeLength DEF Valid
<1>3. form \in Code /\ r \in CodeIds \cup {NoRow}
  BY <1>1, <1>2 DEF Code, Saved
<1>4. Saved' = Saved
  BY <1>1 DEF Saved
<1>5. d.parent \in Saved => FormFollows(form)
  BY <1>1, CodesAssumption DEF Valid, FitsParent, FormFollows, Depth, Saved
<1>6. r # NoRow => d.parent # r
  BY <1>1 DEF Valid
<1>7. SavesOK'
  <2>1. saving' \in [Savers -> [row: CodeIds \cup {NoRow}, form: Code \cup {NoRow}]]
    BY <1>1, <1>3 DEF CodesInv, SavesOK
  <2>2. ASSUME NEW x \in Savers, saving'[x] # IdleForm PROVE SaveOK(x)'
    <3>1. CASE x = s
      <4>1. saving'[x] = [row |-> r, form |-> form]
        BY <1>1, <3>1 DEF CodesInv, SavesOK
      <4> QED BY <4>1, <1>1, <1>2, <1>3, <1>4, <1>5, <1>6 DEF SaveOK, FormFollows
    <3>2. CASE x # s
      <4>1. saving'[x] = saving[x] /\ SaveOK(x)
        BY <1>1, <2>2, <3>2 DEF CodesInv, SavesOK
      <4> QED BY <4>1, <1>1, <1>4 DEF SaveOK, FormFollows
    <3> QED BY <3>1, <3>2
  <2> QED BY <2>1, <2>2 DEF SavesOK
<1> QED BY <1>1, <1>4, <1>7 DEF CodesInv, CodesTypeOK, CodesUnique, ReferencesResolve, KeptGroups,
            StrayOnlyByParentSave, MisfiledOnlyBySave, FollowsParent

\* Lemma: the write of a save that is refused keeps the invariant.
LEMMA RefusedKeeps ==
  ASSUME CodesInv, NEW s \in Savers,
         saving' = [saving EXCEPT ![s] = IdleForm], stale' = stale \ {s},
         UNCHANGED <<codes, groups, classes, bound, chosen>>
  PROVE  CodesInv'
<1>1. Saved' = Saved /\ KeptGroups' = KeptGroups
  BY DEF Saved, KeptGroups
<1>2. SavesOK'
  <2>1. saving' \in [Savers -> [row: CodeIds \cup {NoRow}, form: Code \cup {NoRow}]]
    BY DEF CodesInv, SavesOK, IdleForm
  <2>2. ASSUME NEW x \in Savers, saving'[x] # IdleForm PROVE SaveOK(x)'
    <3>1. x # s /\ saving'[x] = saving[x]
      BY <2>2 DEF CodesInv, SavesOK
    <3>2. SaveOK(x)
      BY <2>2, <3>1 DEF CodesInv, SavesOK
    <3> QED BY <3>1, <3>2, <1>1 DEF SaveOK, FormFollows
  <2> QED BY <2>1, <2>2 DEF SavesOK
<1>3. \A x \in CodeIds \cup Citing : x \in stale => x \in stale'
  BY CodesAssumption
<1>4. CodesTypeOK' /\ CodesUnique' /\ ReferencesResolve'
  BY <1>1 DEF CodesInv, CodesTypeOK, CodesUnique, ReferencesResolve
<1>5. StrayOnlyByParentSave' /\ MisfiledOnlyBySave'
  BY <1>1, <1>3 DEF CodesInv, StrayOnlyByParentSave, MisfiledOnlyBySave, FollowsParent, Saved
<1> QED BY <1>2, <1>4, <1>5 DEF CodesInv

\* Lemma: the write of a save that is stored keeps the invariant.  The row gets the
\* code that was checked; whatever names the row counts as outdated from now on.
LEMMA StoredKeeps ==
  ASSUME CodesInv, NEW s \in Savers, NEW r \in CodeIds,
         saving[s] # IdleForm, Written(s, r), Storable(r, saving[s].form),
         saving[s].row = NoRow \/ r \in Saved,
         saving' = [saving EXCEPT ![s] = IdleForm],
         codes' = [codes EXCEPT ![r] = saving[s].form],
         stale' = ((stale \cup NamedBy(r)) \ {r, s}) \cup {x \in {r} : s \in stale},
         UNCHANGED <<groups, classes, bound, chosen>>
  PROVE  CodesInv'
<1> DEFINE d == saving[s].form
<1>1. SaveOK(s) /\ d \in Code /\ d # NoRow
  BY NoRowAssumption DEF CodesInv, SavesOK, SaveOK
<1>2. /\ Saved' = Saved \cup {r} /\ KeptGroups' = KeptGroups
      /\ codes'[r] = d /\ \A x \in CodeIds \ {r} : codes'[x] = codes[x]
      /\ \A x \in Saved : x \in CodeIds
  BY <1>1 DEF Saved, KeptGroups, CodesInv, CodesTypeOK
<1>3. d.parent # r
  BY <1>1, CodesAssumption DEF Written, NamedBy, SaveOK
<1>4. r \notin Savers /\ s \notin CodeIds \cup Citing /\ r \notin Citing
  BY CodesAssumption
<1>5. \A x \in NamedBy(r) \ {r, s} : x \in stale'
  OBVIOUS
<1>6. \A x \in (Savers \cup CodeIds \cup Citing) \ {r, s} : x \in stale => x \in stale'
  OBVIOUS
<1>7. r \notin Saved => NamedBy(r) = {}
  BY DEF Written
<1>8. CodesTypeOK'
  <2>1. codes' \in [CodeIds -> Code \cup {NoRow}]
    BY <1>1 DEF CodesInv, CodesTypeOK
  <2>2. ASSUME NEW x \in Saved' PROVE Len(codes'[x].code) = codes'[x].depth
    <3>1. CASE x = r
      BY <3>1, <1>1, <1>2 DEF SaveOK
    <3>2. CASE x # r
      BY <3>2, <1>2 DEF CodesInv, CodesTypeOK
    <3> QED BY <3>1, <3>2
  <2> QED BY <2>1, <2>2 DEF CodesInv, CodesTypeOK
<1>9. CodesUnique'
  <2>1. \A x \in Saved \ {r} : ~(codes[x].group = d.group /\ codes[x].code = d.code)
    BY DEF Storable, Taken
  <2> QED BY <2>1, <1>2 DEF CodesInv, CodesUnique
<1>10. ReferencesResolve'
  <2>1. d.group \in KeptGroups /\ d.parent \in Saved \cup {NoRow}
    BY DEF Storable
  <2>2. \A g \in KeptGroups' : groups'[g] \in classes'
    BY <1>2 DEF CodesInv, ReferencesResolve
  <2>3. \A x \in Saved' : codes'[x].group \in KeptGroups' /\ codes'[x].parent \in Saved' \cup {NoRow}
    BY <2>1, <1>2 DEF CodesInv, ReferencesResolve
  <2> QED BY <2>2, <2>3, <1>2 DEF CodesInv, ReferencesResolve
<1>11. StrayOnlyByParentSave'
  <2> SUFFICES ASSUME NEW x \in Saved', ~FollowsParent(x)' PROVE x \in stale'
    BY DEF StrayOnlyByParentSave
  <2>1. CASE x = r
    <3>1. d.parent # NoRow /\ d.parent \in Saved
      BY <2>1, <1>2 DEF FollowsParent, Storable
    <3>2. codes'[d.parent] = codes[d.parent]
      BY <3>1, <1>2, <1>3
    <3>3. ~FormFollows(d)
      BY <2>1, <3>1, <3>2, <1>2 DEF FollowsParent, FormFollows
    <3>4. s \in stale
      BY <3>1, <3>3, <1>1 DEF SaveOK
    <3> QED BY <3>4, <2>1
  <2>2. CASE x # r /\ codes[x].parent = r
    <3>1. x \in NamedBy(r)
      BY <2>2, <1>2 DEF NamedBy
    <3> QED BY <3>1, <2>2, <1>2, <1>4, <1>5
  <2>3. CASE x # r /\ codes[x].parent # r
    <3>1. x \in Saved /\ codes'[x] = codes[x]
      BY <2>3, <1>2
    <3>2. codes[x].parent \in Saved \cup {NoRow}
      BY <3>1 DEF CodesInv, ReferencesResolve
    <3>3. ~FollowsParent(x)
      BY <3>1, <3>2, <2>3, <1>2 DEF FollowsParent
    <3> QED BY <3>1, <3>3, <2>3, <1>2, <1>4, <1>6 DEF CodesInv, StrayOnlyByParentSave
  <2> QED BY <2>1, <2>2, <2>3
<1>12. MisfiledOnlyBySave'
  <2> SUFFICES ASSUME NEW p \in Citing, chosen[p] # NoRow, codes'[chosen[p]].group # bound
               PROVE  p \in stale'
    BY DEF MisfiledOnlyBySave
  <2>1. CASE chosen[p] = r
    BY <2>1, <1>4, <1>5 DEF NamedBy
  <2>2. CASE chosen[p] # r
    <3>1. chosen[p] \in CodeIds
      BY DEF CodesInv, CodesTypeOK
    <3> QED BY <3>1, <2>2, <1>2, <1>4, <1>6 DEF CodesInv, MisfiledOnlyBySave
  <2> QED BY <2>1, <2>2
<1>13. SavesOK'
  <2>1. saving' \in [Savers -> [row: CodeIds \cup {NoRow}, form: Code \cup {NoRow}]]
    BY DEF CodesInv, SavesOK, IdleForm
  <2>2. ASSUME NEW x \in Savers, saving'[x] # IdleForm PROVE SaveOK(x)'
    <3>1. x # s /\ saving'[x] = saving[x] /\ x # r
      BY <2>2, <1>4 DEF CodesInv, SavesOK
    <3>2. SaveOK(x)
      BY <2>2, <3>1 DEF CodesInv, SavesOK
    <3>3. ASSUME x \notin stale', saving[x].form.parent \in Saved' PROVE FormFollows(saving[x].form)'
      <4>1. saving[x].form.parent # r
        BY <2>2, <3>1, <3>3, <1>5 DEF NamedBy
      <4>2. x \notin stale /\ saving[x].form.parent \in Saved
        BY <3>1, <3>3, <4>1, <1>2, <1>6
      <4> QED BY <3>2, <4>1, <4>2, <1>2, <3>1 DEF SaveOK, FormFollows
    <3> QED BY <3>1, <3>2, <3>3 DEF SaveOK
  <2> QED BY <2>1, <2>2 DEF SavesOK
<1> QED BY <1>8, <1>9, <1>10, <1>11, <1>12, <1>13 DEF CodesInv

\* Lemma: a step that leaves codes and saves alone keeps what is known of the saves.
LEMMA SavesStay ==
  ASSUME SavesOK, \A x \in Savers : x \in stale => x \in stale', UNCHANGED <<codes, saving>>
  PROVE  SavesOK'
<1>1. Saved' = Saved
  BY DEF Saved
<1> QED BY <1>1 DEF SavesOK, SaveOK, FormFollows

\* Lemma: deleting a code keeps the invariant: children and choices lose it, and
\* a save that names it can no longer be stored.
LEMMA DeleteCodeKeeps ==
  ASSUME CodesInv, NEW r \in CodeIds, DeleteCode(r)
  PROVE  CodesInv'
<1>1. /\ r \in Saved
      /\ codes' = [Detached(r) EXCEPT ![r] = NoRow]
      /\ chosen' = [p \in Citing |-> IF chosen[p] = r THEN NoRow ELSE chosen[p]]
      /\ stale' = stale \ ({r} \cup (NamedBy(r) \ Savers))
      /\ UNCHANGED <<groups, classes, saving, bound>>
  BY DEF DeleteCode
<1>2. \A x \in Saved : x \in CodeIds /\ codes[x] \in Code
  BY DEF CodesInv, CodesTypeOK, Saved
<1>3. \A x \in Saved \ {r} :
        /\ codes'[x].group = codes[x].group /\ codes'[x].code = codes[x].code
        /\ codes'[x].depth = codes[x].depth
        /\ codes'[x].parent = IF codes[x].parent = r THEN NoRow ELSE codes[x].parent
        /\ codes'[x] \in Code
  <2> SUFFICES ASSUME NEW x \in Saved \ {r}
               PROVE  /\ codes'[x].group = codes[x].group /\ codes'[x].code = codes[x].code
                      /\ codes'[x].depth = codes[x].depth
                      /\ codes'[x].parent = IF codes[x].parent = r THEN NoRow ELSE codes[x].parent
                      /\ codes'[x] \in Code
    OBVIOUS
  <2>1. codes'[x] = IF codes[x].parent = r THEN [codes[x] EXCEPT !.parent = NoRow] ELSE codes[x]
    BY <1>1, <1>2 DEF Detached, Saved
  <2> QED BY <2>1, <1>2 DEF Code
<1>4. Saved' = Saved \ {r} /\ KeptGroups' = KeptGroups
  <2>1. codes'[r] = NoRow
    BY <1>1 DEF Detached
  <2>2. \A x \in CodeIds \ Saved : codes'[x] = NoRow
    BY <1>1 DEF Detached, Saved
  <2>3. \A x \in Saved \ {r} : codes'[x] # NoRow
    BY <1>3, NoRowAssumption
  <2> QED BY <1>1, <1>2, <2>1, <2>2, <2>3 DEF Saved, KeptGroups
<1>5. CodesTypeOK'
  <2>1. codes' \in [CodeIds -> Code \cup {NoRow}]
    <3>1. \A x \in CodeIds : codes'[x] \in Code \cup {NoRow}
      BY <1>3, <1>4 DEF Saved
    <3> QED BY <1>1, <3>1 DEF Detached
  <2>2. \A x \in Saved' : Len(codes'[x].code) = codes'[x].depth
    BY <1>3, <1>4 DEF CodesInv, CodesTypeOK
  <2> QED BY <1>1, <2>1, <2>2 DEF CodesInv, CodesTypeOK
<1>6. CodesUnique'
  BY <1>3, <1>4 DEF CodesInv, CodesUnique
<1>7. ReferencesResolve'
  <2>1. \A g \in KeptGroups' : groups'[g] \in classes'
    BY <1>1, <1>4 DEF CodesInv, ReferencesResolve
  <2>2. \A x \in Saved' : codes'[x].group \in KeptGroups' /\ codes'[x].parent \in Saved' \cup {NoRow}
    BY <1>3, <1>4 DEF CodesInv, ReferencesResolve
  <2>3. \A p \in Citing : chosen'[p] \in Saved' \cup {NoRow}
    BY <1>1, <1>4 DEF CodesInv, ReferencesResolve
  <2> QED BY <2>1, <2>2, <2>3 DEF ReferencesResolve
<1>8. StrayOnlyByParentSave'
  <2> SUFFICES ASSUME NEW x \in Saved', ~FollowsParent(x)' PROVE x \in stale'
    BY DEF StrayOnlyByParentSave
  <2>1. x \in Saved \ {r} /\ codes[x].parent # r /\ codes[x].parent # NoRow
    BY <1>3, <1>4 DEF FollowsParent
  <2>2. codes[x].parent \in Saved \ {r}
    BY <2>1 DEF CodesInv, ReferencesResolve
  <2>3. ~FollowsParent(x)
    BY <2>1, <2>2, <1>3 DEF FollowsParent
  <2>4. x \notin NamedBy(r)
    BY <2>1, <1>2, CodesAssumption DEF NamedBy
  <2> QED BY <2>1, <2>3, <2>4, <1>1 DEF CodesInv, StrayOnlyByParentSave
<1>9. MisfiledOnlyBySave'
  <2> SUFFICES ASSUME NEW p \in Citing, chosen'[p] # NoRow, codes'[chosen'[p]].group # bound'
               PROVE  p \in stale'
    BY DEF MisfiledOnlyBySave
  <2>1. chosen'[p] = chosen[p] /\ chosen[p] # r
    BY <1>1
  <2>2. chosen[p] \in Saved \ {r}
    BY <2>1 DEF CodesInv, ReferencesResolve
  <2>3. p \in stale
    BY <2>1, <2>2, <1>1, <1>3 DEF CodesInv, MisfiledOnlyBySave
  <2>4. p \notin NamedBy(r) /\ p # r
    BY <2>1, <1>2, CodesAssumption DEF NamedBy
  <2> QED BY <2>3, <2>4, <1>1
<1>10. SavesOK'
  <2>1. \A x \in Savers : x \in stale => x \in stale'
    BY <1>1, CodesAssumption
  <2>2. ASSUME NEW x \in Savers, saving[x] # IdleForm PROVE SaveOK(x)'
    <3>1. SaveOK(x)
      BY <2>2 DEF CodesInv, SavesOK
    <3>2. saving[x].form.parent \in Saved' => saving[x].form.parent \in Saved \ {r}
      BY <1>4
    <3>3. ASSUME x \notin stale', saving[x].form.parent \in Saved' PROVE FormFollows(saving[x].form)'
      BY <1>1, <1>3, <2>1, <3>1, <3>2, <3>3 DEF SaveOK, FormFollows
    <3> QED BY <1>1, <3>1, <3>3 DEF SaveOK
  <2> QED BY <1>1, <2>2 DEF CodesInv, SavesOK
<1> QED BY <1>5, <1>6, <1>7, <1>8, <1>9, <1>10 DEF CodesInv

\* Lemma: the write of a save keeps the invariant.
LEMMA WriteKeeps ==
  ASSUME CodesInv, NEW s \in Savers, NEW r \in CodeIds, WriteCode(s, r)
  PROVE  CodesInv'
<1>1. /\ saving[s] # IdleForm /\ Written(s, r)
      /\ saving' = [saving EXCEPT ![s] = IdleForm]
      /\ UNCHANGED <<groups, classes, bound, chosen>>
  BY DEF WriteCode
<1>2. CASE (saving[s].row = NoRow \/ r \in Saved) /\ Storable(r, saving[s].form)
  <2>1. /\ codes' = [codes EXCEPT ![r] = saving[s].form]
        /\ stale' = ((stale \cup NamedBy(r)) \ {r, s}) \cup {x \in {r} : s \in stale}
    BY <1>2 DEF WriteCode
  <2> QED BY <1>1, <1>2, <2>1, StoredKeeps
<1>3. CASE ~((saving[s].row = NoRow \/ r \in Saved) /\ Storable(r, saving[s].form))
  <2>1. UNCHANGED codes /\ stale' = stale \ {s}
    BY <1>3 DEF WriteCode
  <2> QED BY <1>1, <2>1, RefusedKeeps
<1> QED BY <1>2, <1>3

\* Lemma: a post's choice keeps the invariant.
LEMMA ChooseKeeps ==
  ASSUME CodesInv, NEW p \in Citing, NEW r \in CodeIds, ChooseCode(p, r)
  PROVE  CodesInv'
<1>1. /\ r \in Saved /\ codes[r].group = bound
      /\ chosen' = [chosen EXCEPT ![p] = r] /\ stale' = stale \ {p}
      /\ UNCHANGED <<codes, groups, classes, saving, bound>>
  BY DEF ChooseCode, Choosable
<1>2. Saved' = Saved /\ KeptGroups' = KeptGroups
  BY <1>1 DEF Saved, KeptGroups
<1>3. \A x \in CodeIds \cup Savers : x \in stale => x \in stale'
  BY <1>1, CodesAssumption
<1>4. SavesOK'
  BY <1>1, <1>3, SavesStay DEF CodesInv
<1>5. chosen' \in [Citing -> CodeIds \cup {NoRow}]
      /\ \A x \in Citing : chosen'[x] = IF x = p THEN r ELSE chosen[x]
  BY <1>1 DEF CodesInv, CodesTypeOK
<1>6. CodesTypeOK' /\ CodesUnique' /\ ReferencesResolve'
  BY <1>1, <1>2, <1>5 DEF CodesInv, CodesTypeOK, CodesUnique, ReferencesResolve
<1>7. StrayOnlyByParentSave'
  BY <1>1, <1>2, <1>3 DEF CodesInv, StrayOnlyByParentSave, FollowsParent, Saved
<1>8. MisfiledOnlyBySave'
  BY <1>1, <1>5 DEF CodesInv, MisfiledOnlyBySave
<1> QED BY <1>4, <1>6, <1>7, <1>8 DEF CodesInv

\* Lemma: saving or deleting a group or a classification keeps the invariant.
LEMMA GroupsKeep ==
  ASSUME CodesInv, UNCHANGED <<codes, saving, bound, chosen, stale>>, CodesTypeOK', ReferencesResolve'
  PROVE  CodesInv'
<1>1. Saved' = Saved
  BY DEF Saved
<1>2. SavesOK'
  BY SavesStay DEF CodesInv
<1> QED BY <1>1, <1>2 DEF CodesInv, CodesUnique, StrayOnlyByParentSave, MisfiledOnlyBySave,
                          FollowsParent

\* Lemma: another group bound to the board keeps the invariant.
LEMMA RebindKeeps ==
  ASSUME CodesInv, NEW g \in Groups, RebindBoard(g)
  PROVE  CodesInv'
<1>1. /\ bound' = g /\ stale' = stale \cup {p \in Citing : chosen[p] # NoRow}
      /\ UNCHANGED <<codes, groups, classes, saving, chosen>>
  BY DEF RebindBoard
<1>2. Saved' = Saved /\ KeptGroups' = KeptGroups
  BY <1>1 DEF Saved, KeptGroups
<1>3. SavesOK'
  BY <1>1, SavesStay DEF CodesInv
<1>4. CodesTypeOK' /\ CodesUnique' /\ ReferencesResolve'
  BY <1>1, <1>2 DEF CodesInv, CodesTypeOK, CodesUnique, ReferencesResolve
<1>5. StrayOnlyByParentSave' /\ MisfiledOnlyBySave'
  BY <1>1, <1>2 DEF CodesInv, StrayOnlyByParentSave, MisfiledOnlyBySave, FollowsParent, Saved
<1> QED BY <1>3, <1>4, <1>5 DEF CodesInv

\* Lemma: the invariant is inductive.
LEMMA CodesStep == CodesInv /\ [CodesNext]_codeVars => CodesInv'
<1> SUFFICES ASSUME CodesInv, [CodesNext]_codeVars PROVE CodesInv'
  OBVIOUS
<1>1. ASSUME NEW s \in Savers, NEW r \in CodeIds, WriteCode(s, r) PROVE CodesInv'
  BY <1>1, WriteKeeps
<1>2. ASSUME NEW s \in Savers, NEW r \in Saved \cup {NoRow}, NEW d \in Forms, CheckCode(s, r, d)
      PROVE  CodesInv'
  BY <1>2, CheckKeeps
<1>3. ASSUME NEW r \in CodeIds, DeleteCode(r) PROVE CodesInv'
  BY <1>3, DeleteCodeKeeps
<1>4. ASSUME NEW r \in CodeIds, NEW p \in Citing, ChooseCode(p, r) PROVE CodesInv'
  BY <1>4, ChooseKeeps
<1>5. ASSUME NEW g \in Groups, DeleteGroup(g) PROVE CodesInv'
  <2>1. /\ GroupFree(g) /\ groups' = [groups EXCEPT ![g] = NoRow]
        /\ UNCHANGED <<codes, classes, saving, bound, chosen, stale>>
    BY <1>5 DEF DeleteGroup
  <2>2. Saved' = Saved /\ KeptGroups' = KeptGroups \ {g} /\ \A x \in KeptGroups' : groups'[x] = groups[x]
    BY <2>1 DEF Saved, KeptGroups, CodesInv, CodesTypeOK
  <2>3. CodesTypeOK' /\ ReferencesResolve'
    BY <2>1, <2>2 DEF CodesInv, CodesTypeOK, ReferencesResolve, GroupFree
  <2> QED BY <2>1, <2>3, GroupsKeep
<1>6. ASSUME NEW g \in Groups, RebindBoard(g) PROVE CodesInv'
  BY <1>6, RebindKeeps
<1>7. ASSUME NEW g \in Groups, NEW c \in Classes, SaveGroup(g, c) PROVE CodesInv'
  <2>1. /\ c \in classes /\ groups' = [groups EXCEPT ![g] = c]
        /\ UNCHANGED <<codes, classes, saving, bound, chosen, stale>>
    BY <1>7 DEF SaveGroup
  <2>2. /\ Saved' = Saved /\ KeptGroups' = KeptGroups \cup {g}
        /\ \A x \in KeptGroups' : groups'[x] = IF x = g THEN c ELSE groups[x]
    BY <2>1, CodesAssumption DEF Saved, KeptGroups, CodesInv, CodesTypeOK
  <2>3. CodesTypeOK' /\ ReferencesResolve'
    BY <2>1, <2>2 DEF CodesInv, CodesTypeOK, ReferencesResolve
  <2> QED BY <2>1, <2>3, GroupsKeep
<1>8. ASSUME NEW c \in Classes, DeleteClass(c) PROVE CodesInv'
  <2>1. /\ \A g \in KeptGroups : groups[g] # c
        /\ classes' = classes \ {c}
        /\ UNCHANGED <<codes, groups, saving, bound, chosen, stale>>
    BY <1>8 DEF DeleteClass
  <2>2. Saved' = Saved /\ KeptGroups' = KeptGroups
    BY <2>1 DEF Saved, KeptGroups
  <2>3. CodesTypeOK' /\ ReferencesResolve'
    BY <2>1, <2>2 DEF CodesInv, CodesTypeOK, ReferencesResolve
  <2> QED BY <2>1, <2>3, GroupsKeep
<1>9. CASE UNCHANGED codeVars
  <2>1. UNCHANGED <<codes, groups, classes, saving, bound, chosen, stale>>
    BY <1>9 DEF codeVars
  <2>2. CodesTypeOK' /\ ReferencesResolve'
    BY <2>1 DEF CodesInv, CodesTypeOK, ReferencesResolve, Saved, KeptGroups
  <2> QED BY <2>1, <2>2, GroupsKeep
<1> QED BY <1>1, <1>2, <1>3, <1>4, <1>5, <1>6, <1>7, <1>8, <1>9 DEF CodesNext

\* Lemma: the invariant of the codes holds throughout.
LEMMA CodesInvHolds == CodesSpec => []CodesInv
BY CodesInitHolds, CodesStep, PTL DEF CodesSpec

\* Theorem: the rows have their types, a code one segment for each level of its depth.
THEOREM CodesTyped == CodesSpec => []CodesTypeOK
<1>1. CodesInv => CodesTypeOK
  BY DEF CodesInv
<1> QED BY CodesInvHolds, <1>1, PTL

\* Theorem: no two codes of a group have one value, whatever saves overlap.
THEOREM UniqueCodes == CodesSpec => []CodesUnique
<1>1. CodesInv => CodesUnique
  BY DEF CodesInv
<1> QED BY CodesInvHolds, <1>1, PTL

\* Theorem: no reference of a group, a code or a post is left dangling by a deletion.
THEOREM ResolvedReferences == CodesSpec => []ReferencesResolve
<1>1. CodesInv => ReferencesResolve
  BY DEF CodesInv
<1> QED BY CodesInvHolds, <1>1, PTL

\* Theorem: a code leaves the tree of prefixes only where its parent was saved
\* after the code was checked.
THEOREM StraysByParentSave == CodesSpec => []StrayOnlyByParentSave
<1>1. CodesInv => StrayOnlyByParentSave
  BY DEF CodesInv
<1> QED BY CodesInvHolds, <1>1, PTL

\* Theorem: a post's code leaves the group of its category only by a save of that
\* code or of the board.
THEOREM MisfiledBySave == CodesSpec => []MisfiledOnlyBySave
<1>1. CodesInv => MisfiledOnlyBySave
  BY DEF CodesInv
<1> QED BY CodesInvHolds, <1>1, PTL

\* Theorem: rows are unique, references resolve, and whatever is out of place - in the
\* tree, in a category, in the specification of one classification - a later save of
\* the other row put there.
THEOREM OutOfPlaceBySave == CodesSpec => []OutOfPlaceOnlyBySave
<1>1. CodesInv => SpecAgrees
  <2> SUFFICES ASSUME CodesInv, NEW r \in Saved, r \notin stale
               PROVE  SpecRow(r, {groups[codes[r].group]}) = SpecRow(r, Classes)
    BY DEF SpecAgrees
  <2>1. FollowsParent(r)
    BY DEF CodesInv, StrayOnlyByParentSave
  <2>2. CASE codes[r].parent = NoRow
    BY <2>2 DEF SpecRow
  <2>3. CASE codes[r].parent # NoRow
    <3>1. codes[codes[r].parent].group = codes[r].group
      BY <2>1, <2>3 DEF FollowsParent
    <3>2. codes[r].group \in KeptGroups /\ groups[codes[r].group] \in Classes
      BY DEF CodesInv, ReferencesResolve, CodesTypeOK
    <3> QED BY <2>3, <3>1, <3>2 DEF SpecRow
  <2> QED BY <2>2, <2>3
<1>2. CodesInv => OutOfPlaceOnlyBySave
  BY <1>1 DEF CodesInv, OutOfPlaceOnlyBySave
<1> QED BY CodesInvHolds, <1>2, PTL

-----------------------------------------------------------------------------
(* SiteNav: the menus of a site *)

\* A save in flight, over, or not begun.
SaveRow ==
  {IdleSave, [stage |-> "done"]} \cup
  [stage: {"walk", "write"}, menu: Menus, row: MenuRow, at: Menus \cup {Top}, seen: SUBSET Menus]

NavTyped ==
  /\ tree \in [Menus -> MenuRow] /\ gone \in SUBSET Menus
  /\ menuSaves \in [MenuSaves -> SaveRow]
  /\ copy \in [rows: [Menus -> MenuRow], of: SUBSET Menus]
  /\ overlap \in BOOLEAN
  /\ NavTypeOK

\* No set of menus holds the parent of each of its members.
LoopFree(tr, live) ==
  \A S \in SUBSET live : (\A m \in S : tr[m].parent \in S) => S = {}

\* What a walk has seen leads from the new parent to where it stands, past the
\* menu that is saved.
Climbed(tr, out, save) ==
  /\ save.row.parent \in save.seen \cup {save.at}
  /\ \A x \in save.seen : x \notin out /\ x # save.menu /\ tr[x].parent \in save.seen \cup {save.at}
  /\ save.stage = "write" => save.at = Top \/ save.at \in save.seen

NavInv ==
  /\ NavTyped
  /\ ~overlap => /\ LoopFree(tree, Menus \ gone)
                 /\ \A s \in MenuSaves : Walking(menuSaves[s]) => Climbed(tree, gone, menuSaves[s])

\* Lemma: a save that walked undisturbed closes no loop when it is written.
LEMMA WriteClosesNoLoop ==
  ASSUME NEW tr \in [Menus -> MenuRow], NEW out \in SUBSET Menus, LoopFree(tr, Menus \ out),
         NEW save \in SaveRow, save.stage = "write", Climbed(tr, out, save),
         NEW tr2, \A x \in Menus : tr2[x] = IF x = save.menu THEN save.row ELSE tr[x]
  PROVE  LoopFree(tr2, Menus \ out)
<1>0. /\ save.menu \in Menus /\ save.row \in MenuRow /\ save.at \in Menus \cup {Top}
      /\ save.seen \in SUBSET Menus
  BY DEF SaveRow, IdleSave
<1> SUFFICES ASSUME NEW S \in SUBSET (Menus \ out), \A m \in S : tr2[m].parent \in S, S # {}
             PROVE  FALSE
  BY DEF LoopFree
<1>1. Top \notin S
  BY NavAssumption
<1>2. save.menu \in S
  <2>1. save.menu \notin S => \A m \in S : tr[m].parent \in S
    OBVIOUS
  <2> QED
    BY <2>1 DEF LoopFree
<1>3. save.row.parent \in S
  BY <1>0, <1>2
<1>4. \A x \in save.seen : x \in Menus /\ x \notin out /\ x # save.menu /\ tr2[x] = tr[x]
  BY <1>0 DEF Climbed
<1>5. CASE save.at = Top
  <2> DEFINE R == S \cap save.seen
  <2>1. \A x \in R : tr[x].parent \in R
    BY <1>1, <1>4, <1>5 DEF Climbed
  <2>2. R = {}
    BY <2>1 DEF LoopFree
  <2>3. save.row.parent \in R
    BY <1>1, <1>3, <1>5 DEF Climbed
  <2> QED
    BY <2>2, <2>3
<1>6. CASE save.at \in save.seen
  <2>1. save.seen \in SUBSET (Menus \ out)
    BY <1>4
  <2>2. \A x \in save.seen : tr[x].parent \in save.seen
    BY <1>6 DEF Climbed
  <2>3. save.seen = {}
    BY <2>1, <2>2 DEF LoopFree
  <2> QED
    BY <1>6, <2>3
<1> QED
  BY <1>5, <1>6 DEF Climbed

\* Lemma: a deleted menu leaves no loop behind.
LEMMA OrphansCloseNoLoop ==
  ASSUME tree \in [Menus -> MenuRow], NEW out \in SUBSET Menus, LoopFree(tree, Menus \ out), NEW m \in Menus
  PROVE  LoopFree(Orphaned(m), Menus \ (out \cup {m}))
<1> SUFFICES ASSUME NEW S \in SUBSET (Menus \ (out \cup {m})), \A x \in S : Orphaned(m)[x].parent \in S
             PROVE  S = {}
  BY DEF LoopFree
<1>1. \A x \in S : tree[x].parent \in S
  <2> SUFFICES ASSUME NEW x \in S PROVE tree[x].parent \in S
    OBVIOUS
  <2>1. Orphaned(m)[x] = IF tree[x].parent = m THEN [tree[x] EXCEPT !.parent = Top] ELSE tree[x]
    BY DEF Orphaned
  <2>2. CASE tree[x].parent # m
    BY <2>1, <2>2
  <2>3. CASE tree[x].parent = m
    <3>1. Orphaned(m)[x] = [tree[x] EXCEPT !.parent = Top]
      BY <2>1, <2>3
    <3>2. Orphaned(m)[x].parent = Top
      BY <3>1 DEF MenuRow
    <3> QED
      BY <3>1, <3>2, NavAssumption
  <2> QED
    BY <2>2, <2>3
<1> QED
  BY <1>1 DEF LoopFree

\* Lemma: the tree starts without loops.
LEMMA NavInitHolds == NavInit => NavInv
<1> SUFFICES ASSUME NavInit PROVE NavInv
  OBVIOUS
<1> USE DEF NavInit
<1>1. tree \in [Menus -> MenuRow]
  BY DEF MenuRow, Exposures
<1>2. NavTyped
  BY <1>1 DEF NavTyped, NavTypeOK, SaveRow
<1>3. LoopFree(tree, Menus \ gone)
  BY NavAssumption DEF LoopFree
<1>4. \A s \in MenuSaves : ~Walking(menuSaves[s])
  BY DEF Walking, IdleSave
<1> QED
  BY <1>2, <1>3, <1>4 DEF NavInv

\* Lemma: what changes one save and no row keeps the invariant when the save is
\* right.
LEMMA OneSave ==
  ASSUME NavInv, NEW s \in MenuSaves, NEW save \in SaveRow,
         Walking(save) /\ ~overlap => Climbed(tree, gone, save),
         menuSaves' = [menuSaves EXCEPT ![s] = save],
         UNCHANGED <<tree, gone, copy, overlap>>
  PROVE  NavInv'
<1>1. NavTyped'
  <2>1. menuSaves' \in [MenuSaves -> SaveRow]
    BY DEF NavInv, NavTyped
  <2> QED
    BY <2>1 DEF NavInv, NavTyped, NavTypeOK
<1>2. \A t \in MenuSaves : menuSaves'[t] = IF t = s THEN save ELSE menuSaves[t]
  BY DEF NavInv, NavTyped
<1>3. ASSUME ~overlap
      PROVE  /\ LoopFree(tree, Menus \ gone)
             /\ \A t \in MenuSaves : Walking(menuSaves'[t]) => Climbed(tree, gone, menuSaves'[t])
  BY <1>2, <1>3 DEF NavInv
<1>4. overlap' = overlap /\ tree' = tree /\ gone' = gone
  OBVIOUS
<1> QED
  BY <1>1, <1>3, <1>4 DEF NavInv

\* Lemma: beginning a save keeps the invariant.
LEMMA NavBegin ==
  ASSUME NavInv, NEW s \in MenuSaves, BeginMenuSave(s)
  PROVE  NavInv'
<1>0. tree \in [Menus -> MenuRow] /\ gone \in SUBSET Menus
  BY DEF NavInv, NavTyped
<1>1. PICK m \in Menus \ gone :
        \E row \in {[tree[m] EXCEPT !.parent = p] : p \in (Menus \ gone) \cup {Top}}
                   \cup {[tree[m] EXCEPT !.shown = e] : e \in Exposures} :
          menuSaves' = [menuSaves EXCEPT ![s] =
                         [stage |-> "walk", menu |-> m, row |-> row, at |-> row.parent, seen |-> {}]]
  BY DEF BeginMenuSave
<1>2. PICK row \in {[tree[m] EXCEPT !.parent = p] : p \in (Menus \ gone) \cup {Top}}
                   \cup {[tree[m] EXCEPT !.shown = e] : e \in Exposures} :
          menuSaves' = [menuSaves EXCEPT ![s] =
                         [stage |-> "walk", menu |-> m, row |-> row, at |-> row.parent, seen |-> {}]]
  BY <1>1
<1>3. row \in MenuRow
  BY <1>0, <1>2 DEF MenuRow
<1> DEFINE save == [stage |-> "walk", menu |-> m, row |-> row, at |-> row.parent, seen |-> {}]
<1>4. save \in SaveRow
  BY <1>3 DEF SaveRow, MenuRow
<1>5. Climbed(tree, gone, save)
  BY DEF Climbed
<1>6. menuSaves' = [menuSaves EXCEPT ![s] = save] /\ UNCHANGED <<tree, gone, copy, overlap>>
  BY <1>2 DEF BeginMenuSave
<1> HIDE DEF save
<1> QED
  BY <1>4, <1>5, <1>6, OneSave

\* Lemma: a step of the walk keeps the invariant.
LEMMA NavWalk ==
  ASSUME NavInv, NEW s \in MenuSaves, Walk(s)
  PROVE  NavInv'
<1> DEFINE save == menuSaves[s]
           new == IF save.at = save.menu \/ save.at \in gone THEN [stage |-> "done"]
                  ELSE IF save.at = Top \/ save.at \in save.seen THEN [save EXCEPT !.stage = "write"]
                  ELSE [save EXCEPT !.at = Climb(save), !.seen = @ \cup {save.at}]
<1>1. /\ save.stage = "walk" /\ menuSaves' = [menuSaves EXCEPT ![s] = new]
      /\ UNCHANGED <<tree, gone, copy, overlap>>
  BY DEF Walk
<1>2. /\ tree \in [Menus -> MenuRow] /\ gone \in SUBSET Menus /\ save \in SaveRow
      /\ ~overlap => Climbed(tree, gone, save)
  BY <1>1 DEF NavInv, NavTyped, Walking
<1>3. save \in [stage: {"walk", "write"}, menu: Menus, row: MenuRow, at: Menus \cup {Top}, seen: SUBSET Menus]
  BY <1>1, <1>2 DEF SaveRow, IdleSave
<1> HIDE DEF save
<1>4. ASSUME save.at = save.menu \/ save.at \in gone PROVE NavInv'
  <2>1. new \in SaveRow /\ ~Walking(new)
    BY <1>4 DEF SaveRow, Walking
  <2> HIDE DEF new
  <2> QED
    BY <1>1, <2>1, OneSave
<1>5. ASSUME ~(save.at = save.menu \/ save.at \in gone), save.at = Top \/ save.at \in save.seen PROVE NavInv'
  <2>1. new = [save EXCEPT !.stage = "write"]
    BY <1>5
  <2> HIDE DEF new
  <2>2. new \in SaveRow
    BY <1>3, <2>1 DEF SaveRow
  <2>3. new.stage = "write" /\ new.menu = save.menu /\ new.row = save.row /\ new.at = save.at /\ new.seen = save.seen
    BY <1>3, <2>1
  <2>4. ~overlap => Climbed(tree, gone, new)
    BY <1>2, <1>5, <2>3 DEF Climbed
  <2> QED
    BY <1>1, <2>2, <2>4, OneSave
<1>6. ASSUME ~(save.at = save.menu \/ save.at \in gone), ~(save.at = Top \/ save.at \in save.seen) PROVE NavInv'
  <2>1. new = [save EXCEPT !.at = tree[save.at].parent, !.seen = save.seen \cup {save.at}]
    BY <1>3, <1>6 DEF Climb
  <2> HIDE DEF new
  <2>2. save.at \in Menus /\ tree[save.at].parent \in Menus \cup {Top}
    BY <1>2, <1>3, <1>6 DEF MenuRow
  <2>3. new \in SaveRow
    BY <1>3, <2>1, <2>2 DEF SaveRow
  <2>4. /\ new.stage = save.stage /\ new.menu = save.menu /\ new.row = save.row
        /\ new.at = tree[save.at].parent /\ new.seen = save.seen \cup {save.at}
    BY <1>3, <2>1
  <2>5. ~overlap => Climbed(tree, gone, new)
    BY <1>1, <1>2, <1>6, <2>4 DEF Climbed
  <2> QED
    BY <1>1, <2>3, <2>5, OneSave
<1> QED
  BY <1>4, <1>5, <1>6

\* Lemma: writing a menu keeps the invariant; where another save walks, the
\* overlap is on record.
LEMMA NavWrite ==
  ASSUME NavInv, NEW s \in MenuSaves, WriteMenu(s)
  PROVE  NavInv'
<1> DEFINE save == menuSaves[s]
           done == [stage |-> "done"]
<1>1. /\ tree \in [Menus -> MenuRow] /\ gone \in SUBSET Menus /\ save \in SaveRow
      /\ menuSaves \in [MenuSaves -> SaveRow] /\ save.stage = "write"
      /\ menuSaves' = [menuSaves EXCEPT ![s] = done]
      /\ UNCHANGED <<gone, copy>>
  BY DEF NavInv, NavTyped, WriteMenu
<1>2. done \in SaveRow /\ ~Walking(done)
  BY DEF SaveRow, Walking
<1>3. CASE save.menu \in gone \/ save.row.parent \in gone
  <2>1. UNCHANGED <<tree, overlap>>
    BY <1>3 DEF WriteMenu
  <2> HIDE DEF done
  <2> QED
    BY <1>1, <1>2, <2>1, OneSave
<1>4. CASE ~(save.menu \in gone \/ save.row.parent \in gone)
  <2>1. /\ tree' = [tree EXCEPT ![save.menu] = save.row]
        /\ overlap' = (overlap \/ \E t \in MenuSaves \ {s} : Walking(menuSaves[t]))
    BY <1>4 DEF WriteMenu
  <2>2. save.menu \in Menus /\ save.row \in MenuRow
    BY <1>1 DEF SaveRow, IdleSave
  <2>3. tree' \in [Menus -> MenuRow] /\ \A x \in Menus : tree'[x] = IF x = save.menu THEN save.row ELSE tree[x]
    BY <1>1, <2>1, <2>2
  <2>4. menuSaves' \in [MenuSaves -> SaveRow] /\ \A t \in MenuSaves : menuSaves'[t] = IF t = s THEN done ELSE menuSaves[t]
    <3> HIDE DEF done, save
    <3> QED
      BY <1>1, <1>2
  <2>5. NavTypeOK'
    <3>1. \A m \in Menus \ gone' : tree'[m].parent \notin gone'
      BY <1>1, <1>4, <2>3 DEF NavInv, NavTyped, NavTypeOK
    <3>2. \A m \in copy'.of : copy'.rows[m].parent \in copy'.of \cup {Top}
      BY <1>1 DEF NavInv, NavTyped, NavTypeOK
    <3> QED
      BY <2>3, <3>1, <3>2 DEF NavTypeOK
  <2>6. NavTyped'
    <3>1. overlap' \in BOOLEAN
      BY <2>1 DEF NavInv, NavTyped
    <3> QED
      BY <1>1, <2>3, <2>4, <2>5, <3>1 DEF NavInv, NavTyped
  <2>7. ASSUME ~overlap' PROVE LoopFree(tree', Menus \ gone') /\ \A t \in MenuSaves : ~Walking(menuSaves'[t])
    <3>1. ~overlap /\ \A t \in MenuSaves \ {s} : ~Walking(menuSaves[t])
      BY <2>1, <2>7
    <3>2. LoopFree(tree, Menus \ gone) /\ Climbed(tree, gone, save)
      BY <1>1, <3>1 DEF NavInv, Walking
    <3> HIDE DEF save, done
    <3>3. LoopFree(tree', Menus \ gone)
      BY <1>1, <2>3, <3>2, WriteClosesNoLoop
    <3> QED
      BY <1>1, <1>2, <2>4, <3>1, <3>3
  <2> QED
    BY <2>6, <2>7 DEF NavInv
<1> QED
  BY <1>3, <1>4

\* Lemma: deleting a menu keeps the invariant.
LEMMA NavDelete ==
  ASSUME NavInv, NEW m \in Menus, DeleteMenu(m)
  PROVE  NavInv'
<1>1. /\ tree \in [Menus -> MenuRow] /\ gone \in SUBSET Menus
      /\ gone' = gone \cup {m} /\ tree' = Orphaned(m)
      /\ overlap' = (overlap \/ \E s \in MenuSaves : Walking(menuSaves[s]))
      /\ UNCHANGED <<menuSaves, copy>>
  BY DEF NavInv, NavTyped, DeleteMenu
<1>2. \A c \in Menus : /\ tree'[c] \in MenuRow
                       /\ tree'[c].parent = IF tree[c].parent = m THEN Top ELSE tree[c].parent
  BY <1>1 DEF Orphaned, MenuRow
<1>3. tree' \in [Menus -> MenuRow]
  BY <1>1, <1>2 DEF Orphaned
<1>4. NavTypeOK'
  <2>1. \A c \in Menus \ gone' : tree'[c].parent \notin gone'
    BY <1>1, <1>2, NavAssumption DEF NavInv, NavTyped, NavTypeOK
  <2>2. \A c \in copy'.of : copy'.rows[c].parent \in copy'.of \cup {Top}
    BY <1>1 DEF NavInv, NavTyped, NavTypeOK
  <2> QED
    BY <1>3, <2>1, <2>2 DEF NavTypeOK
<1>5. NavTyped'
  BY <1>1, <1>3, <1>4 DEF NavInv, NavTyped
<1>6. ASSUME ~overlap' PROVE LoopFree(tree', Menus \ gone') /\ \A s \in MenuSaves : ~Walking(menuSaves'[s])
  BY <1>1, <1>6, OrphansCloseNoLoop DEF NavInv
<1> QED
  BY <1>5, <1>6 DEF NavInv

\* Lemma: taking the copy anew keeps the invariant.
LEMMA NavCopy ==
  ASSUME NavInv, CopyMenus
  PROVE  NavInv'
<1>1. /\ copy' = [rows |-> tree, of |-> Menus \ gone]
      /\ UNCHANGED <<tree, gone, menuSaves, overlap>>
  BY DEF CopyMenus
<1>2. copy' \in [rows: [Menus -> MenuRow], of: SUBSET Menus] /\ copy'.of = Menus \ gone /\ copy'.rows = tree
  BY <1>1 DEF NavInv, NavTyped
<1>3. NavTypeOK'
  <2>1. \A m \in Menus \ gone : tree[m].parent \in (Menus \ gone) \cup {Top}
    BY DEF NavInv, NavTyped, NavTypeOK, MenuRow
  <2> QED
    BY <1>1, <1>2, <2>1 DEF NavInv, NavTyped, NavTypeOK
<1>4. NavTyped'
  BY <1>1, <1>2, <1>3 DEF NavInv, NavTyped
<1> QED
  BY <1>1, <1>4 DEF NavInv

\* Lemma: the invariant of the menus is inductive.
LEMMA NavStep == NavInv /\ [NavNext]_navVars => NavInv'
<1> SUFFICES ASSUME NavInv, [NavNext]_navVars PROVE NavInv'
  OBVIOUS
<1>1. ASSUME UNCHANGED <<tree, gone, menuSaves, copy, overlap>> PROVE NavInv'
  BY <1>1 DEF NavInv, NavTyped, NavTypeOK
<1>2. CASE NavNext
  <2>1. CASE \E s \in MenuSaves : BeginMenuSave(s) \/ Walk(s) \/ WriteMenu(s)
    BY <2>1, NavBegin, NavWalk, NavWrite
  <2>2. ASSUME NEW m \in Menus, DeleteMenu(m) \/ EditContent(m) PROVE NavInv'
    BY <1>1, <2>2, NavDelete DEF EditContent
  <2>3. CASE ReclassBoard
    BY <1>1, <2>3 DEF ReclassBoard
  <2>4. CASE CopyMenus
    BY <2>4, NavCopy
  <2> QED
    BY <1>2, <2>1, <2>2, <2>3, <2>4 DEF NavNext
<1> QED
  BY <1>1, <1>2 DEF navVars

\* One step up, Top above the last (Ancestor).
Above(c, x) == IF x \in c.of THEN c.rows[x].parent ELSE Top

IsClimb(up, c, m, k) == up = [n \in 0..k |-> IF n = 0 THEN m ELSE Above(c, up[n - 1])]

\* Lemma: a climb of any length exists.
LEMMA ClimbExists ==
  ASSUME NEW c, NEW m, NEW k \in Nat
  PROVE  \E up : IsClimb(up, c, m, k)
<1> DEFINE bad == {j \in Nat : ~\E up : IsClimb(up, c, m, j)}
<1>1. bad \subseteq Nat
  OBVIOUS
<1>2. ASSUME bad # {} PROVE FALSE
  <2>1. PICK j \in bad : \A i \in bad : ~(i < j)
    <3> HIDE DEF bad
    <3> QED
      BY <1>1, <1>2, SmallestNat
  <2>2. j \in Nat /\ ~\E up : IsClimb(up, c, m, j)
    OBVIOUS
  <2>3. CASE j = 0
    <3> DEFINE up == [n \in 0..0 |-> m]
    <3>1. IsClimb(up, c, m, 0)
      <4>1. \A n \in 0..0 : n = 0
        OBVIOUS
      <4> QED
        BY <4>1 DEF IsClimb
    <3> QED
      BY <2>2, <2>3, <3>1
  <2>4. CASE j # 0
    <3> DEFINE i == j - 1
    <3>1. i \in Nat /\ i < j
      BY <2>2, <2>4
    <3>2. i \notin bad
      BY <2>1, <3>1
    <3>3. PICK g : IsClimb(g, c, m, i)
      BY <3>1, <3>2
    <3> DEFINE up == [n \in 0..j |-> IF n = 0 THEN m ELSE Above(c, g[n - 1])]
    <3>4. \A n \in 0..i : up[n] = g[n] /\ n \in 0..j
      BY <2>2, <3>1, <3>3 DEF IsClimb
    <3>5. ASSUME NEW n \in 0..j, n # 0 PROVE up[n - 1] = g[n - 1]
      <4>1. n - 1 \in 0..i
        BY <2>2, <3>5
      <4> QED
        BY <3>4, <4>1
    <3>6. up = [n \in 0..j |-> IF n = 0 THEN m ELSE Above(c, up[n - 1])]
      BY <3>5
    <3> QED
      BY <2>2, <3>6 DEF IsClimb
  <2> QED
    BY <2>3, <2>4
<1>3. k \notin bad
  <2> HIDE DEF bad
  <2> QED
    BY <1>2
<1> QED
  BY <1>3

\* Lemma: the ancestors of a menu, one after the other.
LEMMA AncestorIs ==
  ASSUME NEW c, NEW m
  PROVE  /\ Cardinality(Menus) \in Nat
         /\ Ancestor(c, m)[0] = m
         /\ \A n \in 1..Cardinality(Menus) : Ancestor(c, m)[n] = Above(c, Ancestor(c, m)[n - 1])
<1> DEFINE K == Cardinality(Menus)
           up == Ancestor(c, m)
<1>1. K \in Nat
  BY FS_CardinalityType, NavAssumption
<1>2. up = CHOOSE f : IsClimb(f, c, m, K)
  BY DEF Ancestor, IsClimb, Above
<1> HIDE DEF K, up
<1>3. IsClimb(up, c, m, K)
  BY <1>1, <1>2, ClimbExists
<1>4. \A n \in 0..K : up[n] = IF n = 0 THEN m ELSE Above(c, up[n - 1])
  BY <1>3 DEF IsClimb
<1>5. up[0] = m /\ \A n \in 1..K : up[n] = Above(c, up[n - 1])
  BY <1>1, <1>4
<1> QED
  BY <1>1, <1>5 DEF K, up

\* Lemma: a climb that is still among the menus at its end was there all along.
LEMMA ClimbStays ==
  ASSUME NEW c, c.of \subseteq Menus, NEW m, Endless(c, m), NEW n \in 0..Cardinality(Menus)
  PROVE  Ancestor(c, m)[n] \in c.of
<1> DEFINE K == Cardinality(Menus)
           up == Ancestor(c, m)
           bad == {i \in Nat : i <= K /\ up[K - i] \notin c.of}
<1>1. K \in Nat /\ \A i \in 1..K : up[i] = Above(c, up[i - 1])
  BY AncestorIs
<1>2. up[K] \in c.of /\ Top \notin c.of
  BY NavAssumption DEF Endless
<1> HIDE DEF up, K
<1>3. ASSUME bad # {} PROVE FALSE
  <2>1. PICK i \in bad : \A j \in bad : ~(j < i)
    <3>1. bad \subseteq Nat
      OBVIOUS
    <3> HIDE DEF bad
    <3> QED
      BY <1>3, <3>1, SmallestNat
  <2>2. i \in Nat /\ i <= K /\ up[K - i] \notin c.of
    OBVIOUS
  <2>3. i # 0
    BY <1>1, <1>2, <2>2
  <2> DEFINE j == i - 1
             x == K - j
  <2>4. j \in Nat /\ j < i /\ j <= K /\ x \in 1..K /\ x - 1 = K - i
    BY <1>1, <2>2, <2>3
  <2>5. up[x] = Above(c, up[K - i])
    <3>1. up[x] = Above(c, up[x - 1])
      BY <1>1, <2>4
    <3> QED
      BY <2>4, <3>1
  <2>6. up[x] \notin c.of
    BY <1>2, <2>2, <2>5 DEF Above
  <2>7. j \in bad
    BY <2>4, <2>6
  <2> QED
    BY <2>1, <2>4, <2>7
<1>4. K - n \in Nat /\ K - n <= K /\ K - (K - n) = n /\ n \in 0..K
  BY <1>1 DEF K
<1>5. K - n \notin bad
  BY <1>3
<1>6. up[K - (K - n)] \in c.of
  BY <1>4, <1>5
<1> QED
  BY <1>4, <1>6 DEF up

\* Lemma: where no menus hold each other's parents, no climb is endless.
LEMMA LoopFreeEnds ==
  ASSUME NEW c, c.of \subseteq Menus, LoopFree(c.rows, c.of), NEW m
  PROVE  ~Endless(c, m)
<1> SUFFICES ASSUME Endless(c, m) PROVE FALSE
  OBVIOUS
<1> DEFINE K == Cardinality(Menus)
           up == Ancestor(c, m)
<1>1. K \in Nat /\ \A i \in 1..K : up[i] = Above(c, up[i - 1])
  BY AncestorIs
<1>2. \A n \in 0..K : up[n] \in c.of
  BY ClimbStays
<1>3. Cardinality(c.of) <= K /\ IsFiniteSet(c.of) /\ Cardinality(c.of) \in Nat
  <2>1. c.of \in SUBSET Menus
    OBVIOUS
  <2> QED
    BY <2>1, FS_Subset, FS_CardinalityType, NavAssumption
<1>4. IsFiniteSet(0..K) /\ Cardinality(0..K) = K + 1
  BY <1>1, FS_Interval
<1> HIDE DEF up, K
<1>5. \E i, j \in 0..K : i < j /\ up[i] = up[j]
  <2> DEFINE f == [n \in 0..K |-> up[n]]
  <2>1. f \in [0..K -> c.of]
    BY <1>2
  <2>2. Cardinality(c.of) < Cardinality(0..K)
    BY <1>1, <1>3, <1>4
  <2> HIDE DEF f
  <2>3. PICK i, j \in 0..K : i # j /\ f[i] = f[j]
    BY <1>3, <1>4, <2>1, <2>2, FS_PigeonHole
  <2>4. up[i] = up[j] /\ up[j] = up[i]
    BY <2>3 DEF f
  <2>5. i < j \/ j < i
    BY <1>1, <2>3
  <2> QED
    BY <2>4, <2>5
<1>6. PICK i \in 0..K, j \in 0..K : i < j /\ up[i] = up[j]
  BY <1>5
<1> DEFINE S == {up[n] : n \in i..(j - 1)}
<1>7. S \in SUBSET c.of
  BY <1>1, <1>2, <1>6
<1>8. ASSUME NEW x \in S PROVE c.rows[x].parent \in S
  <2>1. PICK n \in i..(j - 1) : x = up[n]
    OBVIOUS
  <2> DEFINE n1 == n + 1
  <2>2. n1 \in 1..K /\ n1 - 1 = n /\ n \in 0..K
    BY <1>1, <1>6, <2>1
  <2>3. up[n1] = Above(c, up[n1 - 1])
    BY <1>1, <2>2
  <2>4. up[n1] = c.rows[x].parent
    BY <1>2, <2>1, <2>2, <2>3 DEF Above
  <2>5. up[n1] \in S
    <3>1. CASE n1 = j
      <4>1. i \in i..(j - 1)
        BY <1>1, <1>6
      <4>2. up[n1] = up[i]
        BY <1>6, <3>1
      <4> QED
        BY <4>1, <4>2
    <3>2. CASE n1 # j
      <4>1. n1 \in i..(j - 1)
        BY <1>1, <1>6, <2>1, <3>2
      <4> QED
        BY <4>1
    <3> QED
      BY <3>1, <3>2
  <2> QED
    BY <2>4, <2>5
<1>9. up[i] \in S
  <2>1. i \in i..(j - 1)
    BY <1>1, <1>6
  <2> QED
    BY <2>1
<1> HIDE DEF S
<1> QED
  BY <1>7, <1>8, <1>9 DEF LoopFree

\* As long as no menu is written while another save walks the ancestors, no menu
\* is its own ancestor, however many saves and deletions there are
\* (preventSelfReferentialCycle).
THEOREM LoopsOnlyByOverlapHolds == NavSpec => []LoopsOnlyByOverlap
<1>1. NavInv => LoopsOnlyByOverlap
  <2> SUFFICES ASSUME NavInv, ~overlap, NEW m \in Menus \ gone
               PROVE  ~Endless([rows |-> tree, of |-> Menus \ gone], m)
    BY DEF LoopsOnlyByOverlap
  <2> DEFINE c == [rows |-> tree, of |-> Menus \ gone]
  <2>1. c.of = Menus \ gone /\ c.rows = tree
    OBVIOUS
  <2>2. LoopFree(tree, Menus \ gone)
    BY DEF NavInv
  <2> HIDE DEF c
  <2>3. ~Endless(c, m)
    BY <2>1, <2>2, LoopFreeEnds
  <2> QED
    BY <2>3 DEF c
<1> QED
  BY <1>1, NavInitHolds, NavStep, PTL DEF NavSpec

\* Lemma: the ancestors of a parent are ancestors of the menu, and end with them.
LEMMA ParentClimb ==
  ASSUME NEW c, c.of \subseteq Menus, NEW m \in c.of, ~Endless(c, m),
         NEW p, p = c.rows[m].parent
  PROVE  ~Endless(c, p) /\ Lineage(c, p) \subseteq Lineage(c, m)
<1> DEFINE K == Cardinality(Menus)
           up == Ancestor(c, m)
           from == Ancestor(c, p)
           bad == {i \in Nat : i < K /\ from[i] # up[i + 1]}
<1>1. /\ K \in Nat /\ up[0] = m /\ from[0] = p
      /\ \A i \in 1..K : up[i] = Above(c, up[i - 1])
      /\ \A i \in 1..K : from[i] = Above(c, from[i - 1])
  BY AncestorIs
<1>2. K >= 1
  BY <1>1, NavAssumption, FS_EmptySet
<1>3. up[K] \notin c.of /\ Top \notin c.of
  BY NavAssumption DEF Endless
<1> HIDE DEF K, up, from
<1>4. ASSUME bad # {} PROVE FALSE
  <2>1. PICK i \in bad : \A j \in bad : ~(j < i)
    <3>1. bad \subseteq Nat
      OBVIOUS
    <3> HIDE DEF bad
    <3> QED
      BY <1>4, <3>1, SmallestNat
  <2>2. i \in Nat /\ i < K /\ from[i] # up[i + 1]
    OBVIOUS
  <2>3. CASE i = 0
    <3>1. 1 \in 1..K
      BY <1>1, <1>2
    <3>2. up[1] = Above(c, up[0])
      BY <1>1, <3>1
    <3>3. up[1] = p
      BY <1>1, <3>2 DEF Above
    <3> QED
      BY <1>1, <2>2, <2>3, <3>3
  <2>4. CASE i # 0
    <3> DEFINE j == i - 1
               k == i + 1
    <3>1. j \in Nat /\ j < i /\ j < K /\ j + 1 = i /\ i \in 1..K /\ k \in 1..K /\ k - 1 = i
      BY <1>1, <2>2, <2>4
    <3>2. from[j] = up[i]
      <4>1. j \notin bad
        BY <2>1, <3>1
      <4>2. from[j] = up[j + 1]
        BY <3>1, <4>1
      <4> QED
        BY <3>1, <4>2
    <3>3. from[i] = Above(c, from[j])
      BY <1>1, <3>1
    <3>4. up[k] = Above(c, up[k - 1])
      BY <1>1, <3>1
    <3>5. up[k] = Above(c, up[i])
      BY <3>1, <3>4
    <3> QED
      BY <2>2, <3>2, <3>3, <3>5
  <2> QED
    BY <2>3, <2>4
<1>5. \A i \in Nat : i < K => from[i] = up[i + 1]
  BY <1>4
<1> DEFINE l == K - 1
<1>6. l \in Nat /\ l < K /\ l + 1 = K /\ K \in 1..K /\ K - 1 = l
  BY <1>1, <1>2
<1>7. from[l] \notin c.of
  BY <1>3, <1>5, <1>6
<1>8. from[K] = Top
  <2>1. from[K] = Above(c, from[K - 1])
    BY <1>1, <1>6
  <2>2. from[K] = Above(c, from[l])
    BY <1>6, <2>1
  <2> QED
    BY <1>7, <2>2 DEF Above
<1>9. ~Endless(c, p)
  BY <1>3, <1>8 DEF Endless, K, from
<1>10. ASSUME NEW x \in Lineage(c, p) PROVE x \in Lineage(c, m)
  <2>1. PICK n \in 0..K : x = from[n] /\ x \in c.of
    BY DEF Lineage, K, from
  <2>2. n # K
    BY <1>3, <1>8, <2>1
  <2> DEFINE n1 == n + 1
  <2>3. n \in Nat /\ n < K /\ n1 \in 0..K
    BY <1>1, <2>1, <2>2
  <2>4. x = up[n1]
    BY <1>5, <2>1, <2>3
  <2> QED
    BY <2>1, <2>3, <2>4 DEF Lineage, K, up
<1> QED
  BY <1>9, <1>10

\* Lemma: a menu is its own first ancestor.
LEMMA OwnLineage ==
  ASSUME NEW c, NEW m \in c.of
  PROVE  m \in Lineage(c, m)
<1>1. 0 \in 0..Cardinality(Menus) /\ Ancestor(c, m)[0] = m
  BY AncestorIs
<1> QED
  BY <1>1 DEF Lineage

\* However old the cached menus are, navigation, side menu and breadcrumb are
\* closed under parents, and what was switched off, withdrawn or classified opens
\* to nobody (site/nav.ts, site/data.ts, site/board.ts).
THEOREM StaleNavIsHarmlessHolds == NavSpec => []StaleNavIsHarmless
<1>1. NavInv => StaleNavIsHarmless
  <2> SUFFICES ASSUME NavInv PROVE StaleNavIsHarmless
    OBVIOUS
  <2>1. NavTypeOK /\ copy.of \subseteq Menus /\ Top \notin copy.of
    BY NavAssumption DEF NavInv, NavTyped
  <2>2. NavIsClosed
    <3> SUFFICES ASSUME NEW in \in BOOLEAN
                 PROVE  /\ \A m \in Nav(copy, in) : copy.rows[m].parent \in Nav(copy, in) \cup {Top}
                        /\ \A m \in Menus : PageOpens(m, in) => PageTrail(m, in) \subseteq SideMenu(m, in)
      BY DEF NavIsClosed
    <3>1. ASSUME NEW m \in Nav(copy, in), NEW p, p = copy.rows[m].parent, p # Top
          PROVE  p \in Nav(copy, in)
      <4>1. m \in copy.of /\ ~Endless(copy, m) /\ \A a \in Lineage(copy, m) : ShownTo(copy.rows[a], in)
        BY DEF Nav, InNav
      <4>2. p \in copy.of
        BY <2>1, <3>1, <4>1 DEF NavTypeOK
      <4>3. ~Endless(copy, p) /\ Lineage(copy, p) \subseteq Lineage(copy, m)
        BY <2>1, <3>1, <4>1, ParentClimb
      <4> QED
        BY <4>1, <4>2, <4>3 DEF Nav, InNav
    <3>2. ASSUME NEW m \in Menus, PageOpens(m, in), NEW n \in PageTrail(m, in)
          PROVE  n \in SideMenu(m, in)
      <4>1. m \in Nav(copy, in) /\ n \in Lineage(copy, m) /\ n \in Nav(copy, in)
        BY <3>2 DEF PageOpens, PageTrail
      <4>2. n \in copy.of
        BY <4>1 DEF Nav
      <4>3. n \in Lineage(copy, n)
        BY <4>2, OwnLineage
      <4> QED
        BY <4>1, <4>3 DEF SideMenu
    <3> QED
      BY <3>1, <3>2
  <2>3. OffIsImmediate
    BY DEF OffIsImmediate, PageOpens, FreshPage
  <2>4. SecureBoardStaysShut
    BY DEF SecureBoardStaysShut, BoardOpens, HomeShowsBoard
  <2> QED
    BY <2>1, <2>2, <2>3, <2>4 DEF StaleNavIsHarmless
<1> QED
  BY <1>1, NavInitHolds, NavStep, PTL DEF NavSpec
=============================================================================
