-------------------------- MODULE SurveysSeedProofs --------------------------
(* Proofs about Surveys, for any participants, slots, forms and horizon, and  *)
(* about the seed, for any triggers.                                          *)
EXTENDS Surveys, Seed, SequenceTheorems, TLAPS

-----------------------------------------------------------------------------
(* The survey (Surveys): its rows, its forms and its submits.              *)

\* A survey as an editor may hand it in has the type of one.
LEMMA AnySurveyType == AnySurvey \in Survey
BY FormsAssumption DEF AnySurvey, Survey

\* The slots at rest have their types.
LEMMA NullTypes == /\ NoSubmit \in Submit
                   /\ NoSave \in Save
                   /\ NoResponse \in Response
                   /\ NoEdit \in Edit
BY AnySurveyType DEF NoSubmit, Submit, SubmitPc, NoSave, Save, NoResponse, Response,
                     NoEdit, Edit, Participants

\* Every part of the state keeps its type.
THEOREM TypeCorrect == Spec => []TypeOK
<1> USE ParticipantsAssumption, TimeAssumption
<1>1. Init => TypeOK
  <2> SUFFICES ASSUME Init PROVE TypeOK
    OBVIOUS
  <2>1. survey \in Survey
    BY DEF Init, Survey
  <2> QED BY <2>1, NullTypes DEF Init, TypeOK, Times
<1>2. TypeOK /\ [Next]_vars => TypeOK'
  <2> SUFFICES ASSUME TypeOK, [Next]_vars PROVE TypeOK'
    OBVIOUS
  <2>1. ASSUME NEW a \in Saves, NEW form \in Forms, SaveBegin(a, form) PROVE TypeOK'
    <3>1. Latched(form) \in BOOLEAN /\ IsStarted \in BOOLEAN
      BY DEF Latched, IsStarted, WindowHasOpened, TypeOK, Survey
    <3>2. [survey EXCEPT !.form = form, !.startedAt = Latched(form)] \in Survey
      BY <3>1 DEF TypeOK, Survey
    <3> QED BY <2>1, <3>1, <3>2 DEF SaveBegin, TypeOK, Save
  <2>2. ASSUME NEW a \in Saves, SaveWrite(a) PROVE TypeOK'
    <3>1. save[a].row \in Survey
      BY DEF TypeOK, Save
    <3>2. \A i \in Responses :
            [response[i] EXCEPT
               !.unmarked = @ \/ (i \in Stored /\ ~save[a].row.hasResponses)] \in Response
      BY DEF TypeOK, Response
    <3> QED BY <2>2, <3>1, <3>2, NullTypes DEF SaveWrite, TypeOK
  <2>3. CASE Tick
    BY <2>3 DEF Tick, TypeOK, Times
  <2>4. ASSUME NEW t \in Submits, NEW p \in Participants, SubmitBegin(t, p)
        PROVE  TypeOK'
    <3>1. Named(p) \in BOOLEAN
      BY DEF Named
    <3>2. [NoSubmit EXCEPT !.pc = "dedup", !.who = p, !.named = Named(p)] \in Submit
      BY <3>1, NullTypes DEF Submit, SubmitPc
    <3> QED BY <2>4, <3>2 DEF SubmitBegin, TypeOK
  <2>5. ASSUME NEW t \in Submits, SubmitStep(t) PROVE TypeOK'
    <3>1. /\ submit[t] \in Submit
          /\ \A pc \in SubmitPc : [submit[t] EXCEPT !.pc = pc] \in Submit
      BY DEF TypeOK, Submit
    <3>2. Marked \in Survey
      BY DEF Marked, TypeOK, Survey
    <3>3. CASE SubmitDedup(t)
      BY <3>1, <3>3, NullTypes DEF SubmitDedup, TypeOK, SubmitPc
    <3>4. ASSUME NEW valid \in BOOLEAN, SubmitLoad(t, valid) PROVE TypeOK'
      BY <3>1, <3>4, NullTypes DEF SubmitLoad, TypeOK, SubmitPc
    <3>5. CASE SubmitCreate(t)
      BY <3>1, <3>5 DEF SubmitCreate, TypeOK, SubmitPc
    <3>6. CASE SubmitMark(t)
      <4>1. [submit[t] EXCEPT !.pc = "commit", !.marking = TRUE, !.row = Marked] \in Submit
        BY <3>1, <3>2 DEF Submit, SubmitPc
      <4> QED BY <3>6, <4>1 DEF SubmitMark, TypeOK
    <3>7. ASSUME NEW i \in Responses, SubmitCommit(t, i) PROVE TypeOK'
      <4>1. /\ submit[t].who \in Participants /\ submit[t].named \in BOOLEAN
            /\ submit[t].marking \in BOOLEAN /\ submit[t].row \in Survey
        BY <3>1 DEF Submit
      <4>2. survey \in Survey /\ survey.hasResponses \in BOOLEAN
        BY DEF TypeOK, Survey
      <4>3. [live |-> TRUE, who |-> submit[t].who, named |-> submit[t].named,
             key |-> Key(submit[t].who, submit[t].named), outdated |-> FALSE,
             unmarked |-> ~submit[t].marking /\ ~survey.hasResponses] \in Response
        BY <4>1, <4>2 DEF Response, Key
      <4>4. survey' \in Survey
        BY <3>7, <4>1, <4>2 DEF SubmitCommit
      <4> QED BY <3>7, <4>3, <4>4, NullTypes DEF SubmitCommit, TypeOK
    <3>8. CASE SubmitDuplicate(t)
      BY <3>8, NullTypes DEF SubmitDuplicate, TypeOK
    <3> QED BY <2>5, <3>3, <3>4, <3>5, <3>6, <3>7, <3>8 DEF SubmitStep
  <2>6. ASSUME NEW i \in Responses, DeleteResponse(i) PROVE TypeOK'
    <3>1. \A e \in Edits : [edit[e] EXCEPT !.seen = @ \ {i}] \in Edit
      BY DEF TypeOK, Edit
    <3> QED BY <2>6, <3>1, NullTypes DEF DeleteResponse, TypeOK
  <2>7. ASSUME NEW e \in Edits, EditBegin(e) PROVE TypeOK'
    BY <2>7 DEF EditBegin, TypeOK, Edit, Stored
  <2>8. ASSUME NEW e \in Edits, EditWrite(e) PROVE TypeOK'
    <3>1. \A i \in Responses :
            [response[i] EXCEPT !.outdated = @ \/ i \in edit[e].seen] \in Response
      BY DEF TypeOK, Response
    <3> QED BY <2>8, <3>1, NullTypes DEF EditWrite, TypeOK
  <2>9. CASE UNCHANGED vars
    BY <2>9 DEF vars, TypeOK
  <2> QED BY <2>1, <2>2, <2>3, <2>4, <2>5, <2>6, <2>7, <2>8, <2>9 DEF Next
<1> QED BY <1>1, <1>2, PTL DEF Spec

-----------------------------------------------------------------------------

\* The strengthening behind StartIsSticky and NoneOutdated: a save that read a
\* started survey writes the latch, and a response that marks the survey writes
\* the mark.
LatchInv ==
  /\ \A a \in Saves : save[a].started => save[a].row.startedAt
  /\ \A t \in Submits : submit[t].marking =>
       submit[t].row.hasResponses /\ submit[t].row.startedAt

\* Whoever read a started survey writes it back as a started one (Surveys.ts,
\* responses that mark it).
LEMMA LatchInvHolds == Spec => []LatchInv
<1>1. Init => LatchInv
  BY DEF Init, LatchInv, NoSave, NoSubmit
<1>2. TypeOK /\ LatchInv /\ [Next]_vars => LatchInv'
  <2> SUFFICES ASSUME TypeOK, LatchInv, [Next]_vars PROVE LatchInv'
    OBVIOUS
  <2>1. ASSUME NEW a \in Saves, NEW form \in Forms, SaveBegin(a, form)
        PROVE  LatchInv'
    <3>1. /\ save'[a].started = IsStarted
          /\ save'[a].row.startedAt = Latched(form)
          /\ \A b \in Saves \ {a} : save'[b] = save[b]
      BY <2>1 DEF SaveBegin, TypeOK, Survey
    <3> QED BY <2>1, <3>1 DEF SaveBegin, LatchInv, Latched, IsStarted
  <2>2. ASSUME NEW a \in Saves, SaveWrite(a) PROVE LatchInv'
    BY <2>2 DEF SaveWrite, LatchInv, NoSave, TypeOK
  <2>3. ASSUME NEW t \in Submits, NEW p \in Participants, SubmitBegin(t, p)
        PROVE  LatchInv'
    <3>1. ~submit'[t].marking /\ \A v \in Submits \ {t} : submit'[v] = submit[v]
      BY <2>3 DEF SubmitBegin, NoSubmit, TypeOK
    <3> QED BY <2>3, <3>1 DEF SubmitBegin, LatchInv
  <2>4. ASSUME NEW t \in Submits, SubmitStep(t) PROVE LatchInv'
    <3>1. CASE SubmitMark(t)
      <4>1. /\ submit'[t].row = Marked
            /\ \A v \in Submits \ {t} : submit'[v] = submit[v]
        BY <3>1 DEF SubmitMark, TypeOK, Submit
      <4>2. Marked.hasResponses /\ Marked.startedAt
        BY DEF Marked, TypeOK, Survey
      <4> QED BY <3>1, <4>1, <4>2 DEF SubmitMark, LatchInv
    <3>2. ASSUME ~SubmitMark(t) PROVE LatchInv'
      <4>1. /\ \/ submit'[t] = NoSubmit
               \/ /\ submit'[t].marking = submit[t].marking
                  /\ submit'[t].row = submit[t].row
            /\ \A v \in Submits \ {t} : submit'[v] = submit[v]
            /\ save' = save
        BY <2>4, <3>2 DEF SubmitStep, SubmitDedup, SubmitLoad, SubmitCreate,
                          SubmitCommit, SubmitDuplicate, TypeOK, Submit
      <4> QED BY <4>1 DEF LatchInv, NoSubmit
    <3> QED BY <3>1, <3>2
  <2>5. CASE UNCHANGED <<save, submit>>
    BY <2>5 DEF LatchInv
  <2> QED
    BY <2>1, <2>2, <2>3, <2>4, <2>5
    DEF Next, vars, Tick, DeleteResponse, EditBegin, EditWrite
<1> QED BY <1>1, <1>2, TypeCorrect, PTL DEF Spec

\* Only the write of a save that had read the survey before it started makes a
\* started survey editable again.
THEOREM StartIsStickyHolds == Spec => StartIsSticky
<1> USE TimeAssumption, FormsAssumption
<1> DEFINE Stale == \E a \in Saves : save[a].busy /\ ~save'[a].busy /\ ~save[a].started
<1>1. TypeOK /\ LatchInv /\ [Next]_vars => (IsStarted /\ ~IsStarted' => Stale)
  <2> SUFFICES ASSUME TypeOK, LatchInv, [Next]_vars, IsStarted, ~IsStarted'
               PROVE  Stale
    OBVIOUS
  <2>1. ASSUME NEW a \in Saves, SaveWrite(a) PROVE Stale
    <3>1. ~save[a].started
      BY <2>1 DEF SaveWrite, LatchInv, IsStarted
    <3>2. ~save'[a].busy
      BY <2>1 DEF SaveWrite, NoSave, TypeOK
    <3> QED BY <2>1, <3>1, <3>2 DEF SaveWrite
  <2>2. CASE Tick
    <3>1. survey.form.from \in Times \cup {NoTime}
      BY DEF TypeOK, Survey
    <3> QED BY <2>2, <3>1 DEF Tick, IsStarted, WindowHasOpened, TypeOK, Times
  <2>3. ASSUME NEW t \in Submits, NEW i \in Responses, SubmitCommit(t, i) PROVE Stale
    <3>1. CASE submit[t].marking
      BY <2>3, <3>1 DEF SubmitCommit, LatchInv, IsStarted
    <3>2. CASE ~submit[t].marking
      BY <2>3, <3>2 DEF SubmitCommit, IsStarted, WindowHasOpened
    <3> QED BY <3>1, <3>2
  <2>4. CASE UNCHANGED <<now, survey>>
    BY <2>4 DEF IsStarted, WindowHasOpened
  <2> QED
    BY <2>1, <2>2, <2>3, <2>4
    DEF Next, vars, SaveBegin, SubmitBegin, SubmitStep, SubmitDedup, SubmitLoad,
        SubmitCreate, SubmitMark, SubmitDuplicate, DeleteResponse, EditBegin, EditWrite
<1> QED BY <1>1, TypeCorrect, LatchInvHolds, PTL DEF Spec, StartIsSticky

-----------------------------------------------------------------------------

\* The strengthening that makes OnePerParticipant inductive: a stored response
\* carries the key of whoever gave it, under a name or not, so the unique
\* index compares responses of both sorts.
KeyInv ==
  /\ \A i \in Stored : response[i].key = Key(response[i].who, response[i].named)
  /\ OnePerParticipant

\* A step that leaves who responded, and how, leaves KeyInv.
LEMMA KeyInvFrame ==
  ASSUME KeyInv,
         \A i \in Responses : /\ response'[i].live = response[i].live
                              /\ response'[i].who = response[i].who
                              /\ response'[i].named = response[i].named
                              /\ response'[i].key = response[i].key
  PROVE  KeyInv'
BY DEF KeyInv, OnePerParticipant, Stored, Key

\* One response per participant with a key.
THEOREM OnePerParticipantHolds == Spec => []OnePerParticipant
<1>1. Init => KeyInv
  BY DEF Init, KeyInv, OnePerParticipant, Stored, NoResponse
<1>2. TypeOK /\ KeyInv /\ [Next]_vars => KeyInv'
  <2> SUFFICES ASSUME TypeOK, KeyInv, [Next]_vars PROVE KeyInv'
    OBVIOUS
  <2>1. ASSUME NEW t \in Submits, NEW i \in Responses, SubmitCommit(t, i)
        PROVE  KeyInv'
    <3> DEFINE p == submit[t].who
               named == submit[t].named
    <3>1. /\ response'[i].live /\ response'[i].who = p
          /\ response'[i].named = named /\ response'[i].key = Key(p, named)
          /\ \A j \in Responses \ {i} : response'[j] = response[j]
      BY <2>1 DEF SubmitCommit, TypeOK
    <3>2. Stored' = Stored \cup {i}
      BY <3>1 DEF Stored
    <3>3. \A j \in Stored : p # Nobody => response[j].who # p
      BY <2>1 DEF SubmitCommit, Duplicate, KeyInv, Key
    <3>4. i \notin Stored
      BY <2>1 DEF SubmitCommit
    <3>5. \A j \in Stored : response'[j] = response[j]
      BY <3>1, <3>4 DEF Stored
    <3>6. \A j \in Stored' :
            response'[j].key = Key(response'[j].who, response'[j].named)
      BY <3>1, <3>2, <3>5 DEF KeyInv
    <3>7. \A j, k \in Stored' :
            response'[j].who = response'[k].who /\ response'[j].who # Nobody => j = k
      BY <3>1, <3>2, <3>3, <3>5 DEF KeyInv, OnePerParticipant
    <3> QED BY <3>6, <3>7 DEF KeyInv, OnePerParticipant, Key
  <2>2. ASSUME NEW i \in Responses, DeleteResponse(i) PROVE KeyInv'
    BY <2>2 DEF DeleteResponse, KeyInv, OnePerParticipant, Stored, NoResponse,
                Key, TypeOK
  <2>3. ASSUME NEW e \in Edits, EditWrite(e) PROVE KeyInv'
    BY <2>3, KeyInvFrame DEF EditWrite, TypeOK, Response
  <2>4. ASSUME NEW a \in Saves, SaveWrite(a) PROVE KeyInv'
    BY <2>4, KeyInvFrame DEF SaveWrite, TypeOK, Response
  <2>5. CASE UNCHANGED response
    BY <2>5, KeyInvFrame
  <2> QED
    BY <2>1, <2>2, <2>3, <2>4, <2>5
    DEF Next, vars, SaveBegin, Tick, SubmitBegin, SubmitStep, SubmitDedup,
        SubmitLoad, SubmitCreate, SubmitMark, SubmitDuplicate, EditBegin
<1>3. KeyInv => OnePerParticipant
  BY DEF KeyInv
<1> QED BY <1>1, <1>2, <1>3, TypeCorrect, PTL DEF Spec

-----------------------------------------------------------------------------

\* The strengthening that makes NoneOutdated inductive: a survey with a stored
\* response is marked unless its mark was taken back, so an edit that passed the
\* check saw no other.
FrozenInv ==
  /\ \A i \in Stored : survey.hasResponses \/ response[i].unmarked
  /\ \A e \in Edits : \A i \in edit[e].seen : i \in Stored /\ response[i].unmarked
  /\ NoneOutdated

\* No edit that began after a response was stored changes its questions, unless
\* an overlapping save took back the mark.
THEOREM NoneOutdatedHolds == Spec => []NoneOutdated
<1>1. Init => FrozenInv
  BY DEF Init, FrozenInv, NoneOutdated, Stored, NoResponse, NoEdit
<1>2. TypeOK /\ LatchInv /\ FrozenInv /\ [Next]_vars => FrozenInv'
  <2> SUFFICES ASSUME TypeOK, LatchInv, FrozenInv, [Next]_vars PROVE FrozenInv'
    OBVIOUS
  <2>0. \A e \in Edits : edit[e].seen \subseteq Responses
    BY DEF TypeOK, Edit
  <2>1. ASSUME NEW a \in Saves, SaveWrite(a) PROVE FrozenInv'
    <3>1. survey' = save[a].row
      BY <2>1 DEF SaveWrite
    <3>2. \A i \in Responses :
            /\ response'[i].live = response[i].live
            /\ response'[i].outdated = response[i].outdated
            /\ response[i].unmarked => response'[i].unmarked
            /\ response[i].live => survey'.hasResponses \/ response'[i].unmarked
      BY <2>1, <3>1 DEF SaveWrite, TypeOK, Response, Stored
    <3>3. edit' = edit
      BY <2>1 DEF SaveWrite
    <3> QED BY <2>0, <3>2, <3>3 DEF FrozenInv, NoneOutdated, Stored
  <2>2. ASSUME NEW t \in Submits, NEW i \in Responses, SubmitCommit(t, i)
        PROVE  FrozenInv'
    <3>1. /\ ~response'[i].outdated
          /\ response'[i].unmarked = (~submit[t].marking /\ ~survey.hasResponses)
          /\ \A j \in Responses \ {i} : response'[j] = response[j]
      BY <2>2 DEF SubmitCommit, TypeOK
    <3>2. survey'.hasResponses = (submit[t].marking \/ survey.hasResponses)
      BY <2>2 DEF SubmitCommit, LatchInv, TypeOK, Survey, Submit
    <3>3. i \notin Stored /\ edit' = edit
      BY <2>2 DEF SubmitCommit
    <3>4. Stored' = Stored \cup {i}
      BY <2>2, <3>1 DEF SubmitCommit, Stored, TypeOK
    <3>5. \A j \in Stored : response'[j] = response[j]
      BY <3>1, <3>3 DEF Stored
    <3>6. \A j \in Stored' : survey'.hasResponses \/ response'[j].unmarked
      BY <3>1, <3>2, <3>4, <3>5 DEF FrozenInv
    <3>7. \A e \in Edits : \A j \in edit'[e].seen : j \in Stored' /\ response'[j].unmarked
      BY <3>3, <3>4, <3>5 DEF FrozenInv
    <3>8. \A j \in Stored' : response'[j].outdated => response'[j].unmarked
      BY <3>1, <3>4, <3>5 DEF FrozenInv, NoneOutdated
    <3> QED BY <3>6, <3>7, <3>8 DEF FrozenInv, NoneOutdated
  <2>3. ASSUME NEW i \in Responses, DeleteResponse(i) PROVE FrozenInv'
    <3>1. Stored' = Stored \ {i} /\ survey' = survey
      BY <2>3 DEF DeleteResponse, Stored, NoResponse, TypeOK
    <3>2. \A j \in Responses \ {i} : response'[j] = response[j]
      BY <2>3 DEF DeleteResponse, TypeOK
    <3>3. \A e \in Edits : edit'[e].seen = edit[e].seen \ {i}
      BY <2>3 DEF DeleteResponse, TypeOK, Edit
    <3>4. Stored' \subseteq Responses \ {i} /\ Stored' \subseteq Stored
      BY <3>1 DEF Stored
    <3>5. \A j \in Stored' : survey'.hasResponses \/ response'[j].unmarked
      BY <3>1, <3>2, <3>4 DEF FrozenInv
    <3>6. \A e \in Edits : \A j \in edit'[e].seen : j \in Stored' /\ response'[j].unmarked
      BY <2>0, <3>1, <3>2, <3>3 DEF FrozenInv
    <3>7. \A j \in Stored' : response'[j].outdated => response'[j].unmarked
      BY <3>2, <3>4 DEF FrozenInv, NoneOutdated
    <3> QED BY <3>5, <3>6, <3>7 DEF FrozenInv, NoneOutdated
  <2>4. ASSUME NEW e \in Edits, EditBegin(e) PROVE FrozenInv'
    <3>1. \A i \in Stored : response[i].unmarked
      BY <2>4 DEF EditBegin, IsStarted, FrozenInv
    <3>2. \A f \in Edits : edit'[f].seen = edit[f].seen \/ edit'[f].seen = Stored
      BY <2>4 DEF EditBegin, TypeOK
    <3> QED BY <2>4, <3>1, <3>2 DEF EditBegin, FrozenInv, NoneOutdated, Stored
  <2>5. ASSUME NEW e \in Edits, EditWrite(e) PROVE FrozenInv'
    <3>1. \A i \in Responses :
            /\ response'[i].live = response[i].live
            /\ response'[i].unmarked = response[i].unmarked
            /\ response'[i].outdated => response[i].outdated \/ i \in edit[e].seen
      BY <2>5 DEF EditWrite, TypeOK, Response
    <3>2. Stored' = Stored /\ survey' = survey
      BY <2>5, <3>1 DEF EditWrite, Stored
    <3>3. \A f \in Edits : edit'[f].seen \subseteq edit[f].seen
      BY <2>5 DEF EditWrite, NoEdit, TypeOK
    <3> QED BY <2>0, <3>1, <3>2, <3>3 DEF FrozenInv, NoneOutdated, Stored
  <2>6. CASE UNCHANGED <<survey, response, edit>>
    BY <2>6 DEF FrozenInv, NoneOutdated, Stored
  <2> QED
    BY <2>1, <2>2, <2>3, <2>4, <2>5, <2>6
    DEF Next, vars, SaveBegin, Tick, SubmitBegin, SubmitStep, SubmitDedup,
        SubmitLoad, SubmitCreate, SubmitMark, SubmitDuplicate
<1>3. FrozenInv => NoneOutdated
  BY DEF FrozenInv
<1> QED BY <1>1, <1>2, <1>3, TypeCorrect, LatchInvHolds, PTL DEF Spec

-----------------------------------------------------------------------------
(* The seed (Seed), for any number of triggers and of troubles.  What the  *)
(* order of the registry promises is carried along each run: everything    *)
(* ensured before its place is there.                                      *)

PlaceOf(run) == <<run.i, run.j>>

Makes(run) == run.st = "running" /\ At(PlaceOf(run)).kind \in Creating

AllEnsured == {At(q).key : q \in {q \in Place : At(q).kind \in Creating}}

\* A run stands at a place of the plan and within its operation; before it starts it is new.
RunsFit ==
  \A r \in Triggers :
    /\ runs[r].st = "idle" => /\ runs[r].i = 1 /\ runs[r].j = 1 /\ runs[r].at = 0 /\ runs[r].clean
    /\ runs[r].st = "running" =>
         LET op == At(PlaceOf(runs[r])) IN
         /\ PlaceOf(runs[r]) \in Place
         /\ op.kind \in Creating => runs[r].at \in 0..Len(op.list)
         /\ op.kind = "heal" => runs[r].at \in {0, 1}
         /\ op.kind \in {"require", "skip"} => runs[r].at = 0

\* What is ensured before the place of a run is there.
Reached ==
  \A r \in Triggers :
    /\ runs[r].st = "running" => Ensured(PlaceOf(runs[r])) \subseteq rows
    /\ runs[r].st = "done" => AllEnsured \subseteq rows

\* Without an overlap at most one run is active.
Alone ==
  ~overlapped =>
    \A r, q \in Triggers : runs[r].st = "running" /\ runs[q].st = "running" => r = q

\* The rows of a group that a run has passed are there; the others are not, but for
\* what a cut left behind and what others leave.
Written ==
  \A r \in Triggers : Makes(runs[r]) =>
    LET op == At(PlaceOf(runs[r])) IN
    \A m \in 1..Len(op.list) :
      /\ m < runs[r].at => op.list[m] \in rows
      /\ ~overlapped /\ runs[r].at > 0 /\ m >= runs[r].at /\ op.list[m] \in rows =>
           op.list[m] \in Outside \/ (op.key \in torn /\ op.list[m] # op.key)

\* A run is in the midst of the operation, with the row behind it.
Amid(run, op, k) ==
  /\ Makes(run) /\ At(PlaceOf(run)) = op
  /\ \E m \in 1..Len(op.list) : m < run.at /\ op.list[m] = k

\* A row of a group is there without its key only in the midst of its creation, or torn.
Partial ==
  ~overlapped =>
    \A op \in Ops : op.kind \in Creating => \A k \in Range(op.list) \cap rows :
      \/ k \in Outside \/ op.key \in rows \cup torn
      \/ \E r \in Triggers :
           Amid(runs[r], At(PlaceOf(runs[r])), k) /\ At(PlaceOf(runs[r])).key = op.key

\* A key is there without its group only in the midst of its creation, or torn.
Whole ==
  \A op \in Ops : op.kind \in Creating /\ op.key \in rows =>
    \/ Range(op.list) \subseteq rows \/ op.key \in torn
    \/ \E r \in Triggers : Amid(runs[r], op, op.key)

\* What a run has healed stays healed.
Healed ==
  ~overlapped =>
    \A r \in Triggers : runs[r].clean =>
      \A q \in Place :
        At(q).kind = "heal"
        /\ (runs[r].st = "done" \/ (runs[r].st = "running" /\ Earlier(q, PlaceOf(runs[r]))))
          => At(q).values \subseteq fields[At(q).field]

\* What a run has read of a field, and writes back, is what it holds.
ReadIsFresh ==
  ~overlapped =>
    \A r \in Triggers :
      runs[r].st = "running" /\ runs[r].clean /\ At(PlaceOf(runs[r])).kind = "heal" /\ runs[r].at = 1 =>
        runs[r].seen = fields[At(PlaceOf(runs[r])).field]

\* An edit after a run is through comes before the next one, or is seen by both.
CleanTogether ==
  ~overlapped =>
    \A r, q \in Triggers :
      runs[r].st = "done" /\ runs[r].clean /\ runs[q].st = "running" => runs[q].clean

SeedInv ==
  /\ SeedTypeOK /\ NothingMissing /\ NoTwins
  /\ RunsFit /\ Reached /\ Alone /\ Written /\ Partial /\ Whole
  /\ Healed /\ ReadIsFresh /\ CleanTogether

RunRecord ==
  [st : {"idle", "running", "done", "missing", "refused", "cut"},
   i : 1..Len(seedSteps), j : Nat \ {0}, at : Nat, seen : SUBSET Value, clean : BOOLEAN]

\* The places of the plan are its steps' operations (seedSteps).
LEMMA PlacesAre ==
  /\ Len(seedSteps) \in Nat \ {0}
  /\ \A i \in 1..Len(seedSteps) :
       seedSteps[i] \in Seq(Operation) /\ Len(seedSteps[i]) \in Nat \ {0}
  /\ \A i, j : <<i, j>> \in Place <=> i \in 1..Len(seedSteps) /\ j \in 1..Len(seedSteps[i])
  /\ \A p \in Place : p = <<p[1], p[2]>> /\ p[1] \in Nat /\ p[2] \in Nat
<1>1. seedSteps \in Seq(Seq(Operation) \ {<<>>}) /\ seedSteps # <<>>
  BY PlanAssumption DEF PlanFits
<1>2. Len(seedSteps) \in Nat /\ DOMAIN seedSteps = 1..Len(seedSteps) /\ Len(seedSteps) # 0
      /\ \A i \in 1..Len(seedSteps) : seedSteps[i] \in Seq(Operation) \ {<<>>}
  BY <1>1, EmptySeq, LenProperties
<1>3. ASSUME NEW i \in 1..Len(seedSteps)
      PROVE  /\ seedSteps[i] \in Seq(Operation) /\ Len(seedSteps[i]) \in Nat \ {0}
             /\ DOMAIN seedSteps[i] = 1..Len(seedSteps[i])
  BY <1>2, EmptySeq, LenProperties
<1>4. \A p : p \in Place <=> \E i \in 1..Len(seedSteps) : p \in {i} \X (1..Len(seedSteps[i]))
  BY <1>2, <1>3 DEF Place
<1>5. \A i, j : <<i, j>> \in Place <=> i \in 1..Len(seedSteps) /\ j \in 1..Len(seedSteps[i])
  BY <1>4
<1>6. \A p \in Place : p = <<p[1], p[2]>> /\ p[1] \in Nat /\ p[2] \in Nat
  <2>. TAKE p \in Place
  <2>1. PICK i \in 1..Len(seedSteps) : p \in {i} \X (1..Len(seedSteps[i]))
    BY <1>4
  <2>2. Len(seedSteps[i]) \in Nat
    BY <1>3
  <2>. QED
    BY <1>2, <2>1, <2>2
<1>. QED
  BY <1>2, <1>3, <1>5, <1>6

\* An operation at a place is one of the plan's.
LEMMA OpAt == ASSUME NEW p \in Place PROVE At(p) \in Ops /\ At(p) \in Operation
<1>1. p[1] \in 1..Len(seedSteps) /\ p[2] \in 1..Len(seedSteps[p[1]])
  BY PlacesAre
<1>2. seedSteps[p[1]] \in Seq(Operation)
  BY <1>1, PlacesAre
<1>3. DOMAIN seedSteps = 1..Len(seedSteps) /\ DOMAIN seedSteps[p[1]] = 1..Len(seedSteps[p[1]])
  BY <1>1, <1>2, LenProperties, PlanAssumption DEF PlanFits
<1>4. At(p) \in Range(seedSteps[p[1]])
  BY <1>1, <1>3 DEF At, Range
<1>5. At(p) \in Ops
  BY <1>1, <1>3, <1>4 DEF Ops
<1>6. At(p) \in Operation
  BY <1>1, <1>2, <1>3, ElementOfSeq DEF At
<1>. QED
  BY <1>5, <1>6

\* And every operation of the plan has a place.
LEMMA PlaceOfOp == ASSUME NEW op \in Ops PROVE \E p \in Place : op = At(p)
<1>1. PICK i \in DOMAIN seedSteps : op \in Range(seedSteps[i])
  BY DEF Ops
<1>2. PICK j \in DOMAIN seedSteps[i] : op = seedSteps[i][j]
  BY <1>1 DEF Range
<1>3. <<i, j>> \in Place
  BY <1>1, <1>2 DEF Place
<1>4. At(<<i, j>>) = op
  BY <1>2 DEF At
<1>. QED
  BY <1>3, <1>4

\* What the plan says of one operation.
LEMMA OpFits ==
  ASSUME NEW op \in Ops
  PROVE  /\ op \in Operation /\ op.list \in Seq(STRING) /\ Len(op.list) \in Nat
         /\ DOMAIN op.list = 1..Len(op.list)
         /\ \A k : k \in Range(op.list) <=> \E m \in 1..Len(op.list) : op.list[m] = k
         /\ Range(op.list) \subseteq SeedRow /\ op.values \subseteq Value
         /\ op.kind \in Creating =>
              /\ op.key \in Range(op.list)
              /\ \A m, n \in 1..Len(op.list) : op.list[m] = op.list[n] => m = n
         /\ op.kind \notin Creating => op.list = <<>> /\ Range(op.list) = {}
         /\ op.kind = "heal" =>
              op.key \notin Outside /\ op.field \in Field /\ op.key \in AllEnsured
<1>1. PICK p \in Place : op = At(p)
  BY PlaceOfOp
<1>2. op \in Operation /\ op.list \in Seq(STRING) /\ Len(op.list) \in Nat
      /\ DOMAIN op.list = 1..Len(op.list)
  BY <1>1, OpAt, LenProperties DEF Operation
<1>3. \A k : k \in Range(op.list) <=> \E m \in 1..Len(op.list) : op.list[m] = k
  BY <1>2 DEF Range
<1>4. Range(op.list) \subseteq SeedRow /\ op.values \subseteq Value
  BY DEF SeedRow, Value
<1>5. /\ op.kind \in Creating => op.key \in Range(op.list) /\ IsInjective(op.list)
      /\ op.kind \notin Creating => op.list = <<>>
      /\ op.kind = "heal" => op.key \in Ensured(p) \ Outside /\ op.field # "none"
  BY <1>1, PlanAssumption DEF PlanFits
<1>6. op.kind \in Creating => \A m, n \in 1..Len(op.list) : op.list[m] = op.list[n] => m = n
  BY <1>2, <1>5 DEF IsInjective
<1>7. op.kind \notin Creating => Range(op.list) = {}
  BY <1>5, EmptySeq DEF Range
<1>8. op.kind = "heal" => op.field \in Field /\ op.key \in AllEnsured
  BY <1>5 DEF Field, Ensured, AllEnsured
<1>. QED
  BY <1>2, <1>3, <1>4, <1>5, <1>6, <1>7, <1>8

\* A row belongs to one group, and two operations on one field agree.
LEMMA OpsAgree ==
  ASSUME NEW o \in Ops, NEW p \in Ops
  PROVE  /\ \A k : k \in Range(o.list) /\ k \in Range(p.list) =>
              o.key = p.key /\ o.list = p.list /\ (Len(o.list) > 1 => o = p)
         /\ o.kind = "heal" /\ p.kind = "heal" /\ o.field = p.field =>
              o.key = p.key /\ (o.field \in Lists \/ o.values = p.values)
BY PlanAssumption DEF PlanFits

\* A run that goes elsewhere in the plan (runSeed).
Going(run, i, j) == [run EXCEPT !.i = i, !.j = j, !.at = 0, !.seen = {}]

\* Going on keeps a run's record one of a run.
LEMMA RunGoes ==
  ASSUME NEW run \in RunRecord, NEW i \in 1..Len(seedSteps), NEW j \in Nat \ {0}
  PROVE  /\ Going(run, i, j) \in RunRecord /\ Going(run, i, j).st = run.st
         /\ Going(run, i, j).i = i /\ Going(run, i, j).j = j
         /\ Going(run, i, j).at = 0 /\ Going(run, i, j).clean = run.clean
<1>1. {} \in SUBSET Value /\ 0 \in Nat
  OBVIOUS
<1>. QED
  BY <1>1 DEF RunRecord, Going

\* So does coming to the end of the plan.
LEMMA RunEnds ==
  ASSUME NEW run \in RunRecord, NEW y, y = [run EXCEPT !.st = "done", !.at = 0, !.seen = {}]
  PROVE  y \in RunRecord /\ y.st = "done" /\ y.at = 0 /\ y.clean = run.clean
<1>1. {} \in SUBSET Value /\ 0 \in Nat
  OBVIOUS
<1>. QED
  BY <1>1 DEF RunRecord

\* Where a run is after an operation: at the next place of the plan, or through (runSeed).
LEMMA NextPlace ==
  ASSUME NEW run \in RunRecord, run.st = "running", PlaceOf(run) \in Place
  PROVE  /\ NextOp(run) \in RunRecord /\ NextOp(run).clean = run.clean /\ NextOp(run).at = 0
         /\ \/ /\ NextOp(run).st = "running" /\ PlaceOf(NextOp(run)) \in Place
               /\ \A q \in Place :
                    Earlier(q, PlaceOf(NextOp(run))) <=> Earlier(q, PlaceOf(run)) \/ q = PlaceOf(run)
            \/ /\ NextOp(run).st = "done"
               /\ \A q \in Place : Earlier(q, PlaceOf(run)) \/ q = PlaceOf(run)
<1>. DEFINE n == Len(seedSteps)
            len(i) == Len(seedSteps[i])
            x == NextOp(run)
<1>1. /\ n \in Nat /\ n > 0 /\ run.i \in 1..n /\ run.j \in 1..len(run.i) /\ len(run.i) \in Nat
      /\ \A i \in 1..n : len(i) \in Nat /\ len(i) > 0
  BY PlacesAre DEF PlaceOf
<1>2. \A q \in Place : q = <<q[1], q[2]>> /\ q[1] \in 1..n /\ q[2] \in 1..len(q[1])
                       /\ q[2] \in Nat
  BY PlacesAre
<1>3. \A q : Earlier(q, PlaceOf(run)) <=> q[1] < run.i \/ (q[1] = run.i /\ q[2] < run.j)
  BY DEF Earlier, PlaceOf
<1>4. \A i, j : <<i, j>> \in Place <=> i \in 1..n /\ j \in 1..len(i)
  BY PlacesAre
<1>5. CASE run.j < len(run.i)
  <2>1. x = Going(run, run.i, run.j + 1)
    BY <1>5 DEF NextOp, RunRecord, Going
  <2>2. x \in RunRecord /\ x.clean = run.clean /\ x.at = 0 /\ x.st = "running"
        /\ x.i = run.i /\ x.j = run.j + 1
    <3>1. run.i \in 1..Len(seedSteps) /\ run.j + 1 \in Nat \ {0}
      BY <1>1
    <3>. HIDE DEF x
    <3>. QED
      BY <2>1, <3>1, RunGoes
  <2>. HIDE DEF x
  <2>3. PlaceOf(x) \in Place
    <3>. HIDE DEF n, len
    <3>. QED
      BY <1>1, <1>4, <1>5, <2>2 DEF PlaceOf
  <2>4. ASSUME NEW q \in Place
        PROVE  Earlier(q, PlaceOf(x)) <=> Earlier(q, PlaceOf(run)) \/ q = PlaceOf(run)
    <3>1. Earlier(q, PlaceOf(x)) <=> q[1] < run.i \/ (q[1] = run.i /\ q[2] < run.j + 1)
      BY <2>2 DEF Earlier, PlaceOf
    <3>2. q = PlaceOf(run) <=> q[1] = run.i /\ q[2] = run.j
      BY <1>2 DEF PlaceOf
    <3>3. q[2] \in Nat /\ run.j \in Nat
      BY <1>1, <1>2
    <3>. QED
      BY <1>3, <3>1, <3>2, <3>3
  <2>. QED
    BY <2>2, <2>3, <2>4 DEF x
<1>6. CASE run.j = len(run.i) /\ run.i < n
  <2>1. x = Going(run, run.i + 1, 1)
    BY <1>6, <1>1 DEF NextOp, NextStep, Going
  <2>2. x \in RunRecord /\ x.clean = run.clean /\ x.at = 0 /\ x.st = "running"
        /\ x.i = run.i + 1 /\ x.j = 1
    <3>1. run.i + 1 \in 1..Len(seedSteps) /\ 1 \in Nat \ {0}
      BY <1>1, <1>6
    <3>. HIDE DEF x
    <3>. QED
      BY <2>1, <3>1, RunGoes
  <2>. HIDE DEF x
  <2>3. PlaceOf(x) \in Place
    <3>. HIDE DEF n, len
    <3>1. run.i + 1 \in 1..n
      BY <1>1, <1>6
    <3>2. 1 \in 1..len(run.i + 1)
      BY <1>1, <3>1
    <3>. QED
      BY <1>4, <2>2, <3>1, <3>2 DEF PlaceOf
  <2>4. ASSUME NEW q \in Place
        PROVE  Earlier(q, PlaceOf(x)) <=> Earlier(q, PlaceOf(run)) \/ q = PlaceOf(run)
    <3>1. Earlier(q, PlaceOf(x)) <=> q[1] < run.i + 1 \/ (q[1] = run.i + 1 /\ q[2] < 1)
      BY <2>2 DEF Earlier, PlaceOf
    <3>2. q = PlaceOf(run) <=> q[1] = run.i /\ q[2] = run.j
      BY <1>2 DEF PlaceOf
    <3>3. q[1] = run.i => q[2] <= run.j
      BY <1>2, <1>6
    <3>4. q[1] \in Nat /\ q[2] \in Nat /\ q[2] > 0 /\ run.i \in Nat /\ run.j \in Nat
      BY <1>1, <1>2
    <3>. QED
      BY <1>3, <3>1, <3>2, <3>3, <3>4
  <2>. QED
    BY <2>2, <2>3, <2>4 DEF x
<1>7. CASE run.j = len(run.i) /\ run.i = n
  <2>1. x = [run EXCEPT !.st = "done", !.at = 0, !.seen = {}]
    BY <1>7, <1>1 DEF NextOp, NextStep
  <2>2. x \in RunRecord /\ x.clean = run.clean /\ x.at = 0 /\ x.st = "done"
    BY <2>1, RunEnds
  <2>3. ASSUME NEW q \in Place PROVE Earlier(q, PlaceOf(run)) \/ q = PlaceOf(run)
    <3>1. q = PlaceOf(run) <=> q[1] = run.i /\ q[2] = run.j
      BY <1>2 DEF PlaceOf
    <3>2. q[1] \in 1..n /\ (q[1] = run.i => q[2] <= run.j) /\ q[2] \in Nat /\ run.j \in Nat
      BY <1>1, <1>2, <1>7
    <3>. QED
      BY <1>1, <1>3, <1>7, <3>1, <3>2
  <2>. QED
    BY <2>2, <2>3
<1>8. run.j < len(run.i) \/ run.j = len(run.i)
  BY <1>1
<1>9. run.i < n \/ run.i = n
  BY <1>1
<1>. QED
  BY <1>5, <1>6, <1>7, <1>8, <1>9

\* What is ensured before the next place: what was, and the key found or created here.
LEMMA NextEnsured ==
  ASSUME NEW run \in RunRecord, run.st = "running", PlaceOf(run) \in Place, NEW K,
         Ensured(PlaceOf(run)) \subseteq K,
         At(PlaceOf(run)).kind \in Creating => At(PlaceOf(run)).key \in K
  PROVE  /\ NextOp(run).st = "running" => Ensured(PlaceOf(NextOp(run))) \subseteq K
         /\ NextOp(run).st = "done" => AllEnsured \subseteq K
<1>. DEFINE x == NextOp(run)
<1>1. \A q \in Place : Earlier(q, PlaceOf(run)) /\ At(q).kind \in Creating => At(q).key \in K
  BY DEF Ensured
<1>2. x.st = "running" =>
        \A q \in Place : Earlier(q, PlaceOf(x)) => Earlier(q, PlaceOf(run)) \/ q = PlaceOf(run)
  BY NextPlace
<1>3. x.st = "done" => \A q \in Place : Earlier(q, PlaceOf(run)) \/ q = PlaceOf(run)
  BY NextPlace
<1>. HIDE DEF x
<1>4. x.st = "running" => Ensured(PlaceOf(x)) \subseteq K
  BY <1>1, <1>2 DEF Ensured
<1>5. x.st = "done" => AllEnsured \subseteq K
  BY <1>1, <1>3 DEF AllEnsured
<1>. QED
  BY <1>4, <1>5 DEF x

\* The operation a run is at is that of its place.
LEMMA CurrentIs == \A r : Current(r) = At(PlaceOf(runs[r]))
BY DEF Current, At, PlaceOf

\* What the invariant says of an active run: it is at an operation of the plan, whose
\* needs are there.
LEMMA ActiveRun ==
  ASSUME SeedInv, NEW r \in Triggers, Running(r)
  PROVE  /\ runs[r] \in RunRecord /\ runs[r].st = "running" /\ PlaceOf(runs[r]) \in Place
         /\ Current(r) = At(PlaceOf(runs[r])) /\ Current(r) \in Ops
         /\ Ensured(PlaceOf(runs[r])) \subseteq rows /\ Exist(Current(r).needs)
         /\ Current(r).kind = "heal" => Current(r).key \in rows
<1>1. /\ runs[r] \in RunRecord /\ runs[r].st = "running" /\ PlaceOf(runs[r]) \in Place
      /\ Ensured(PlaceOf(runs[r])) \subseteq rows
  BY DEF SeedInv, SeedTypeOK, RunRecord, Running, RunsFit, Reached
<1>2. Current(r) = At(PlaceOf(runs[r])) /\ Current(r) \in Ops
  BY <1>1, CurrentIs, OpAt
<1>3. /\ At(PlaceOf(runs[r])).needs \subseteq Ensured(PlaceOf(runs[r]))
      /\ At(PlaceOf(runs[r])).kind = "heal" =>
           At(PlaceOf(runs[r])).key \in Ensured(PlaceOf(runs[r]))
  BY <1>1, PlanAssumption DEF PlanFits
<1>. QED
  BY <1>1, <1>2, <1>3 DEF Exist

\* The parts of the invariant that are not about fields.
RowsInv ==
  /\ SeedTypeOK /\ NothingMissing /\ NoTwins /\ RunsFit /\ Reached /\ Alone /\ Written
  /\ Partial /\ Whole /\ CleanTogether

\* Going on with the next operation, once the key of this one is there.
LEMMA PassOn ==
  ASSUME SeedInv, NEW r \in Triggers, Running(r),
         Current(r).kind \in Creating => runs[r].at = 0 /\ Current(r).key \in rows,
         SetRun(r, NextOp(runs[r])), fields' \in [Field -> SUBSET Value],
         UNCHANGED <<rows, passwords, trouble, overlapped, torn, twins>>
  PROVE  RowsInv'
<1>. DEFINE run == runs[r]
            x == NextOp(run)
            op == Current(r)
<1>1. /\ run \in RunRecord /\ run.st = "running" /\ PlaceOf(run) \in Place
      /\ op = At(PlaceOf(run)) /\ op \in Ops /\ Ensured(PlaceOf(run)) \subseteq rows
  BY ActiveRun
<1>2. /\ x \in RunRecord /\ x.clean = run.clean /\ x.at = 0
      /\ x.st \in {"running", "done"} /\ (x.st = "running" => PlaceOf(x) \in Place)
      /\ x.st = "running" => Ensured(PlaceOf(x)) \subseteq rows
      /\ x.st = "done" => AllEnsured \subseteq rows
  BY <1>1, NextPlace, NextEnsured
<1>3. runs \in [Triggers -> RunRecord]
  BY DEF SeedInv, SeedTypeOK, RunRecord
<1>4. runs' \in [Triggers -> RunRecord] /\ runs'[r] = x
      /\ \A q \in Triggers : q # r => runs'[q] = runs[q]
  BY <1>2, <1>3 DEF SetRun
<1>5. \A q \in Triggers : \A o, k : Amid(runs[q], o, k) => q # r
  <2>. SUFFICES ASSUME NEW o, NEW k, Amid(run, o, k) PROVE FALSE
    OBVIOUS
  <2>. QED
    BY <1>1 DEF Amid, Makes
<1>. HIDE DEF run, x, op
<1>6. SeedTypeOK'
  BY <1>4 DEF SeedInv, SeedTypeOK, RunRecord
<1>7. NothingMissing' /\ NoTwins'
  BY <1>2, <1>4 DEF SeedInv, NothingMissing, NoTwins
<1>8. RunsFit'
  <2>1. x.st = "running" =>
          /\ At(PlaceOf(x)).kind \in Creating => x.at \in 0..Len(At(PlaceOf(x)).list)
          /\ At(PlaceOf(x)).kind = "heal" => x.at \in {0, 1}
          /\ At(PlaceOf(x)).kind \in {"require", "skip"} => x.at = 0
    BY <1>2, OpAt, OpFits
  <2>. QED
    BY <1>2, <1>4, <2>1 DEF SeedInv, RunsFit
<1>9. Reached'
  BY <1>2, <1>4 DEF SeedInv, Reached
<1>10. Alone'
  BY <1>1, <1>4 DEF SeedInv, Alone, run
<1>11. Written'
  BY <1>2, <1>4, OpAt, OpFits DEF SeedInv, Written, Makes
<1>12. Partial'
  BY <1>4, <1>5 DEF SeedInv, Partial
<1>13. Whole'
  BY <1>4, <1>5 DEF SeedInv, Whole
<1>14. CleanTogether'
  <2>. SUFFICES ASSUME ~overlapped, NEW p \in Triggers, NEW q \in Triggers,
                       runs'[p].st = "done", runs'[p].clean, runs'[q].st = "running"
                PROVE  runs'[q].clean
    BY DEF CleanTogether
  <2>1. CASE p # r
    BY <1>1, <1>2, <1>4, <2>1 DEF SeedInv, CleanTogether, run
  <2>2. CASE p = r
    <3>1. q # r
      BY <2>2
    <3>2. runs[q].st = "running" /\ runs[r].st = "running"
      BY <1>1, <1>4, <3>1 DEF run
    <3>. QED
      BY <3>1, <3>2 DEF SeedInv, Alone
  <2>. QED
    BY <2>1, <2>2
<1>. QED
  BY <1>6, <1>7, <1>8, <1>9, <1>10, <1>11, <1>12, <1>13, <1>14 DEF RowsInv

\* Going on keeps what has been healed, when this operation's field is healed.
LEMMA PassOnHeals ==
  ASSUME SeedInv, NEW r \in Triggers, Running(r),
         Current(r).kind = "heal" =>
           (~overlapped /\ runs[r].clean => Current(r).values \subseteq fields'[Current(r).field]),
         SetRun(r, NextOp(runs[r])), UNCHANGED overlapped,
         ~overlapped => \A q \in Triggers : runs[q].clean /\ runs[q].st \in {"done", "running"} =>
           \A p \in Place : At(p).kind = "heal"
             /\ At(p).values \subseteq fields[At(p).field] => At(p).values \subseteq fields'[At(p).field]
  PROVE  Healed' /\ ReadIsFresh'
<1>. DEFINE run == runs[r]
            x == NextOp(run)
            op == Current(r)
<1>1. /\ run \in RunRecord /\ run.st = "running" /\ PlaceOf(run) \in Place /\ op = At(PlaceOf(run))
  BY ActiveRun
<1>2. /\ x.clean = run.clean /\ x.at = 0
      /\ x.st = "running" => \A q \in Place :
           Earlier(q, PlaceOf(x)) => Earlier(q, PlaceOf(run)) \/ q = PlaceOf(run)
      /\ x.st = "done" => \A q \in Place : Earlier(q, PlaceOf(run)) \/ q = PlaceOf(run)
  BY <1>1, NextPlace
<1>3. runs'[r] = x /\ \A q \in Triggers : q # r => runs'[q] = runs[q]
  BY DEF SetRun, SeedInv, SeedTypeOK
<1>4. ASSUME ~overlapped, NEW q \in Triggers, runs'[q].clean, NEW p \in Place, At(p).kind = "heal",
             runs'[q].st = "done" \/ (runs'[q].st = "running" /\ Earlier(p, PlaceOf(runs'[q])))
      PROVE  At(p).values \subseteq fields'[At(p).field]
  <2>1. CASE q # r
    <3>1. runs'[q] = runs[q]
      BY <1>3, <2>1
    <3>2. At(p).values \subseteq fields[At(p).field]
      BY <1>4, <3>1 DEF SeedInv, Healed
    <3>. QED
      BY <1>4, <3>1, <3>2
  <2>2. CASE q = r
    <3>1. run.clean /\ (Earlier(p, PlaceOf(run)) \/ p = PlaceOf(run))
      BY <1>2, <1>3, <1>4, <2>2
    <3>2. CASE p = PlaceOf(run)
      BY <1>1, <1>4, <3>1, <3>2
    <3>3. CASE Earlier(p, PlaceOf(run))
      <4>1. At(p).values \subseteq fields[At(p).field]
        BY <1>1, <1>4, <3>1, <3>3 DEF SeedInv, Healed
      <4>. QED
        BY <1>1, <1>4, <3>1, <4>1
    <3>. QED
      BY <3>1, <3>2, <3>3
  <2>. QED
    BY <2>1, <2>2
<1>5. Healed'
  BY <1>4 DEF Healed
<1>6. ASSUME ~overlapped, NEW q \in Triggers, runs'[q].st = "running", runs'[q].at = 1 PROVE FALSE
  <2>1. q # r
    BY <1>2, <1>3, <1>6
  <2>2. runs[q].st = "running" /\ runs[r].st = "running"
    BY <1>1, <1>3, <1>6, <2>1
  <2>. QED
    BY <1>6, <2>1, <2>2 DEF SeedInv, Alone
<1>7. ReadIsFresh'
  BY <1>6 DEF ReadIsFresh
<1>. QED
  BY <1>5, <1>7

\* A run that stops short leaves its group torn, if it has begun it.
LEMMA StopKeeps ==
  ASSUME SeedInv, NEW r \in Triggers, Running(r), NEW st \in {"cut", "refused"}, Stop(r, st),
         torn' = torn \cup Tears(r) \/ (UNCHANGED torn /\ runs[r].at = 0), trouble' \in 0..MaxTrouble,
         UNCHANGED <<rows, fields, passwords, overlapped, twins>>
  PROVE  SeedInv'
<1>. DEFINE run == runs[r]
            x == [run EXCEPT !.st = st]
            op == Current(r)
<1>1. /\ run \in RunRecord /\ run.st = "running" /\ PlaceOf(run) \in Place
      /\ op = At(PlaceOf(run)) /\ op \in Ops
  BY ActiveRun
<1>2. x \in RunRecord /\ x.clean = run.clean /\ x.st = st
  BY <1>1 DEF RunRecord
<1>3. runs \in [Triggers -> RunRecord] /\ torn \subseteq SeedRow \cup Outside
  BY DEF SeedInv, SeedTypeOK, RunRecord
<1>4. runs' \in [Triggers -> RunRecord] /\ runs'[r] = x
      /\ \A q \in Triggers : q # r => runs'[q] = runs[q]
  BY <1>2, <1>3 DEF Stop, SetRun
<1>5. \A o, k : Amid(run, o, k) => o = op /\ op.kind \in Creating /\ run.at > 1
  <2>. SUFFICES ASSUME NEW o, NEW k, Amid(run, o, k)
                PROVE  o = op /\ op.kind \in Creating /\ run.at > 1
    OBVIOUS
  <2>1. o = op /\ op.kind \in Creating
    BY <1>1 DEF Amid, Makes
  <2>2. PICK m \in 1..Len(op.list) : m < run.at
    BY <2>1 DEF Amid
  <2>3. run.at \in Nat
    BY <1>1 DEF RunRecord
  <2>. QED
    BY <1>1, <2>1, <2>2, <2>3, OpFits
<1>6. torn \subseteq torn' /\ torn' \subseteq torn \cup {op.key}
      /\ (run.at > 1 => op.key \in torn')
      /\ (run.at > 1 => op.kind \in Creating)
  <2>1. run.at > 1 => op.kind \in Creating
    <3>1. /\ op.kind \in Creating \cup {"require", "skip", "heal"}
          /\ op.kind = "heal" => run.at \in {0, 1}
          /\ op.kind \in {"require", "skip"} => run.at = 0
      BY <1>1, OpFits DEF SeedInv, RunsFit, Operation
    <3>. QED
      BY <3>1
  <2>. QED
    BY <2>1 DEF Tears
<1>7. torn' \subseteq SeedRow \cup Outside
  <2>1. CASE run.at > 1
    BY <1>1, <1>3, <1>6, <2>1, OpFits
  <2>2. CASE ~(run.at > 1)
    BY <1>3, <2>2 DEF Tears
  <2>. QED
    BY <2>1, <2>2
<1>. HIDE DEF run, x, op
<1>8. SeedTypeOK'
  BY <1>4, <1>7 DEF SeedInv, SeedTypeOK, RunRecord
<1>9. NothingMissing'
  BY <1>2, <1>4 DEF SeedInv, NothingMissing
<1>10. NoTwins'
  BY <1>6 DEF SeedInv, NoTwins
<1>11. RunsFit' /\ Reached' /\ Alone'
  BY <1>2, <1>4 DEF SeedInv, RunsFit, Reached, Alone
<1>12. Written'
  BY <1>2, <1>4, <1>6 DEF SeedInv, Written, Makes
<1>13. Partial'
  <2>. SUFFICES ASSUME ~overlapped, NEW o \in Ops, o.kind \in Creating, NEW k \in Range(o.list) \cap rows
                PROVE  \/ k \in Outside \/ o.key \in rows \cup torn'
                       \/ \E q \in Triggers :
                            Amid(runs'[q], At(PlaceOf(runs'[q])), k) /\ At(PlaceOf(runs'[q])).key = o.key
    BY DEF Partial
  <2>1. CASE k \in Outside \/ o.key \in rows \cup torn
    BY <1>6, <2>1
  <2>2. ASSUME NEW q \in Triggers,
               Amid(runs[q], At(PlaceOf(runs[q])), k), At(PlaceOf(runs[q])).key = o.key
        PROVE  o.key \in torn' \/ q # r
    BY <1>1, <1>5, <1>6, <2>2 DEF run
  <2>3. \/ k \in Outside \/ o.key \in rows \cup torn
        \/ \E q \in Triggers :
             Amid(runs[q], At(PlaceOf(runs[q])), k) /\ At(PlaceOf(runs[q])).key = o.key
    BY DEF SeedInv, Partial
  <2>. QED
    BY <1>4, <2>1, <2>2, <2>3
<1>14. Whole'
  <2>. SUFFICES ASSUME NEW o \in Ops, o.kind \in Creating, o.key \in rows
                PROVE  \/ Range(o.list) \subseteq rows \/ o.key \in torn'
                       \/ \E q \in Triggers : Amid(runs'[q], o, o.key)
    BY DEF Whole
  <2>1. \/ Range(o.list) \subseteq rows \/ o.key \in torn
        \/ \E q \in Triggers : Amid(runs[q], o, o.key)
    BY DEF SeedInv, Whole
  <2>2. ASSUME NEW q \in Triggers, Amid(runs[q], o, o.key)
        PROVE  o.key \in torn' \/ q # r
    BY <1>5, <1>6, <2>2 DEF run
  <2>. QED
    BY <1>4, <1>6, <2>1, <2>2
<1>15. CleanTogether' /\ Healed' /\ ReadIsFresh'
  BY <1>2, <1>4 DEF SeedInv, CleanTogether, Healed, ReadIsFresh
<1>. QED
  BY <1>8, <1>9, <1>10, <1>11, <1>12, <1>13, <1>14, <1>15 DEF SeedInv

\* The first call of a run keeps the invariant: nothing comes before the first place.
LEMMA StartKeeps ==
  ASSUME SeedInv, NEW r \in Triggers, SeedStart(r) \/ SeedOverlap(r)
  PROVE  SeedInv'
<1>. DEFINE run == runs[r]
            x == [run EXCEPT !.st = "running"]
<1>1. /\ run \in RunRecord /\ run.st = "idle" /\ run.i = 1 /\ run.j = 1 /\ run.at = 0 /\ run.clean
      /\ runs \in [Triggers -> RunRecord] /\ trouble \in 0..MaxTrouble /\ MaxTrouble \in Nat
      /\ overlapped \in BOOLEAN
  BY SeedAssumption DEF SeedInv, SeedTypeOK, RunRecord, RunsFit, SeedStart, SeedOverlap
<1>2. x \in RunRecord /\ x.clean /\ x.st = "running" /\ x.i = 1 /\ x.j = 1 /\ x.at = 0
  BY <1>1 DEF RunRecord
<1>3. /\ runs' = [runs EXCEPT ![r] = x] /\ UNCHANGED <<rows, fields, passwords, torn, twins>>
      /\ trouble' \in 0..MaxTrouble /\ overlapped' \in BOOLEAN /\ (~overlapped' => ~overlapped)
      /\ ~overlapped' => \A q \in Triggers : runs[q].st # "running"
  <2>1. CASE SeedStart(r)
    BY <1>1, <2>1 DEF SeedStart, Stop, SetRun, Running
  <2>2. CASE SeedOverlap(r)
    <3>1. trouble \in Nat /\ trouble > 0 /\ trouble' = trouble - 1 /\ overlapped' = TRUE
          /\ runs' = [runs EXCEPT ![r] = x] /\ UNCHANGED <<rows, fields, passwords, torn, twins>>
      BY <1>1, <2>2 DEF SeedOverlap, Stop, SetRun
    <3>. HIDE DEF x
    <3>2. trouble' \in 0..MaxTrouble
      BY <1>1, <3>1
    <3>. QED
      BY <3>1, <3>2
  <2>. QED
    BY <2>1, <2>2
<1>4. runs' \in [Triggers -> RunRecord] /\ runs'[r] = x
      /\ \A q \in Triggers : q # r => runs'[q] = runs[q]
  BY <1>1, <1>2, <1>3
<1>5. PlaceOf(x) \in Place /\ \A q \in Place : ~Earlier(q, PlaceOf(x))
  <2>1. PlaceOf(x) = <<1, 1>>
    BY <1>2 DEF PlaceOf
  <2>2. <<1, 1>> \in Place
    <3>1. 1 \in 1..Len(seedSteps) /\ 1 \in 1..Len(seedSteps[1])
      <4>1. 1 \in 1..Len(seedSteps)
        BY PlacesAre
      <4>. QED
        BY <4>1, PlacesAre
    <3>. QED
      BY <3>1, PlacesAre
  <2>3. ASSUME NEW q \in Place PROVE ~Earlier(q, <<1, 1>>)
    <3>1. q[1] \in 1..Len(seedSteps) /\ q[2] \in 1..Len(seedSteps[q[1]])
          /\ q[1] \in Nat /\ q[2] \in Nat
      BY PlacesAre
    <3>. QED
      BY <3>1 DEF Earlier
  <2>. QED
    BY <2>1, <2>2, <2>3
<1>6. \A o, k : ~Amid(run, o, k) /\ ~Amid(x, o, k)
  <2>. SUFFICES ASSUME NEW o, NEW k PROVE ~Amid(run, o, k) /\ ~Amid(x, o, k)
    OBVIOUS
  <2>. QED
    BY <1>1, <1>2 DEF Amid, Makes
<1>7. \A o \in Ops : Len(o.list) \in Nat
  BY OpFits
<1>. HIDE DEF run, x
<1>8. SeedTypeOK' /\ NothingMissing' /\ NoTwins'
  BY <1>2, <1>3, <1>4 DEF SeedInv, SeedTypeOK, RunRecord, NothingMissing, NoTwins
<1>9. RunsFit'
  BY <1>2, <1>4, <1>5, <1>7, OpAt DEF SeedInv, RunsFit
<1>10. Reached'
  <2>1. Ensured(PlaceOf(x)) = {}
    BY <1>5 DEF Ensured
  <2>. QED
    BY <1>2, <1>3, <1>4, <2>1 DEF SeedInv, Reached
<1>11. Alone'
  BY <1>3, <1>4 DEF SeedInv, Alone
<1>12. Written'
  <2>1. \A m \in 1..Len(At(PlaceOf(x)).list) : ~(m < 0)
    BY <1>5, <1>7, OpAt
  <2>. QED
    BY <1>2, <1>3, <1>4, <2>1 DEF SeedInv, Written, Makes
<1>13. Partial'
  BY <1>3, <1>4, <1>6 DEF SeedInv, Partial, run
<1>14. Whole'
  BY <1>3, <1>4, <1>6 DEF SeedInv, Whole, run
<1>15. CleanTogether' /\ Healed' /\ ReadIsFresh'
  BY <1>2, <1>3, <1>4, <1>5 DEF SeedInv, CleanTogether, Healed, ReadIsFresh
<1>. QED
  BY <1>8, <1>9, <1>10, <1>11, <1>12, <1>13, <1>14, <1>15 DEF SeedInv

\* The invariant is its part about rows and its part about fields.
LEMMA InvParts == SeedInv <=> RowsInv /\ Healed /\ ReadIsFresh
BY DEF SeedInv, RowsInv

\* What a run relies on is always there, so that it neither throws nor skips a step.
LEMMA CheckKeeps == ASSUME SeedInv, NEW r \in Triggers, Check(r) PROVE SeedInv'
<1>1. Running(r) /\ Current(r).kind \in {"require", "skip"} /\ Exist(Current(r).needs)
  BY ActiveRun DEF Check
<1>2. /\ SetRun(r, NextOp(runs[r]))
      /\ UNCHANGED <<rows, fields, passwords, trouble, overlapped, torn, twins>>
  BY <1>1 DEF Check
<1>3. fields' \in [Field -> SUBSET Value] /\ Current(r).kind \notin Creating
      /\ Current(r).kind # "heal"
  BY <1>1, <1>2 DEF SeedInv, SeedTypeOK, Creating
<1>4. RowsInv'
  BY <1>1, <1>2, <1>3, PassOn
<1>5. Healed' /\ ReadIsFresh'
  BY <1>1, <1>2, <1>3, PassOnHeals
<1>. QED
  BY <1>4, <1>5 DEF SeedInv, RowsInv

\* A run begins a group only if its key is missing, and then what is there of it was torn.
LEMMA BeginKeeps ==
  ASSUME SeedInv, NEW r \in Triggers, Running(r), Current(r).kind \in Creating, runs[r].at = 0,
         Current(r).key \notin rows, SetRun(r, [runs[r] EXCEPT !.at = 1]),
         UNCHANGED <<rows, fields, passwords, trouble, overlapped, torn, twins>>
  PROVE  SeedInv'
<1>. DEFINE run == runs[r]
            x == [run EXCEPT !.at = 1]
            op == Current(r)
<1>1. /\ run \in RunRecord /\ run.st = "running" /\ PlaceOf(run) \in Place
      /\ op = At(PlaceOf(run)) /\ op \in Ops /\ Len(op.list) \in Nat /\ Len(op.list) > 0
  <2>1. op \in Ops /\ op.kind \in Creating
    BY ActiveRun
  <2>2. Len(op.list) \in Nat /\ op.key \in Range(op.list)
        /\ \A k : k \in Range(op.list) <=> \E m \in 1..Len(op.list) : op.list[m] = k
    BY <2>1, OpFits
  <2>3. PICK m \in 1..Len(op.list) : op.list[m] = op.key
    BY <2>2
  <2>4. Len(op.list) > 0
    BY <2>2, <2>3
  <2>. QED
    BY <2>1, <2>2, <2>4, ActiveRun
<1>2. x \in RunRecord /\ x.clean = run.clean /\ x.st = "running" /\ x.at = 1
      /\ PlaceOf(x) = PlaceOf(run)
  BY <1>1 DEF RunRecord, PlaceOf
<1>3. runs \in [Triggers -> RunRecord]
  BY DEF SeedInv, SeedTypeOK, RunRecord
<1>4. runs' \in [Triggers -> RunRecord] /\ runs'[r] = x
      /\ \A q \in Triggers : q # r => runs'[q] = runs[q]
  BY <1>2, <1>3 DEF SetRun
<1>5. \A q \in Triggers : \A o, k : Amid(runs[q], o, k) => q # r
  <2>. SUFFICES ASSUME NEW o, NEW k, Amid(run, o, k) PROVE FALSE
    OBVIOUS
  <2>. QED
    BY <1>1 DEF Amid, Makes
<1>6. op.kind \in Creating /\ op.kind # "heal" /\ op.kind \notin {"require", "skip"}
  BY DEF Creating
<1>. HIDE DEF run, x, op
<1>7. SeedTypeOK' /\ NothingMissing' /\ NoTwins'
  BY <1>2, <1>4 DEF SeedInv, SeedTypeOK, RunRecord, NothingMissing, NoTwins
<1>8. RunsFit' /\ Reached' /\ Alone'
  BY <1>1, <1>2, <1>4, <1>6 DEF SeedInv, RunsFit, Reached, Alone, run
<1>9. ASSUME ~overlapped, NEW m \in 1..Len(op.list), op.list[m] \in rows
      PROVE  op.list[m] \in Outside \/ (op.key \in torn /\ op.list[m] # op.key)
  <2>1. op.list[m] \in Range(op.list) /\ op.list[m] # op.key
    BY <1>1, <1>9, OpFits DEF op
  <2>2. \A q \in Triggers : ~Amid(runs[q], At(PlaceOf(runs[q])), op.list[m])
    BY <1>1, <1>5, <1>9 DEF SeedInv, Alone, Amid, Makes, run
  <2>3. op.list[m] \in Outside \/ op.key \in rows \cup torn
    BY <1>1, <1>6, <1>9, <2>1, <2>2 DEF SeedInv, Partial
  <2>. QED
    BY <2>1, <2>3 DEF op
<1>10. Written'
  <2>. SUFFICES ASSUME NEW q \in Triggers, Makes(runs'[q]),
                       NEW m \in 1..Len(At(PlaceOf(runs'[q])).list)
                PROVE  LET o == At(PlaceOf(runs'[q])) IN
                       /\ m < runs'[q].at => o.list[m] \in rows
                       /\ ~overlapped /\ runs'[q].at > 0 /\ m >= runs'[q].at /\ o.list[m] \in rows =>
                            o.list[m] \in Outside \/ (o.key \in torn /\ o.list[m] # o.key)
    BY DEF Written
  <2>1. CASE q = r
    BY <1>1, <1>2, <1>4, <1>9, <2>1
  <2>2. CASE q # r
    BY <1>4, <2>2 DEF SeedInv, Written
  <2>. QED
    BY <2>1, <2>2
<1>11. Partial' /\ Whole'
  BY <1>4, <1>5 DEF SeedInv, Partial, Whole
<1>12. CleanTogether' /\ Healed' /\ ReadIsFresh'
  BY <1>1, <1>2, <1>4, <1>6 DEF SeedInv, CleanTogether, Healed, ReadIsFresh, run
<1>. QED
  BY <1>7, <1>8, <1>10, <1>11, <1>12 DEF SeedInv

\* Looking a key up keeps the invariant.
LEMMA FindKeeps == ASSUME SeedInv, NEW r \in Triggers, Find(r) PROVE SeedInv'
<1>1. /\ Running(r) /\ Current(r).kind \in Creating /\ runs[r].at = 0 /\ Exist(Current(r).needs)
      /\ UNCHANGED <<rows, fields, passwords, trouble, overlapped, torn, twins>>
      /\ Current(r).kind # "heal" /\ fields' \in [Field -> SUBSET Value]
      /\ trouble' \in 0..MaxTrouble
  BY ActiveRun DEF Find, Creating, SeedInv, SeedTypeOK
<1>2. \/ Current(r).key \in rows /\ SetRun(r, NextOp(runs[r]))
      \/ Stop(r, "refused")
      \/ Current(r).key \notin rows /\ SetRun(r, [runs[r] EXCEPT !.at = 1])
  BY <1>1 DEF Find, Exist, Stop
<1>3. CASE Current(r).key \in rows /\ SetRun(r, NextOp(runs[r]))
  <2>1. RowsInv'
    BY <1>1, <1>3, PassOn
  <2>2. Healed' /\ ReadIsFresh'
    BY <1>1, <1>3, PassOnHeals
  <2>. QED
    BY <2>1, <2>2 DEF SeedInv, RowsInv
<1>4. CASE Stop(r, "refused")
  BY <1>1, <1>4, StopKeeps
<1>5. CASE Current(r).key \notin rows /\ SetRun(r, [runs[r] EXCEPT !.at = 1])
  BY <1>1, <1>5, BeginKeeps
<1>. QED
  BY <1>2, <1>3, <1>4, <1>5

\* Cutting a run off keeps it.
LEMMA CutKeeps == ASSUME SeedInv, NEW r \in Triggers, Cut(r) PROVE SeedInv'
<1>1. trouble \in 0..MaxTrouble /\ MaxTrouble \in Nat
  BY SeedAssumption DEF SeedInv, SeedTypeOK
<1>2. trouble' \in 0..MaxTrouble
  BY <1>1 DEF Cut
<1>. QED
  BY <1>2, StopKeeps DEF Cut

\* What the invariant says of a run that is about to create a row of a group.
LEMMA Creator ==
  ASSUME SeedInv, NEW r \in Triggers, Running(r), Current(r).kind \in Creating, runs[r].at > 0
  PROVE  LET op == Current(r)
             a == runs[r].at
         IN /\ a \in 1..Len(op.list) /\ Len(op.list) \in Nat
            /\ op.list[a] \in Range(op.list) /\ op.key \in Range(op.list)
            /\ Range(op.list) \subseteq SeedRow
            /\ \A n : n \in Range(op.list) <=> \E m \in 1..Len(op.list) : op.list[m] = n
            /\ \A m, n \in 1..Len(op.list) : op.list[m] = op.list[n] => m = n
            /\ \A m \in 1..Len(op.list) : m < a => op.list[m] \in rows
            /\ ~overlapped =>
                 \A m \in 1..Len(op.list) : m >= a /\ op.list[m] \in rows =>
                   op.list[m] \in Outside \/ (op.key \in torn /\ op.list[m] # op.key)
<1>. DEFINE op == Current(r)
            a == runs[r].at
<1>1. /\ runs[r] \in RunRecord /\ runs[r].st = "running" /\ PlaceOf(runs[r]) \in Place
      /\ op = At(PlaceOf(runs[r])) /\ op \in Ops /\ op.kind \in Creating
  BY ActiveRun
<1>2. /\ Len(op.list) \in Nat
      /\ op.key \in Range(op.list) /\ Range(op.list) \subseteq SeedRow
      /\ \A n : n \in Range(op.list) <=> \E m \in 1..Len(op.list) : op.list[m] = n
      /\ \A m, n \in 1..Len(op.list) : op.list[m] = op.list[n] => m = n
  BY <1>1, OpFits
<1>3. a \in 0..Len(op.list)
  BY <1>1 DEF SeedInv, RunsFit
<1>4. a \in 1..Len(op.list)
  BY <1>2, <1>3
<1>5. /\ \A m \in 1..Len(op.list) : m < a => op.list[m] \in rows
      /\ ~overlapped =>
           \A m \in 1..Len(op.list) : m >= a /\ op.list[m] \in rows =>
             op.list[m] \in Outside \/ (op.key \in torn /\ op.list[m] # op.key)
  BY <1>1 DEF SeedInv, Written, Makes
<1>6. op.list[a] \in Range(op.list)
  BY <1>2, <1>4
<1>. QED
  BY <1>2, <1>4, <1>5, <1>6

\* After a row of a group a run is at the next one, or past the group, which is whole then.
LEMMA CreatedGoes ==
  ASSUME SeedInv, NEW r \in Triggers, Running(r), Current(r).kind \in Creating, runs[r].at > 0,
         NEW after, after = rows \cup {Current(r).list[runs[r].at]}
  PROVE  LET x == Created(r)
             op == Current(r)
             run == runs[r]
         IN /\ x \in RunRecord /\ x.clean = run.clean /\ x.st \in {"running", "done"}
            /\ x.st = "running" =>
                 /\ PlaceOf(x) \in Place
                 /\ At(PlaceOf(x)).kind \in Creating => x.at \in 0..Len(At(PlaceOf(x)).list)
                 /\ At(PlaceOf(x)).kind \notin Creating => x.at = 0
            /\ x.st = "running" => Ensured(PlaceOf(x)) \subseteq after
            /\ x.st = "done" => AllEnsured \subseteq after
            /\ x.at = 0 \/ (x.at = run.at + 1 /\ x.st = "running" /\ PlaceOf(x) = PlaceOf(run))
            /\ Range(op.list) \subseteq after
               \/ \A n : Amid(run, op, n) \/ n = op.list[run.at] => Amid(x, op, n)
            /\ \A p \in Place : At(p).kind = "heal"
                 /\ (x.st = "done" \/ (x.st = "running" /\ Earlier(p, PlaceOf(x))))
                   => Earlier(p, PlaceOf(run))
<1>. DEFINE run == runs[r]
            x == Created(r)
            op == Current(r)
            a == run.at
<1>1. /\ run \in RunRecord /\ run.st = "running" /\ PlaceOf(run) \in Place
      /\ op = At(PlaceOf(run)) /\ op \in Ops /\ Ensured(PlaceOf(run)) \subseteq rows
      /\ op.kind \in Creating /\ op.kind # "heal"
  BY ActiveRun DEF Creating
<1>2. /\ a \in 1..Len(op.list) /\ Len(op.list) \in Nat /\ op.key \in Range(op.list)
      /\ \A n : n \in Range(op.list) <=> \E m \in 1..Len(op.list) : op.list[m] = n
      /\ \A m \in 1..Len(op.list) : m < a => op.list[m] \in rows
  BY Creator
<1>3. CASE a < Len(op.list)
  <2>1. x = [run EXCEPT !.at = a + 1]
    BY <1>3 DEF Created
  <2>2. x \in RunRecord /\ x.clean = run.clean /\ x.st = "running" /\ x.at = a + 1
        /\ PlaceOf(x) = PlaceOf(run)
    BY <1>1, <2>1 DEF RunRecord, PlaceOf
  <2>. HIDE DEF x, run, op, a
  <2>3. x.at \in 0..Len(op.list)
    BY <1>2, <1>3, <2>2
  <2>4. ASSUME NEW n, Amid(run, op, n) \/ n = op.list[a] PROVE Amid(x, op, n)
    <3>1. Makes(x) /\ At(PlaceOf(x)) = op
      BY <1>1, <2>2 DEF Makes
    <3>2. \E m \in 1..Len(op.list) : m < x.at /\ op.list[m] = n
      <4>1. CASE n = op.list[a]
        BY <1>2, <2>2, <4>1
      <4>2. CASE Amid(run, op, n)
        <5>1. PICK m \in 1..Len(op.list) : m < a /\ op.list[m] = n
          BY <4>2 DEF Amid, a
        <5>2. m < a + 1
          BY <1>2, <5>1
        <5>. QED
          BY <2>2, <5>1, <5>2
      <4>. QED
        BY <2>4, <4>1, <4>2
    <3>. QED
      BY <3>1, <3>2 DEF Amid
  <2>5. \A p \in Place : Earlier(p, PlaceOf(x)) => Earlier(p, PlaceOf(run))
    BY <2>2
  <2>. QED
    BY <1>1, <2>2, <2>3, <2>4, <2>5 DEF x, run, op, a
<1>4. CASE ~(a < Len(op.list))
  <2>1. x = NextOp(run)
    BY <1>4 DEF Created
  <2>2. a = Len(op.list)
    BY <1>2, <1>4
  <2>3. Range(op.list) \subseteq after
    <3>. SUFFICES ASSUME NEW n \in Range(op.list) PROVE n \in after
      OBVIOUS
    <3>1. PICK m \in 1..Len(op.list) : op.list[m] = n
      BY <1>2
    <3>2. m < a \/ m = a
      BY <1>2, <2>2, <3>1
    <3>. QED
      BY <1>2, <3>1, <3>2
  <2>. HIDE DEF x, run, op, a
  <2>4. /\ x \in RunRecord /\ x.clean = run.clean /\ x.at = 0
        /\ \/ /\ x.st = "running" /\ PlaceOf(x) \in Place
              /\ \A q \in Place :
                   Earlier(q, PlaceOf(x)) <=> Earlier(q, PlaceOf(run)) \/ q = PlaceOf(run)
           \/ /\ x.st = "done"
              /\ \A q \in Place : Earlier(q, PlaceOf(run)) \/ q = PlaceOf(run)
    BY <1>1, <2>1, NextPlace
  <2>5. Ensured(PlaceOf(run)) \subseteq after /\ op.key \in after
    BY <1>1, <1>2, <2>3
  <2>6. /\ x.st = "running" => Ensured(PlaceOf(x)) \subseteq after
        /\ x.st = "done" => AllEnsured \subseteq after
    BY <1>1, <2>1, <2>5, NextEnsured
  <2>7. \A p \in Place : At(p).kind = "heal"
          /\ (x.st = "done" \/ (x.st = "running" /\ Earlier(p, PlaceOf(x))))
            => Earlier(p, PlaceOf(run))
    BY <1>1, <2>4
  <2>8. x.st = "running" /\ At(PlaceOf(x)).kind \in Creating => 0 \in 0..Len(At(PlaceOf(x)).list)
    <3>1. x.st = "running" => PlaceOf(x) \in Place
      BY <2>4
    <3>2. x.st = "running" => Len(At(PlaceOf(x)).list) \in Nat
      BY <3>1, OpAt, OpFits
    <3>. QED
      BY <3>2
  <2>. QED
    BY <2>3, <2>4, <2>6, <2>7, <2>8 DEF x, run, op, a
<1>. QED
  BY <1>3, <1>4

\* What a row is created with has the type of the fields.
LEMMA BornTyped == Born \in [Field -> SUBSET Value]
BY PlanAssumption DEF PlanFits

\* The row of a field that a run has healed is there.
LEMMA HealedRows ==
  ASSUME SeedInv, NEW r \in Triggers, NEW p \in Place, At(p).kind = "heal",
         runs[r].st = "done" \/ (runs[r].st = "running" /\ Earlier(p, PlaceOf(runs[r])))
  PROVE  At(p).key \in rows
<1>1. At(p).key \in Ensured(p)
  BY PlanAssumption DEF PlanFits
<1>2. PICK q \in Place : Earlier(q, p) /\ At(q).kind \in Creating /\ At(p).key = At(q).key
  BY <1>1 DEF Ensured
<1>3. CASE runs[r].st = "done"
  BY <1>2, <1>3 DEF AllEnsured, SeedInv, Reached
<1>4. CASE runs[r].st = "running" /\ Earlier(p, PlaceOf(runs[r]))
  <2>1. p[1] \in Nat /\ p[2] \in Nat /\ q[1] \in Nat /\ q[2] \in Nat
    BY PlacesAre
  <2>2. PlaceOf(runs[r]) \in Place
    BY <1>4 DEF SeedInv, RunsFit
  <2>3. PlaceOf(runs[r])[1] \in Nat /\ PlaceOf(runs[r])[2] \in Nat
    BY <2>2, PlacesAre
  <2>4. Earlier(q, PlaceOf(runs[r]))
    BY <1>2, <1>4, <2>1, <2>3 DEF Earlier
  <2>. QED
    BY <1>2, <1>4, <2>4 DEF Ensured, SeedInv, Reached
<1>. QED
  BY <1>3, <1>4

\* Creating a row keeps the invariant: it is new, but for what a cut left behind; the group
\* is whole when its last row is there; and no field that has been healed is reset, for the
\* row it belongs to has been there since.
LEMMA RowKeeps ==
  ASSUME SeedInv, NEW r \in Triggers, Running(r), Current(r).kind \in Creating, runs[r].at > 0,
         NEW k, k = Current(r).list[runs[r].at],
         rows' = rows \cup {k},
         twins' = IF Exist({k}) /\ ~overlapped THEN twins \cup {k} ELSE twins,
         fields' = [f \in Field |->
               IF \E h \in Ops : h.kind = "heal" /\ h.key = k /\ h.field = f
               THEN Born[f] ELSE fields[f]],
         SetRun(r, Created(r)), UNCHANGED <<torn, passwords, trouble, overlapped>>
  PROVE  SeedInv'
<1>. DEFINE run == runs[r]
            x == Created(r)
            op == Current(r)
            a == run.at
<1>1. /\ run \in RunRecord /\ run.st = "running" /\ PlaceOf(run) \in Place
      /\ op = At(PlaceOf(run)) /\ op \in Ops /\ op.kind \in Creating /\ op.kind # "heal"
  BY ActiveRun DEF Creating
<1>2. /\ a \in 1..Len(op.list) /\ Len(op.list) \in Nat /\ a \in Nat
      /\ k \in Range(op.list) /\ k \in SeedRow /\ op.key \in Range(op.list)
      /\ \A n : n \in Range(op.list) <=> \E m \in 1..Len(op.list) : op.list[m] = n
      /\ \A m, n \in 1..Len(op.list) : op.list[m] = op.list[n] => m = n
      /\ \A m \in 1..Len(op.list) : m < a => op.list[m] \in rows
      /\ ~overlapped =>
           \A m \in 1..Len(op.list) : m >= a /\ op.list[m] \in rows =>
             op.list[m] \in Outside \/ (op.key \in torn /\ op.list[m] # op.key)
  <2>1. k = op.list[a]
    OBVIOUS
  <2>2. /\ a \in 1..Len(op.list) /\ Len(op.list) \in Nat
        /\ op.list[a] \in Range(op.list) /\ op.key \in Range(op.list)
        /\ Range(op.list) \subseteq SeedRow
    BY Creator
  <2>3. /\ \A n : n \in Range(op.list) <=> \E m \in 1..Len(op.list) : op.list[m] = n
        /\ \A m, n \in 1..Len(op.list) : op.list[m] = op.list[n] => m = n
        /\ \A m \in 1..Len(op.list) : m < a => op.list[m] \in rows
    BY Creator
  <2>4. ~overlapped =>
           \A m \in 1..Len(op.list) : m >= a /\ op.list[m] \in rows =>
             op.list[m] \in Outside \/ (op.key \in torn /\ op.list[m] # op.key)
    BY Creator
  <2>. HIDE DEF op, a, run
  <2>5. k \in Range(op.list) /\ k \in SeedRow /\ a \in Nat
    BY <2>1, <2>2
  <2>. QED
    BY <2>2, <2>3, <2>4, <2>5
<1>3. ~overlapped /\ k \in rows => k \in Outside \/ (op.key \in torn /\ k # op.key)
  <2>1. k = op.list[a] /\ a >= a
    BY <1>2
  <2>. QED
    BY <1>2, <2>1
<1>4. /\ x \in RunRecord /\ x.clean = run.clean /\ x.st \in {"running", "done"}
      /\ x.st = "running" =>
           /\ PlaceOf(x) \in Place
           /\ At(PlaceOf(x)).kind \in Creating => x.at \in 0..Len(At(PlaceOf(x)).list)
           /\ At(PlaceOf(x)).kind \notin Creating => x.at = 0
      /\ x.st = "running" => Ensured(PlaceOf(x)) \subseteq rows'
      /\ x.st = "done" => AllEnsured \subseteq rows'
  BY CreatedGoes
<1>5. /\ x.at = 0 \/ (x.at = a + 1 /\ x.st = "running" /\ PlaceOf(x) = PlaceOf(run))
      /\ Range(op.list) \subseteq rows'
         \/ \A n : Amid(run, op, n) \/ n = k => Amid(x, op, n)
      /\ \A p \in Place : At(p).kind = "heal"
           /\ (x.st = "done" \/ (x.st = "running" /\ Earlier(p, PlaceOf(x))))
             => Earlier(p, PlaceOf(run))
  BY CreatedGoes
<1>6. /\ runs \in [Triggers -> RunRecord] /\ fields \in [Field -> SUBSET Value]
      /\ rows \cup twins \subseteq SeedRow \cup Outside
  BY DEF SeedInv, SeedTypeOK, RunRecord
<1>7. runs' \in [Triggers -> RunRecord] /\ runs'[r] = x
      /\ \A q \in Triggers : q # r => runs'[q] = runs[q]
  BY <1>4, <1>6 DEF SetRun
<1>8. fields' \in [Field -> SUBSET Value]
  BY <1>6, BornTyped
<1>. HIDE DEF run, x, op, a
<1>9. SeedTypeOK' /\ NothingMissing'
  <2>1. (rows \cup twins)' \subseteq SeedRow \cup Outside
    BY <1>2, <1>6
  <2>. QED
    BY <1>4, <1>7, <1>8, <2>1 DEF SeedInv, SeedTypeOK, RunRecord, NothingMissing
<1>10. NoTwins'
  <2>. SUFFICES ASSUME NEW n \in twins' \ Outside
                PROVE  \E o \in Ops : o.key \in torn /\ n \in Range(o.list) \ {o.key}
    BY DEF NoTwins
  <2>1. CASE n \in twins
    BY <2>1 DEF SeedInv, NoTwins
  <2>2. CASE n \notin twins
    <3>1. n = k /\ k \in rows /\ ~overlapped
      BY <2>2 DEF Exist
    <3>. QED
      BY <1>1, <1>2, <1>3, <3>1
  <2>. QED
    BY <2>1, <2>2
<1>11. RunsFit'
  <2>1. x.st = "running" =>
          /\ At(PlaceOf(x)).kind = "heal" => x.at \in {0, 1}
          /\ At(PlaceOf(x)).kind \in {"require", "skip"} => x.at = 0
    BY <1>4 DEF Creating
  <2>. QED
    BY <1>4, <1>7, <2>1 DEF SeedInv, RunsFit
<1>12. Reached' /\ Alone'
  BY <1>1, <1>4, <1>7 DEF SeedInv, Reached, Alone, run
<1>13. ASSUME NEW m \in 1..Len(op.list), x.at = a + 1
       PROVE  /\ m < a + 1 => op.list[m] \in rows'
              /\ ~overlapped /\ m >= a + 1 /\ op.list[m] \in rows' =>
                   op.list[m] \in Outside \/ (op.key \in torn /\ op.list[m] # op.key)
  <2>1. k = op.list[a]
    BY DEF op, a, run
  <2>2. m < a + 1 => m < a \/ m = a
    BY <1>2
  <2>3. m >= a + 1 => m >= a /\ m # a
    BY <1>2
  <2>. QED
    BY <1>2, <2>1, <2>2, <2>3
<1>14. Written'
  <2>. SUFFICES ASSUME NEW q \in Triggers, Makes(runs'[q]),
                       NEW m \in 1..Len(At(PlaceOf(runs'[q])).list)
                PROVE  LET o == At(PlaceOf(runs'[q])) IN
                       /\ m < runs'[q].at => o.list[m] \in rows'
                       /\ ~overlapped /\ runs'[q].at > 0 /\ m >= runs'[q].at /\ o.list[m] \in rows' =>
                            o.list[m] \in Outside \/ (o.key \in torn /\ o.list[m] # o.key)
    BY DEF Written
  <2>1. CASE q = r /\ x.at = 0
    <3>1. Len(At(PlaceOf(x)).list) \in Nat
      BY <1>4, <1>7, <2>1, OpAt, OpFits DEF Makes
    <3>2. ~(m < 0) /\ ~(0 > 0)
      BY <1>7, <2>1, <3>1
    <3>. QED
      BY <1>7, <2>1, <3>2
  <2>2. CASE q = r /\ x.at = a + 1 /\ PlaceOf(x) = PlaceOf(run)
    BY <1>1, <1>7, <1>13, <2>2
  <2>3. CASE q # r
    <3>1. m < runs[q].at => At(PlaceOf(runs[q])).list[m] \in rows
      BY <1>7, <2>3 DEF SeedInv, Written
    <3>2. runs[q].st = "running"
      BY <1>7, <2>3 DEF Makes
    <3>3. overlapped
      BY <1>1, <2>3, <3>2 DEF SeedInv, Alone, run
    <3>. QED
      BY <1>7, <2>3, <3>1, <3>3
  <2>. QED
    BY <1>5, <2>1, <2>2, <2>3
<1>15. Partial'
  <2>. SUFFICES ASSUME ~overlapped, NEW o \in Ops, o.kind \in Creating, NEW n \in Range(o.list) \cap rows'
                PROVE  \/ n \in Outside \/ o.key \in rows' \cup torn
                       \/ \E q \in Triggers :
                            Amid(runs'[q], At(PlaceOf(runs'[q])), n) /\ At(PlaceOf(runs'[q])).key = o.key
    BY DEF Partial
  <2>1. ASSUME Amid(run, op, n) \/ n = k, op.key = o.key
        PROVE  \/ o.key \in rows'
               \/ Amid(x, At(PlaceOf(x)), n) /\ At(PlaceOf(x)).key = o.key
    <3>1. CASE Range(op.list) \subseteq rows'
      BY <1>2, <2>1, <3>1
    <3>2. CASE Amid(x, op, n)
      BY <2>1, <3>2 DEF Amid
    <3>. QED
      BY <1>5, <2>1, <3>1, <3>2
  <2>2. CASE n = k
    <3>1. op.key = o.key
      BY <1>1, <1>2, <2>2, OpsAgree
    <3>. QED
      BY <1>7, <2>1, <2>2, <3>1
  <2>3. CASE n \in rows
    <3>1. \/ n \in Outside \/ o.key \in rows \cup torn
          \/ \E q \in Triggers :
               Amid(runs[q], At(PlaceOf(runs[q])), n) /\ At(PlaceOf(runs[q])).key = o.key
      BY <2>3 DEF SeedInv, Partial
    <3>2. CASE n \in Outside \/ o.key \in rows \cup torn
      BY <3>2
    <3>3. ASSUME NEW q \in Triggers, Amid(runs[q], At(PlaceOf(runs[q])), n),
                 At(PlaceOf(runs[q])).key = o.key
          PROVE  \/ o.key \in rows'
                 \/ \E p \in Triggers :
                      Amid(runs'[p], At(PlaceOf(runs'[p])), n) /\ At(PlaceOf(runs'[p])).key = o.key
      <4>1. CASE q = r
        BY <1>1, <1>7, <2>1, <3>3, <4>1 DEF run
      <4>2. CASE q # r
        BY <1>7, <3>3, <4>2
      <4>. QED
        BY <4>1, <4>2
    <3>. QED
      BY <3>1, <3>2, <3>3
  <2>. QED
    BY <2>2, <2>3
<1>16. Whole'
  <2>. SUFFICES ASSUME NEW o \in Ops, o.kind \in Creating, o.key \in rows'
                PROVE  \/ Range(o.list) \subseteq rows' \/ o.key \in torn
                       \/ \E q \in Triggers : Amid(runs'[q], o, o.key)
    BY DEF Whole
  <2>1. ASSUME o = op, Amid(run, op, o.key) \/ o.key = k
        PROVE  Range(o.list) \subseteq rows' \/ Amid(x, o, o.key)
    BY <1>5, <2>1
  <2>2. CASE o.key = k
    <3>1. /\ Len(o.list) \in Nat /\ o.key \in Range(o.list)
          /\ \A n : n \in Range(o.list) <=> \E m \in 1..Len(o.list) : o.list[m] = n
      BY OpFits
    <3>2. Len(o.list) > 1 => o = op
      <4>1. k \in Range(o.list) /\ k \in Range(op.list)
        BY <1>2, <2>2, <3>1
      <4>. QED
        BY <1>1, <4>1, OpsAgree
    <3>3. CASE Len(o.list) > 1
      BY <1>7, <2>1, <2>2, <3>2, <3>3
    <3>4. CASE ~(Len(o.list) > 1)
      <4>1. \A m, n \in 1..Len(o.list) : m = n
        BY <3>1, <3>4
      <4>2. Range(o.list) \subseteq {k}
        BY <2>2, <3>1, <4>1
      <4>. QED
        BY <4>2
    <3>. QED
      BY <3>3, <3>4
  <2>3. CASE o.key \in rows
    <3>1. \/ Range(o.list) \subseteq rows \/ o.key \in torn
          \/ \E q \in Triggers : Amid(runs[q], o, o.key)
      BY <2>3 DEF SeedInv, Whole
    <3>2. ASSUME NEW q \in Triggers, Amid(runs[q], o, o.key)
          PROVE  Range(o.list) \subseteq rows' \/ \E p \in Triggers : Amid(runs'[p], o, o.key)
      <4>1. CASE q = r
        <5>1. o = op
          BY <1>1, <3>2, <4>1 DEF Amid, run
        <5>. QED
          BY <1>7, <2>1, <3>2, <4>1, <5>1 DEF run
      <4>2. CASE q # r
        BY <1>7, <3>2, <4>2
      <4>. QED
        BY <4>1, <4>2
    <3>. QED
      BY <3>1, <3>2
  <2>. QED
    BY <2>2, <2>3
<1>17. CleanTogether'
  <2>. SUFFICES ASSUME ~overlapped, NEW p \in Triggers, NEW q \in Triggers,
                       runs'[p].st = "done", runs'[p].clean, runs'[q].st = "running"
                PROVE  runs'[q].clean
    BY DEF CleanTogether
  <2>1. CASE q = r
    <3>1. p # r /\ runs[p].st = "done" /\ runs[p].clean
      BY <1>7, <2>1
    <3>. QED
      BY <1>1, <1>4, <1>7, <2>1, <3>1 DEF SeedInv, CleanTogether, run
  <2>2. CASE q # r
    BY <1>1, <1>7, <2>2 DEF SeedInv, Alone, run
  <2>. QED
    BY <2>1, <2>2
<1>18. ASSUME ~overlapped, NEW p \in Place, At(p).kind = "heal", At(p).key \in rows
       PROVE  fields'[At(p).field] = fields[At(p).field]
  <2>1. At(p) \in Ops
    BY OpAt
  <2>2. At(p).field \in Field /\ At(p).key \notin Outside /\ At(p).key \in AllEnsured
    BY <1>18, <2>1, OpFits
  <2>3. ASSUME NEW h \in Ops, h.kind = "heal", h.key = k, h.field = At(p).field PROVE FALSE
    <3>1. At(p).key = k
      BY <1>18, <2>1, <2>3, OpsAgree
    <3>2. PICK q \in Place : At(q).kind \in Creating /\ At(q).key = k
      BY <2>2, <3>1 DEF AllEnsured
    <3>3. At(q) \in Ops /\ k \in Range(At(q).list)
      BY <3>2, OpAt, OpFits
    <3>4. op.key = k
      BY <1>1, <1>2, <3>2, <3>3, OpsAgree
    <3>. QED
      BY <1>3, <1>18, <2>2, <3>1, <3>4
  <2>. QED
    BY <2>2, <2>3
<1>19. Healed'
  <2>. SUFFICES ASSUME ~overlapped, NEW q \in Triggers, runs'[q].clean, NEW p \in Place,
                       At(p).kind = "heal",
                       runs'[q].st = "done" \/ (runs'[q].st = "running" /\ Earlier(p, PlaceOf(runs'[q])))
                PROVE  At(p).values \subseteq fields'[At(p).field]
    BY DEF Healed
  <2>1. runs[q].clean
        /\ (runs[q].st = "done" \/ (runs[q].st = "running" /\ Earlier(p, PlaceOf(runs[q]))))
    <3>1. CASE q = r
      BY <1>1, <1>4, <1>5, <1>7, <3>1 DEF run
    <3>2. CASE q # r
      BY <1>7, <3>2
    <3>. QED
      BY <3>1, <3>2
  <2>2. At(p).key \in rows
    BY <2>1, HealedRows
  <2>3. At(p).values \subseteq fields[At(p).field]
    BY <2>1 DEF SeedInv, Healed
  <2>. QED
    BY <1>18, <2>2, <2>3
<1>20. ReadIsFresh'
  <2>. SUFFICES ASSUME ~overlapped, NEW q \in Triggers, runs'[q].st = "running",
                       At(PlaceOf(runs'[q])).kind = "heal", runs'[q].at = 1
                PROVE  FALSE
    BY DEF ReadIsFresh
  <2>1. CASE q = r
    BY <1>4, <1>7, <2>1 DEF Creating
  <2>2. CASE q # r
    BY <1>1, <1>7, <2>2 DEF SeedInv, Alone, run
  <2>. QED
    BY <2>1, <2>2
<1>. QED
  BY <1>9, <1>10, <1>11, <1>12, <1>14, <1>15, <1>16, <1>17, <1>19, <1>20 DEF SeedInv

\* Creating a row of a group, or being refused it by a unique index, keeps the invariant.
LEMMA CreateKeeps == ASSUME SeedInv, NEW r \in Triggers, CreateRow(r) PROVE SeedInv'
<1>. DEFINE k == Current(r).list[runs[r].at]
<1>1. /\ Running(r) /\ Current(r).kind \in Creating /\ runs[r].at > 0
      /\ UNCHANGED <<passwords, trouble, overlapped>> /\ trouble' \in 0..MaxTrouble
  BY DEF CreateRow, SeedInv, SeedTypeOK
<1>2. CASE k \in Unique /\ Exist({k})
  <2>1. Stop(r, "refused") /\ torn' = torn \cup Tears(r) /\ UNCHANGED <<rows, fields, twins>>
    BY <1>2 DEF CreateRow
  <2>. QED
    BY <1>1, <2>1, StopKeeps
<1>3. CASE ~(k \in Unique /\ Exist({k}))
  <2>1. /\ rows' = rows \cup {k}
        /\ twins' = IF Exist({k}) /\ ~overlapped THEN twins \cup {k} ELSE twins
        /\ fields' = [f \in Field |->
             IF \E h \in Ops : h.kind = "heal" /\ h.key = k /\ h.field = f
             THEN Born[f] ELSE fields[f]]
        /\ SetRun(r, Created(r)) /\ UNCHANGED torn
    BY <1>3 DEF CreateRow
  <2>2. k = Current(r).list[runs[r].at]
    OBVIOUS
  <2>. HIDE DEF k
  <2>. QED
    BY <1>1, <2>1, <2>2, RowKeeps
<1>. QED
  BY <1>2, <1>3

\* What a field holds has a type, and so have the operation's values.
LEMMA HealTyped ==
  ASSUME SeedInv, NEW r \in Triggers, Running(r), Current(r).kind = "heal"
  PROVE  /\ Current(r).field \in Field /\ Current(r).values \subseteq Value
         /\ Current(r).key \in rows /\ Current(r) \in Ops /\ Current(r).kind \notin Creating
         /\ runs[r] \in RunRecord /\ fields \in [Field -> SUBSET Value]
         /\ PlaceOf(runs[r]) \in Place /\ Current(r) = At(PlaceOf(runs[r]))
<1>1. Current(r) \in Ops /\ Current(r).key \in rows /\ runs[r] \in RunRecord
      /\ PlaceOf(runs[r]) \in Place /\ Current(r) = At(PlaceOf(runs[r]))
  BY ActiveRun
<1>2. Current(r).field \in Field /\ Current(r).values \subseteq Value
  BY <1>1, OpFits
<1>. QED
  BY <1>1, <1>2 DEF SeedInv, SeedTypeOK, Creating

\* Reading a field keeps the invariant: what was read is what it holds.
LEMMA ReadFieldKeeps == ASSUME SeedInv, NEW r \in Triggers, ReadField(r) PROVE SeedInv'
<1>. DEFINE op == Current(r)
            run == runs[r]
            x == [run EXCEPT !.at = 1, !.seen = fields[op.field]]
<1>1. /\ Running(r) /\ op.kind = "heal" /\ run.at = 0
      /\ UNCHANGED <<rows, fields, passwords, trouble, overlapped, torn, twins>>
  BY DEF ReadField
<1>2. /\ op.field \in Field /\ op.key \in rows /\ op.kind \notin Creating
      /\ run \in RunRecord /\ fields \in [Field -> SUBSET Value]
      /\ PlaceOf(run) \in Place /\ op = At(PlaceOf(run)) /\ run.st = "running"
  BY <1>1, HealTyped DEF Running
<1>3. CASE op.values \subseteq fields[op.field]
  <2>1. SetRun(r, NextOp(run))
    BY <1>3 DEF ReadField
  <2>2. RowsInv'
    BY <1>1, <1>2, <2>1, PassOn
  <2>3. Healed' /\ ReadIsFresh'
    BY <1>1, <1>3, <2>1, PassOnHeals
  <2>. QED
    BY <2>2, <2>3 DEF SeedInv, RowsInv
<1>4. CASE ~(op.values \subseteq fields[op.field])
  <2>1. SetRun(r, x)
    BY <1>2, <1>4 DEF ReadField, Exist
  <2>2. fields[op.field] \in SUBSET Value
    BY <1>2
  <2>. DEFINE seen == fields[op.field]
  <2>3. x \in RunRecord /\ x.clean = run.clean /\ x.st = "running" /\ x.at = 1
        /\ x.seen = seen /\ x.i = run.i /\ x.j = run.j
    <3>1. seen \in SUBSET Value /\ 1 \in Nat
      BY <2>2
    <3>2. x = [run EXCEPT !.at = 1, !.seen = seen]
      OBVIOUS
    <3>. HIDE DEF seen, op
    <3>. QED
      BY <1>2, <3>1, <3>2 DEF RunRecord
  <2>4. PlaceOf(x) = PlaceOf(run)
    BY <2>3 DEF PlaceOf
  <2>5. runs \in [Triggers -> RunRecord]
    BY DEF SeedInv, SeedTypeOK, RunRecord
  <2>. HIDE DEF x
  <2>6. runs' \in [Triggers -> RunRecord] /\ runs'[r] = x
        /\ \A q \in Triggers : q # r => runs'[q] = runs[q]
    BY <2>1, <2>3, <2>5 DEF SetRun
  <2>7. \A q \in Triggers : \A o, k : Amid(runs[q], o, k) => q # r
    BY <1>2 DEF Amid, Makes
  <2>. HIDE DEF op, run
  <2>8. SeedTypeOK' /\ NothingMissing' /\ NoTwins'
    BY <1>1, <2>3, <2>6 DEF SeedInv, SeedTypeOK, RunRecord, NothingMissing, NoTwins
  <2>9. RunsFit' /\ Reached' /\ Alone'
    BY <1>1, <1>2, <2>3, <2>4, <2>6 DEF SeedInv, RunsFit, Reached, Alone, run, Creating
  <2>10. Written'
    BY <1>1, <1>2, <2>4, <2>6 DEF SeedInv, Written, Makes
  <2>11. Partial' /\ Whole'
    BY <1>1, <2>6, <2>7 DEF SeedInv, Partial, Whole
  <2>12. CleanTogether' /\ Healed' /\ ReadIsFresh'
    BY <1>1, <1>2, <2>3, <2>4, <2>6 DEF SeedInv, CleanTogether, Healed, ReadIsFresh, run
  <2>. QED
    BY <2>8, <2>9, <2>10, <2>11, <2>12 DEF SeedInv
<1>. QED
  BY <1>3, <1>4

\* Writing it back takes nothing away that another operation has put there.
LEMMA WriteFieldKeeps == ASSUME SeedInv, NEW r \in Triggers, WriteField(r) PROVE SeedInv'
<1>. DEFINE op == Current(r)
            run == runs[r]
            new == IF op.field \in Lists THEN run.seen \cup op.values ELSE op.values
<1>1. /\ Running(r) /\ op.kind = "heal" /\ run.at = 1
      /\ fields' = [fields EXCEPT ![op.field] = new] /\ SetRun(r, NextOp(run))
      /\ UNCHANGED <<rows, passwords, trouble, overlapped, torn, twins>>
  BY DEF WriteField
<1>2. /\ op.field \in Field /\ op.values \subseteq Value /\ op.kind \notin Creating
      /\ run \in RunRecord /\ fields \in [Field -> SUBSET Value] /\ op \in Ops
      /\ PlaceOf(run) \in Place /\ op = At(PlaceOf(run)) /\ run.st = "running"
  BY <1>1, HealTyped DEF Running
<1>3. run.seen \in SUBSET Value
  BY <1>2 DEF RunRecord
<1>4. new \in SUBSET Value /\ op.values \subseteq new
  BY <1>2, <1>3
<1>5. ~overlapped /\ run.clean => run.seen = fields[op.field]
  BY <1>1, <1>2 DEF SeedInv, ReadIsFresh
<1>. HIDE DEF op, run
<1>6. fields' \in [Field -> SUBSET Value] /\ op.values \subseteq fields'[op.field]
  BY <1>1, <1>2, <1>4
<1>7. RowsInv'
  BY <1>1, <1>2, <1>6, PassOn DEF op, run
<1>8. ASSUME ~overlapped, NEW q \in Triggers, runs[q].clean, runs[q].st \in {"done", "running"},
             NEW p \in Place, At(p).kind = "heal", At(p).values \subseteq fields[At(p).field]
      PROVE  At(p).values \subseteq fields'[At(p).field]
  <2>1. run.clean
    <3>1. CASE runs[q].st = "done"
      BY <1>2, <1>8, <3>1 DEF SeedInv, CleanTogether, run
    <3>2. CASE runs[q].st = "running"
      BY <1>2, <1>8, <3>2 DEF SeedInv, Alone, run
    <3>. QED
      BY <1>8, <3>1, <3>2
  <2>2. At(p) \in Ops /\ At(p).field \in Field
    BY <1>8, OpAt, OpFits
  <2>3. CASE At(p).field # op.field
    BY <1>1, <1>2, <1>8, <2>2, <2>3
  <2>4. CASE At(p).field = op.field
    <3>1. op.field \in Lists \/ At(p).values = op.values
      BY <1>1, <1>2, <1>8, <2>2, <2>4, OpsAgree
    <3>2. CASE op.field \in Lists
      BY <1>1, <1>2, <1>5, <1>8, <2>1, <2>4, <3>2
    <3>3. CASE At(p).values = op.values
      BY <1>6, <2>4, <3>3
    <3>. QED
      BY <3>1, <3>2, <3>3
  <2>. QED
    BY <2>3, <2>4
<1>9. Healed' /\ ReadIsFresh'
  BY <1>1, <1>6, <1>8, PassOnHeals DEF op, run
<1>. QED
  BY <1>7, <1>9 DEF SeedInv, RowsInv

\* An operator's edit keeps it: no run that has begun counts as undisturbed any more.
LEMMA EditKeeps == ASSUME SeedInv, NEW f \in Field, EditField(f) PROVE SeedInv'
<1>1. /\ trouble \in 0..MaxTrouble /\ MaxTrouble \in Nat /\ trouble > 0 /\ trouble' = trouble - 1
      /\ UNCHANGED <<rows, passwords, overlapped, torn, twins>>
      /\ runs \in [Triggers -> RunRecord] /\ fields \in [Field -> SUBSET Value]
  BY SeedAssumption DEF EditField, SeedInv, SeedTypeOK, RunRecord
<1>2. trouble' \in 0..MaxTrouble
  BY <1>1
<1>3. PICK v \in fields[f] : fields' = [fields EXCEPT ![f] = fields[f] \ {v}]
  BY DEF EditField
<1>4. fields' \in [Field -> SUBSET Value]
  BY <1>1, <1>3
<1>5. ASSUME NEW r \in Triggers
      PROVE  /\ runs'[r] \in RunRecord /\ runs'[r].st = runs[r].st /\ runs'[r].i = runs[r].i
             /\ runs'[r].j = runs[r].j /\ runs'[r].at = runs[r].at
             /\ runs'[r].clean <=> runs[r].st = "idle"
  <2>. DEFINE c == runs[r].st = "idle"
  <2>1. runs'[r] = [runs[r] EXCEPT !.clean = c]
    BY DEF EditField
  <2>2. c \in BOOLEAN /\ runs[r] \in RunRecord
    BY <1>1
  <2>3. runs[r].st = "idle" <=> c
    OBVIOUS
  <2>. HIDE DEF c
  <2>. QED
    BY <2>1, <2>2, <2>3 DEF RunRecord
<1>6. runs' \in [Triggers -> RunRecord]
  <2>1. runs' = [r \in Triggers |-> runs'[r]]
    BY DEF EditField
  <2>. QED
    BY <1>5, <2>1
<1>7. \A r \in Triggers : PlaceOf(runs'[r]) = PlaceOf(runs[r])
                          /\ (Makes(runs'[r]) <=> Makes(runs[r]))
                          /\ \A o, k : Amid(runs'[r], o, k) <=> Amid(runs[r], o, k)
  BY <1>5 DEF PlaceOf, Makes, Amid
<1>8. SeedTypeOK'
  BY <1>1, <1>2, <1>4, <1>6 DEF SeedInv, SeedTypeOK, RunRecord
<1>9. NothingMissing' /\ NoTwins' /\ Alone'
  BY <1>1, <1>5 DEF SeedInv, NothingMissing, NoTwins, Alone
<1>10. RunsFit'
  BY <1>5, <1>7 DEF SeedInv, RunsFit
<1>11. Reached'
  BY <1>1, <1>5, <1>7 DEF SeedInv, Reached
<1>12. Written'
  BY <1>1, <1>5, <1>7 DEF SeedInv, Written
<1>13. Partial' /\ Whole'
  BY <1>1, <1>7 DEF SeedInv, Partial, Whole
<1>14. CleanTogether' /\ Healed' /\ ReadIsFresh'
  BY <1>5 DEF CleanTogether, Healed, ReadIsFresh
<1>. QED
  BY <1>8, <1>9, <1>10, <1>11, <1>12, <1>13, <1>14 DEF SeedInv

\* A row left by others is one of those they leave, and its group counts as torn.
LEMMA LeaveKeeps == ASSUME SeedInv, NEW n \in Outside, LeaveRow(n) PROVE SeedInv'
<1>1. /\ trouble \in 0..MaxTrouble /\ MaxTrouble \in Nat /\ trouble > 0 /\ trouble' = trouble - 1
      /\ rows' = rows \cup {n} /\ torn' = torn \cup {n}
      /\ UNCHANGED <<fields, runs, passwords, overlapped, twins>>
  BY SeedAssumption DEF LeaveRow, SeedInv, SeedTypeOK
<1>2. trouble' \in 0..MaxTrouble
  BY <1>1
<1>3. SeedTypeOK'
  BY <1>1, <1>2 DEF SeedInv, SeedTypeOK
<1>4. NothingMissing' /\ NoTwins' /\ RunsFit' /\ Reached' /\ Alone'
  BY <1>1 DEF SeedInv, NothingMissing, NoTwins, RunsFit, Reached, Alone
<1>5. Written'
  BY <1>1 DEF SeedInv, Written
<1>6. Partial'
  BY <1>1 DEF SeedInv, Partial
<1>7. Whole'
  BY <1>1 DEF SeedInv, Whole
<1>8. CleanTogether' /\ Healed' /\ ReadIsFresh'
  BY <1>1 DEF SeedInv, CleanTogether, Healed, ReadIsFresh
<1>. QED
  BY <1>3, <1>4, <1>5, <1>6, <1>7, <1>8 DEF SeedInv

\* At the start no run has begun and nothing is there.
LEMMA SeedStarts == SeedInit => SeedInv
<1>. SUFFICES ASSUME SeedInit PROVE SeedInv
  OBVIOUS
<1>1. /\ rows = {} /\ twins = {} /\ torn = {} /\ overlapped = FALSE /\ passwords \in BOOLEAN
      /\ trouble = MaxTrouble /\ MaxTrouble \in Nat
      /\ fields = [f \in Field |-> {}]
  BY SeedAssumption DEF SeedInit
<1>2. \A r \in Triggers : runs[r].st = "idle" /\ runs[r].i = 1 /\ runs[r].j = 1 /\ runs[r].at = 0
                          /\ runs[r].clean
  BY DEF SeedInit
<1>3. runs \in [Triggers -> RunRecord]
  <2>1. 1 \in 1..Len(seedSteps) /\ {} \in SUBSET Value
    BY PlacesAre
  <2>2. [st |-> "idle", i |-> 1, j |-> 1, at |-> 0, seen |-> {}, clean |-> TRUE] \in RunRecord
    BY <2>1 DEF RunRecord
  <2>. QED
    BY <2>2 DEF SeedInit
<1>4. fields \in [Field -> SUBSET Value]
  BY <1>1
<1>5. SeedTypeOK
  <2>1. rows \cup twins \subseteq SeedRow \cup Outside /\ torn \subseteq SeedRow \cup Outside
        /\ overlapped \in BOOLEAN /\ passwords \in BOOLEAN
    BY <1>1, Zenon
  <2>3. trouble \in 0..MaxTrouble
    BY <1>1
  <2>2. runs \in [Triggers ->
          [st : {"idle", "running", "done", "missing", "refused", "cut"},
           i : 1..Len(seedSteps), j : Nat \ {0}, at : Nat, seen : SUBSET Value,
           clean : BOOLEAN]]
    BY <1>3 DEF RunRecord
  <2>. QED
    BY <1>4, <2>1, <2>2, <2>3, Zenon DEF SeedTypeOK
<1>6. NothingMissing /\ NoTwins /\ RunsFit /\ Reached /\ Alone /\ Written
  BY <1>1, <1>2 DEF NothingMissing, NoTwins, RunsFit, Reached, Alone, Written, Makes
<1>7. Partial /\ Whole /\ CleanTogether /\ Healed /\ ReadIsFresh
  BY <1>1, <1>2 DEF Partial, Whole, CleanTogether, Healed, ReadIsFresh
<1>. QED
  BY <1>5, <1>6, <1>7 DEF SeedInv

\* The invariant holds however runs are cut, refused or overlapped.
LEMMA SeedInvHolds == SeedSpec => []SeedInv
<1>1. SeedInv /\ [SeedNext]_seedVars => SeedInv'
  <2>. SUFFICES ASSUME SeedInv, [SeedNext]_seedVars PROVE SeedInv'
    OBVIOUS
  <2>1. ASSUME NEW r \in Triggers,
               SeedStart(r) \/ SeedOverlap(r) \/ RunNext(r) \/ Cut(r)
        PROVE  SeedInv'
    BY <2>1, StartKeeps, CheckKeeps, FindKeeps, CreateKeeps, ReadFieldKeeps, WriteFieldKeeps,
       CutKeeps DEF RunNext
  <2>2. CASE SetPasswords
    <3>1. UNCHANGED <<rows, fields, runs, trouble, overlapped, torn, twins>> /\ passwords' = TRUE
      BY <2>2 DEF SetPasswords
    <3>. QED
      BY <3>1 DEF SeedInv, SeedTypeOK, NothingMissing, NoTwins, RunsFit, Reached, Alone, Written,
                  Partial, Whole, CleanTogether, Healed, ReadIsFresh
  <2>3. CASE UNCHANGED seedVars
    BY <2>3 DEF seedVars, SeedInv, SeedTypeOK, NothingMissing, NoTwins, RunsFit, Reached, Alone,
                Written, Partial, Whole, CleanTogether, Healed, ReadIsFresh
  <2>. QED
    BY <2>1, <2>2, <2>3, EditKeeps, LeaveKeeps DEF SeedNext
<1>. QED
  BY <1>1, SeedStarts, PTL DEF SeedSpec

\* What a seeding leaves behind is sound for any number of triggers and of cuts, edits and
\* overlaps: no twins, no group cut short unnoticed, nothing missing, and what is healed
\* stays healed (seed/route.ts).
THEOREM SeedIsSoundHolds == SeedSpec => []SeedIsSound
<1>1. SeedInv => SeedIsSound
  <2>. SUFFICES ASSUME SeedInv PROVE SeedIsSound
    OBVIOUS
  <2>1. SeedTypeOK /\ NoTwins /\ NothingMissing
    BY DEF SeedInv
  <2>2. GroupsWhole
    <3>. SUFFICES ASSUME NEW op \in Ops, op.key \in SeedRow, Exist({op.key})
                  PROVE  \/ Exist(Range(op.list)) \/ op.key \in torn
                         \/ \E r \in Triggers : Running(r) /\ Current(r) = op /\ runs[r].at > 0
      BY DEF GroupsWhole
    <3>1. CASE op.kind \notin Creating
      <4>1. Range(op.list) = {}
        BY <3>1, OpFits
      <4>. QED
        BY <4>1 DEF Exist
    <3>2. CASE op.kind \in Creating
      <4>1. \/ Range(op.list) \subseteq rows \/ op.key \in torn
            \/ \E r \in Triggers : Amid(runs[r], op, op.key)
        BY <3>2 DEF SeedInv, Whole, Exist
      <4>2. ASSUME NEW r \in Triggers, Amid(runs[r], op, op.key)
            PROVE  Running(r) /\ Current(r) = op /\ runs[r].at > 0
        <5>1. Running(r) /\ Current(r) = op
          BY <4>2, CurrentIs DEF Amid, Makes, Running
        <5>2. PICK m \in 1..Len(op.list) : m < runs[r].at
          BY <4>2 DEF Amid
        <5>3. runs[r].at \in Nat /\ Len(op.list) \in Nat
          BY OpFits DEF SeedInv, SeedTypeOK
        <5>. QED
          BY <5>1, <5>2, <5>3
      <4>. QED
        BY <4>1, <4>2 DEF Exist
    <3>. QED
      BY <3>1, <3>2
  <2>3. HealsHold
    <3>. SUFFICES ASSUME NEW r \in Triggers, runs[r].st = "done", runs[r].clean, ~overlapped,
                         NEW op \in Ops, op.kind = "heal"
                  PROVE  op.values \subseteq fields[op.field]
      BY DEF HealsHold
    <3>1. PICK p \in Place : op = At(p)
      BY PlaceOfOp
    <3>. QED
      BY <3>1 DEF SeedInv, Healed
  <2>. QED
    BY <2>1, <2>2, <2>3 DEF SeedIsSound
<1>. QED
  BY <1>1, SeedInvHolds, PTL

\* Once a run is through and none is active, everything is there but for the rest of torn
\* groups, however many earlier runs were stopped (seed/route.ts).
THEOREM ResumeIsCompleteHolds == SeedSpec => []ResumeIsComplete
<1>1. SeedInv => ResumeIsComplete
  <2>. SUFFICES ASSUME SeedInv, NEW r \in Triggers, runs[r].st = "done",
                       \A q \in Triggers : ~Running(q), NEW op \in Ops
                PROVE  Exist(Range(op.list)) \/ op.key \in torn
    BY DEF ResumeIsComplete
  <2>1. CASE op.kind \notin Creating
    <3>1. Range(op.list) = {}
      BY <2>1, OpFits
    <3>. QED
      BY <3>1 DEF Exist
  <2>2. CASE op.kind \in Creating
    <3>1. op.key \in AllEnsured
      BY <2>2, PlaceOfOp DEF AllEnsured
    <3>2. op.key \in rows
      BY <3>1 DEF SeedInv, Reached
    <3>3. \A q \in Triggers : ~Amid(runs[q], op, op.key)
      BY DEF Amid, Makes, Running
    <3>. QED
      BY <2>2, <3>2, <3>3 DEF SeedInv, Whole, Exist
  <2>. QED
    BY <2>1, <2>2
<1>. QED
  BY <1>1, SeedInvHolds, PTL
=============================================================================
