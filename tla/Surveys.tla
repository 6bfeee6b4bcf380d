------------------------------- MODULE Surveys -------------------------------
(***************************************************************************)
(* One survey of a site: its open window, the sticky latch that freezes    *)
(* its questions once it has started, the public submit with its           *)
(* one-response-per-participant rule, and the admin's edits.  Every update *)
(* of the survey row reads the row, runs the hooks and writes the merged   *)
(* row back later, and others may write in between.  Of the questionnaire  *)
(* only its changes show.                                                  *)
(***************************************************************************)
EXTENDS Integers, FiniteSets

CONSTANTS
  Members,    \* members signed in on the survey's site
  Addresses,  \* trustworthy client addresses of everybody else
  Nobody,     \* a visitor without a trustworthy address
  Responses,  \* slots for rows of `surveyResponses`
  Submits,    \* slots for submits in flight
  Saves,      \* slots for saves of the survey in flight
  Edits,      \* slots for question edits in flight
  NoTime,     \* `openFrom` or `openTo` left empty
  Forms,      \* what an administrator may fill in, see FormsAssumption
  Horizon     \* bound of the exploration: the clock stops here

ASSUME ParticipantsAssumption ==
  Members \cap Addresses = {} /\ Nobody \notin Members \cup Addresses
ASSUME TimeAssumption == Horizon \in Nat /\ NoTime \notin Int

Times == 0..Horizon

\* The window, both ends included, the audience and the anonymity.  A survey
\* with `isActive` off is one that closed before time began.
ASSUME FormsAssumption ==
  /\ Forms # {}
  /\ Forms \subseteq [from: Times \cup {NoTime}, to: Times \cup {-1, NoTime},
                      membersOnly: BOOLEAN, anonymous: BOOLEAN]

VARIABLES
  now,       \* the clock
  survey,    \* the stored row of the survey
  response,  \* stored responses
  submit,    \* submits in flight
  save,      \* saves of the survey in flight
  edit       \* question edits in flight

vars == <<now, survey, response, submit, save, edit>>

-----------------------------------------------------------------------------

Participants == Members \cup Addresses \cup {Nobody}

Survey == [form: Forms, hasResponses: BOOLEAN, startedAt: BOOLEAN]
AnySurvey == [form |-> CHOOSE f \in Forms : TRUE,
              hasResponses |-> FALSE, startedAt |-> FALSE]

\* named: `respondent` is the member; key: what participantKey was computed
\* from, none if null.  History, both kept until the response is deleted:
\* outdated, the questions were changed by an edit that began after it was
\* stored; unmarked, a save took back the mark it relies on.
Response == [live: BOOLEAN, who: Participants, named: BOOLEAN,
             key: SUBSET Participants, outdated: BOOLEAN, unmarked: BOOLEAN]
NoResponse == [live |-> FALSE, who |-> Nobody, named |-> FALSE, key |-> {},
               outdated |-> FALSE, unmarked |-> FALSE]

\* marking: this response marks the survey, by writing `row`.
SubmitPc == {"idle", "dedup", "load", "create", "mark", "commit"}
Submit == [pc: SubmitPc, who: Participants, named: BOOLEAN,
           marking: BOOLEAN, row: Survey]
NoSubmit == [pc |-> "idle", who |-> Nobody, named |-> FALSE,
             marking |-> FALSE, row |-> AnySurvey]

\* row: what the save will write; started: whether the survey had started when
\* the save read it.
Save == [busy: BOOLEAN, row: Survey, started: BOOLEAN]
NoSave == [busy |-> FALSE, row |-> AnySurvey, started |-> FALSE]

\* seen: history, the responses stored when the edit checked the survey.
Edit == [busy: BOOLEAN, seen: SUBSET Responses]
NoEdit == [busy |-> FALSE, seen |-> {}]

TypeOK ==
  /\ now \in Times
  /\ survey \in Survey
  /\ response \in [Responses -> Response]
  /\ submit \in [Submits -> Submit]
  /\ save \in [Saves -> Save]
  /\ edit \in [Edits -> Edit]

-----------------------------------------------------------------------------
(* The window and the latch *)

WindowHasOpened == survey.form.from # NoTime /\ now >= survey.form.from

\* A bound that is left empty does not bound.
IsOpen == /\ survey.form.from # NoTime => now >= survey.form.from
          /\ survey.form.to # NoTime => now <= survey.form.to

IsStarted == survey.startedAt \/ survey.hasResponses \/ WindowHasOpened

\* Mutant: the latch looks at the start time the save brings.
Latched_Incoming(form) ==
  \/ survey.startedAt \/ survey.hasResponses
  \/ form.from # NoTime /\ now >= form.from

\* startedAt after a save that brings `form`: it is the stored start time that
\* counts.
Latched(form) ==
  survey.startedAt \/ survey.hasResponses \/ WindowHasOpened

\* A new survey: here it is the start time it brings that counts.
Init ==
  /\ now = 0
  /\ \E form \in Forms :
       survey = [form |-> form, hasResponses |-> FALSE, startedAt |-> form.from = 0]
  /\ response = [i \in Responses |-> NoResponse]
  /\ submit = [t \in Submits |-> NoSubmit]
  /\ save = [a \in Saves |-> NoSave]
  /\ edit = [e \in Edits |-> NoEdit]

Stored == {i \in Responses : response[i].live}

\* An administrator saves the survey: its row is read and the latch is applied.
SaveBegin(a, form) ==
  /\ ~save[a].busy
  /\ save' = [save EXCEPT ![a] =
                [busy |-> TRUE,
                 row |-> [survey EXCEPT !.form = form, !.startedAt = Latched(form)],
                 started |-> IsStarted]]
  /\ UNCHANGED <<now, survey, response, submit, edit>>

\* The whole row is written, with the marks as they were read.
SaveWrite(a) ==
  /\ save[a].busy
  /\ survey' = save[a].row
  /\ response' = [i \in Responses |->
                    [response[i] EXCEPT
                       !.unmarked = @ \/ (i \in Stored /\ ~save[a].row.hasResponses)]]
  /\ save' = [save EXCEPT ![a] = NoSave]
  /\ UNCHANGED <<now, submit, edit>>

Tick ==
  /\ now < Horizon
  /\ now' = now + 1
  /\ UNCHANGED <<survey, response, submit, save, edit>>

-----------------------------------------------------------------------------
(* The public submit *)

\* A member answers a survey that is not anonymous under his name.
Named(p) == p \in Members /\ ~survey.form.anonymous

\* Mutant: a named response carries no key.
Key_OnlyUnnamed(p, named) == IF p = Nobody \/ named THEN {} ELSE {p}

\* Member id or address, whether or not the name is stored.
Key(p, named) == IF p = Nobody THEN {} ELSE {p}

\* memberHasResponded, participantKeyExists.
HasResponded(p, named) ==
  \E i \in Stored : IF named THEN response[i].named /\ response[i].who = p
                    ELSE response[i].key \cap Key(p, named) # {}

\* The unique indexes: (survey, respondent) and (survey, participantKey).
Duplicate(p, named) ==
  \E i \in Stored : \/ named /\ response[i].named /\ response[i].who = p
                    \/ response[i].key \cap Key(p, named) # {}

\* The survey is open to p; who answers, and under what name, is settled here.
SubmitBegin(t, p) ==
  /\ submit[t].pc = "idle"
  /\ IsOpen
  /\ survey.form.membersOnly => p \in Members
  /\ submit' = [submit EXCEPT ![t] = [NoSubmit EXCEPT !.pc = "dedup", !.who = p,
                                                     !.named = Named(p)]]
  /\ UNCHANGED <<now, survey, response, save, edit>>

SubmitDedup(t) ==
  /\ submit[t].pc = "dedup"
  /\ submit' = [submit EXCEPT ![t] =
                  IF HasResponded(submit[t].who, submit[t].named) THEN NoSubmit
                  ELSE [@ EXCEPT !.pc = "load"]]
  /\ UNCHANGED <<now, survey, response, save, edit>>

\* The answers are checked against the questions, and for profanity.
SubmitLoad(t, valid) ==
  /\ submit[t].pc = "load"
  /\ submit' = [submit EXCEPT ![t] =
                  IF valid THEN [@ EXCEPT !.pc = "create"] ELSE NoSubmit]
  /\ UNCHANGED <<now, survey, response, save, edit>>

\* The transaction of the create asks whether the survey is marked already.
\* (Its row is inserted first, but the others see it from the commit on.)
SubmitCreate(t) ==
  /\ submit[t].pc = "create"
  /\ submit' = [submit EXCEPT ![t].pc = IF survey.hasResponses THEN "commit"
                                        ELSE "mark"]
  /\ UNCHANGED <<now, survey, response, save, edit>>

\* Mutant: the survey is not told of its first response.
Marked_Never == survey

\* The survey with hasResponses set, and the latch with it.
Marked == [survey EXCEPT !.hasResponses = TRUE, !.startedAt = TRUE]

\* The update that marks the survey reads its row.
SubmitMark(t) ==
  /\ submit[t].pc = "mark"
  /\ submit' = [submit EXCEPT ![t].pc = "commit", ![t].marking = TRUE,
                              ![t].row = Marked]
  /\ UNCHANGED <<now, survey, response, save, edit>>

\* The row and the mark on the survey commit together.
SubmitCommit(t, i) ==
  LET p == submit[t].who
      named == submit[t].named
      after == IF submit[t].marking THEN submit[t].row ELSE survey IN
  /\ submit[t].pc = "commit"
  /\ ~Duplicate(p, named)
  /\ i \notin Stored
  /\ response' = [response EXCEPT ![i] =
                    [live |-> TRUE, who |-> p, named |-> named, key |-> Key(p, named),
                     outdated |-> FALSE,
                     unmarked |-> ~submit[t].marking /\ ~survey.hasResponses]]
  /\ survey' = after
  /\ submit' = [submit EXCEPT ![t] = NoSubmit]
  /\ UNCHANGED <<now, save, edit>>

\* A unique index refuses the row: the participant has already responded.
SubmitDuplicate(t) ==
  /\ submit[t].pc = "commit"
  /\ Duplicate(submit[t].who, submit[t].named)
  /\ submit' = [submit EXCEPT ![t] = NoSubmit]
  /\ UNCHANGED <<now, survey, response, save, edit>>

\* An administrator deletes a response; the survey keeps its marks.
DeleteResponse(i) ==
  /\ i \in Stored
  /\ response' = [response EXCEPT ![i] = NoResponse]
  /\ edit' = [e \in Edits |-> [edit[e] EXCEPT !.seen = @ \ {i}]]
  /\ UNCHANGED <<now, survey, submit, save>>

-----------------------------------------------------------------------------
(* Creating, changing or deleting a question *)

EditBegin(e) ==
  /\ ~edit[e].busy
  /\ ~IsStarted
  /\ edit' = [edit EXCEPT ![e] = [busy |-> TRUE, seen |-> Stored]]
  /\ UNCHANGED <<now, survey, response, submit, save>>

EditWrite(e) ==
  /\ edit[e].busy
  /\ response' = [i \in Responses |->
                    [response[i] EXCEPT !.outdated = @ \/ i \in edit[e].seen]]
  /\ edit' = [edit EXCEPT ![e] = NoEdit]
  /\ UNCHANGED <<now, survey, submit, save>>

-----------------------------------------------------------------------------

SubmitStep(t) ==
  \/ SubmitDedup(t)
  \/ \E valid \in BOOLEAN : SubmitLoad(t, valid)
  \/ SubmitCreate(t)
  \/ SubmitMark(t)
  \/ \E i \in Responses : SubmitCommit(t, i)
  \/ SubmitDuplicate(t)

Next ==
  \/ \E a \in Saves : SaveWrite(a) \/ \E form \in Forms : SaveBegin(a, form)
  \/ Tick
  \/ \E t \in Submits, p \in Participants : SubmitBegin(t, p)
  \/ \E t \in Submits : SubmitStep(t)
  \/ \E i \in Responses : DeleteResponse(i)
  \/ \E e \in Edits : EditBegin(e) \/ EditWrite(e)

Spec == Init /\ [][Next]_vars

-----------------------------------------------------------------------------

\* A participant with a key has at most one response, however many submits run
\* side by side and however often the survey is made anonymous and named again
\* in between (submitSurveyResponse, the indexes of SurveyResponses).
OnePerParticipant ==
  \A i, j \in Stored :
    response[i].who = response[j].who /\ response[i].who # Nobody => i = j

\* "The lock is sticky and irreversible": the one step that makes a started
\* survey editable again is the write of a save that had read the survey before
\* it started; no save that finds it started does, and no deletion of responses,
\* later response or passing of time (latchStartedAt, isSurveyStarted).
StartIsSticky ==
  [][IsStarted /\ ~IsStarted' =>
       \E a \in Saves : save[a].busy /\ ~save'[a].busy /\ ~save[a].started]_vars

\* No edit that began after a response was stored changes the questions under
\* it, unless an overlapping save took back the mark on the survey
\* (deriveTenantAndEnforceImmutability, markSurveyStarted).
NoneOutdated == \A i \in Stored : response[i].outdated => response[i].unmarked
=============================================================================
