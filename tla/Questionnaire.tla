---------------------------- MODULE Questionnaire ----------------------------
(***************************************************************************)
(* The questions of one survey and what becomes of the answers: the walk   *)
(* along the skip logic, the rules a sheet must satisfy, the answers that  *)
(* are stored, and the results made of them for administrators and for the *)
(* public (src/content/survey.ts).  The start latch freezes the questions; *)
(* how saves of the survey race with it is the matter of Surveys.          *)
(***************************************************************************)
EXTENDS Integers, FiniteSets, FiniteSetsExt

CONSTANTS
  QuestionIds,  \* rows of `surveyQuestions`, in the order of their ids
  Orders,       \* values of the column `order`
  OptionValues,      \* values of options
  Drafts,       \* what an author may make of each question
  Filled,       \* sheets that respondents hand in
  Slots,        \* slots for rows of `surveyResponses`
  Visibilities, \* settings of `resultVisibility` an administrator uses
  NoJump, NoQuestion

Question == [order: Orders, type: {"single", "multi", "text"}, required: BOOLEAN,
             options: SUBSET OptionValues, other: SUBSET OptionValues,
             jump: [OptionValues -> Orders \cup {NoJump}], public: BOOLEAN]

\* A sheet has the options picked and the text filled in under each order.
Reply == [picks: SUBSET OptionValues, text: BOOLEAN]
Blank == [picks |-> {}, text |-> FALSE]

ASSUME QuestionnaireAssumption ==
  /\ QuestionIds \subseteq Int /\ Orders \subseteq Int
  /\ IsFiniteSet(QuestionIds) /\ IsFiniteSet(Orders)
  /\ IsFiniteSet(OptionValues) /\ IsFiniteSet(Slots)
  /\ Drafts \in [QuestionIds -> SUBSET (Question \cup {NoQuestion})]
  /\ Filled \subseteq [Orders -> Reply]
  /\ Visibilities \subseteq {"afterClose", "duringAndAfter", "adminsOnly"}

VARIABLES
  asked,       \* the stored questions
  phase,       \* the status of the survey, from its window and switch
  latched,     \* whether it has started, by its window or a response
  authoring,   \* a change of a question in flight, after its check
  sheet,       \* a submit in flight: the answers it will store
  replies,     \* stored responses
  page         \* a request for the public page that has read the questions

questionVars == <<asked, phase, latched, authoring, sheet, replies, page>>

-----------------------------------------------------------------------------
(* The walk along the questions, for a set of answers by question id.      *)

Present(qs) == {i \in QuestionIds : qs[i] # NoQuestion}
OrdersOf(qs) == {qs[i].order : i \in Present(qs)}

\* Of two questions with one order, the walk looks at the later one.
At(qs, o) == Max({i \in Present(qs) : qs[i].order = o})

\* The next question in order; the walk ends behind two of the same order.
Following(qs, o) ==
  LET twins == {i \in Present(qs) : qs[i].order = o}
      later == {n \in OrdersOf(qs) : n > o}
  IN  IF Cardinality(twins) > 1 THEN {o} ELSE IF later = {} THEN {} ELSE {Min(later)}

\* Where the walk goes from order o: an option chosen of a single question may
\* jump.  (A sheet with two of them is refused anyway.)
LeadsTo(qs, answers, o) ==
  LET q == qs[At(qs, o)]
      jumps == {q.jump[v] : v \in answers[At(qs, o)].picks \cap q.options} \ {NoJump}
  IN  IF q.type = "single" /\ jumps # {} THEN {Min(jumps)} ELSE Following(qs, o)

\* The orders the walk meets until it stops or comes round.
WalkAlong(orders, leads) ==
  LET Walk[s \in [met: SUBSET Orders, at: SUBSET Orders]] ==
        IF s.at \subseteq s.met \/ ~(s.at \subseteq orders) THEN s.met
        ELSE Walk[[met |-> s.met \cup s.at, at |-> UNION {leads[o] : o \in s.at}]]
  IN  Walk[[met |-> {}, at |-> IF orders = {} THEN {} ELSE {Min(orders)}]]

Reachable(qs, answers) ==
  WalkAlong(OrdersOf(qs), [o \in OrdersOf(qs) |-> LeadsTo(qs, answers, o)])

-----------------------------------------------------------------------------
(* The rules for answers.                                                  *)

OnSheet(qs, s) ==
  [i \in QuestionIds |-> IF i \in Present(qs) THEN s[qs[i].order] ELSE Blank]

OtherPicked(q, a) == a.picks \cap q.other # {}

\* What is stored of an answer: a text only where one is asked for.
Kept(q, a) ==
  IF q.type = "text" THEN [Blank EXCEPT !.text = a.text]
  ELSE [a EXCEPT !.text = @ /\ OtherPicked(q, a)]

Given(q, a) == Kept(q, a) # Blank

\* A question that is met must be answered if it is required; one that is
\* skipped need not, but whatever is said there must fit as well.
Fits(q, a, met) ==
  /\ q.required /\ met => Given(q, a)
  /\ q.type # "text" =>
       /\ a.picks \subseteq q.options
       /\ q.type = "single" => Cardinality(a.picks) <= 1
       /\ OtherPicked(q, a) => a.text

Valid(qs, answers) ==
  \A i \in Present(qs) : Fits(qs[i], answers[i], qs[i].order \in Reachable(qs, answers))

\* The answers a valid sheet leaves, those off the walk included.
Normalized(qs, s) ==
  [i \in QuestionIds |-> IF i \in Present(qs) THEN Kept(qs[i], OnSheet(qs, s)[i]) ELSE Blank]

-----------------------------------------------------------------------------
(* The results.                                                            *)

Live == {k \in Slots : replies[k].live}

\* Responses that answer question i, that picked v there, or that wrote there.
Answered(i) == {k \in Live : replies[k].answers[i] # Blank}
Picked(i, v) == {k \in Live : v \in replies[k].answers[i].picks}
Wrote(i) == {k \in Live : replies[k].answers[i].text}

\* Responses whose words the public sees: those to a question that is opted in.
Verbatim(i, opted) == IF i \in opted THEN Wrote(i) ELSE {}

\* Whether the public sees any results.
ResultsVisible(v) ==
  \/ v = "duringAndAfter" /\ phase # "scheduled"
  \/ v = "afterClose" /\ phase = "closed"

-----------------------------------------------------------------------------

IdleAuthor == [busy |-> FALSE, id |-> 0, question |-> NoQuestion]
NoSheet == [busy |-> FALSE, answers |-> [i \in QuestionIds |-> Blank],
            opted |-> {}, changed |-> FALSE]
NoReply == [live |-> FALSE, answers |-> [i \in QuestionIds |-> Blank],
            opted |-> {}, raced |-> FALSE]
NoPage == [busy |-> FALSE, opted |-> {}, changed |-> FALSE, exposed |-> {}]

Opted(qs) == {i \in Present(qs) : qs[i].public}

QuestionnaireInit ==
  /\ asked \in {qs \in [QuestionIds -> UNION {Drafts[i] : i \in QuestionIds}] :
                  \A i \in QuestionIds : qs[i] \in Drafts[i]}
  /\ phase = "scheduled" /\ latched = FALSE
  /\ authoring = IdleAuthor /\ sheet = NoSheet /\ page = NoPage
  /\ replies = [k \in Slots |-> NoReply]

\* The window turns, by the clock or by an administrator.  A start time that has
\* passed latches the survey; one that is switched on without does not.
Turn(p, timed) ==
  /\ phase' = p
  /\ latched' = (latched \/ (timed /\ p # "scheduled"))
  /\ UNCHANGED <<asked, authoring, sheet, replies, page>>

\* Mutant: questions are frozen only while the survey is open.
Frozen_Open == phase = "open"

\* Questions cannot be created, changed or deleted any more.
Frozen == latched

\* An author changes, creates or deletes a question: the check.
AuthorBegin(i, q) ==
  /\ ~authoring.busy /\ ~Frozen /\ q # asked[i]
  /\ authoring' = [busy |-> TRUE, id |-> i, question |-> q]
  /\ UNCHANGED <<asked, phase, latched, sheet, replies, page>>

\* The write.  Whoever has read the questions holds old ones.
AuthorWrite ==
  /\ authoring.busy
  /\ asked' = [asked EXCEPT ![authoring.id] = authoring.question]
  /\ authoring' = IdleAuthor
  /\ sheet' = [sheet EXCEPT !.changed = @ \/ sheet.busy]
  /\ page' = [page EXCEPT !.changed = @ \/ page.busy]
  /\ UNCHANGED <<phase, latched, replies>>

\* A sheet is checked against the questions, if the survey is open.
SheetBegin(s) ==
  /\ ~sheet.busy /\ phase = "open"
  /\ Valid(asked, OnSheet(asked, s))
  /\ sheet' = [busy |-> TRUE, answers |-> Normalized(asked, s), opted |-> Opted(asked),
               changed |-> FALSE]
  /\ UNCHANGED <<asked, phase, latched, authoring, replies, page>>

\* Its answers are stored, and the survey has started.
SheetStore(k) ==
  /\ sheet.busy /\ ~replies[k].live
  /\ replies' = [replies EXCEPT ![k] =
       [live |-> TRUE, answers |-> sheet.answers, opted |-> sheet.opted,
        raced |-> sheet.changed \/ authoring.busy]]
  /\ latched' = TRUE
  /\ sheet' = NoSheet
  /\ UNCHANGED <<asked, phase, authoring, page>>

\* The create is refused: the participant has answered already.
SheetRefused ==
  /\ sheet.busy /\ sheet' = NoSheet
  /\ UNCHANGED <<asked, phase, latched, authoring, replies, page>>

DropReply(k) ==
  /\ replies[k].live
  /\ replies' = [replies EXCEPT ![k] = NoReply]
  /\ UNCHANGED <<asked, phase, latched, authoring, sheet, page>>

\* The public page reads the survey and its questions.  An administrator may set
\* resultVisibility at any time, so it finds any.
PageBegin(v) ==
  /\ ~page.busy /\ ResultsVisible(v)
  /\ page' = [NoPage EXCEPT !.busy = TRUE, !.opted = Opted(asked)]
  /\ UNCHANGED <<asked, phase, latched, authoring, sheet, replies>>

\* It reads the responses and shows what they add up to.  exposed: responses
\* whose words are shown for a question that was not opted in when they were
\* given; not looked at if the questions have changed since they were read.
PageShow ==
  /\ page.busy
  /\ page' = [NoPage EXCEPT !.exposed =
       IF page.changed THEN {}
       ELSE UNION {{k \in Verbatim(i, page.opted) :
                      i \notin replies[k].opted /\ ~replies[k].raced}
                   : i \in Present(asked)}]
  /\ UNCHANGED <<asked, phase, latched, authoring, sheet, replies>>

QuestionnaireNext ==
  \/ \E p \in {"scheduled", "open", "closed"}, timed \in BOOLEAN : Turn(p, timed)
  \/ \E i \in QuestionIds : \E q \in Drafts[i] : AuthorBegin(i, q)
  \/ AuthorWrite
  \/ \E s \in Filled : SheetBegin(s)
  \/ \E k \in Slots : SheetStore(k) \/ DropReply(k)
  \/ \E v \in Visibilities : PageBegin(v)
  \/ SheetRefused \/ PageShow

QuestionnaireSpec == QuestionnaireInit /\ [][QuestionnaireNext]_questionVars

-----------------------------------------------------------------------------
(* Properties.                                                             *)

\* Type invariant of the questionnaire.
QuestionnaireTypeOK ==
  /\ asked \in [QuestionIds -> Question \cup {NoQuestion}]
  /\ phase \in {"scheduled", "open", "closed"} /\ latched \in BOOLEAN
  /\ \A k \in Slots : replies[k].answers \in [QuestionIds -> Reply]

\* The orders on the way of a respondent, as the documentation has it: the first,
\* and with an order the one it leads to.
OnTheWay(qs, answers) ==
  {o \in OrdersOf(qs) :
     \A S \in SUBSET OrdersOf(qs) :
       (/\ Min(OrdersOf(qs)) \in S
        /\ \A p \in S : LeadsTo(qs, answers, p) \cap OrdersOf(qs) \subseteq S) => o \in S}

\* "The server-side validation must still accept a valid skip path": whatever an
\* author makes of the questions, whoever answers those on his way, and nothing
\* else, is accepted, also where jumps go back, come round or lead nowhere
\* (reachableQuestionOrders, validateSurveyAnswers).
SkipPathsAccepted ==
  (authoring.busy /\ ~latched /\ phase = "scheduled" /\ Live = {}) =>
    LET qs == [asked EXCEPT ![authoring.id] = authoring.question] IN
      \A s \in [Orders -> Reply] :
        LET answers == OnSheet(qs, s)
            way == OnTheWay(qs, answers)
        IN  (\A i \in Present(qs) :
               IF qs[i].order \in way THEN Fits(qs[i], answers[i], TRUE)
               ELSE answers[i] = Blank)
            => Valid(qs, answers)

\* What is stored satisfies the rules of the questions as they are now, however
\* long ago it was checked; only a change that was under way when the response
\* was stored can say otherwise (the freeze of started surveys).
StoredAnswersFit ==
  \A k \in Live : ~replies[k].raced => Valid(asked, replies[k].answers)

\* Then the results add up: of a single question the options' counts make the
\* number of answers, of a multiple one none exceeds it.
ResultsAddUp ==
  (\A k \in Live : ~replies[k].raced) =>
    \A i \in Present(asked) :
      /\ asked[i].type = "single" =>
           LET count == [v \in asked[i].options |-> Cardinality(Picked(i, v))] IN
             Cardinality(Answered(i)) = MapThenSumSet(LAMBDA v : count[v], asked[i].options)
      /\ \A v \in asked[i].options : Picked(i, v) \subseteq Answered(i)

\* Nobody's words are shown to the public for a question that was not opted in
\* when they were written, unless a change of a question was under way.
WordsStayPrivate == page.exposed = {}

\* The results of a survey stand for what its respondents were asked and said.
ResultsAreFaithful ==
  /\ QuestionnaireTypeOK /\ SkipPathsAccepted /\ StoredAnswersFit
  /\ ResultsAddUp /\ WordsStayPrivate
=============================================================================
