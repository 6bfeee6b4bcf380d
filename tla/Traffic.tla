------------------------------- MODULE Traffic -------------------------------
(***************************************************************************)
(* Page-view statistics: the /track beacon stores raw views, the nightly   *)
(* job turns the views of one day into that day's rollup and then deletes  *)
(* raw views past their retention.  Time is the UTC day.  One site is      *)
(* modelled: the job treats the sites one after another and independently. *)
(***************************************************************************)
EXTENDS Integers, FiniteSetsExt

CONSTANTS
  Visitors,   \* session hashes of a day
  Beacons,    \* slots for /track requests in flight
  Jobs,       \* slots for runs of scripts/aggregate-traffic.ts
  Retention,  \* PAGEVIEW_RETENTION_DAYS: parsed as a positive integer
  LastDay,    \* bound of the exploration: the calendar ends here
  MaxViews    \* bound of the exploration: views stored of each day

ASSUME VisitorsAssumption == IsFiniteSet(Visitors) /\ Visitors # {}
ASSUME RetentionAssumption == Retention \in Nat \ {0}
ASSUME BoundsAssumption == LastDay \in Nat /\ MaxViews \in [0..LastDay -> Nat]

VARIABLES
  today,   \* the UTC day
  beacon,  \* /track requests in flight
  raw,     \* stored `pageViews`, by day and session
  rollup,  \* stored `trafficDaily` documents
  job,     \* runs of the job
  hist     \* history of each day, read by the properties only

trafficVars == <<today, beacon, raw, rollup, job, hist>>

-----------------------------------------------------------------------------

Days == 0..LastDay

\* Number of stored views by session.
Counts == [Visitors -> Nat]
None == [v \in Visitors |-> 0]
Total(c) == MapThenSumSet(LAMBDA v : c[v], Visitors)

\* exists: there is a document for the day.
Rollup == [exists: BOOLEAN, views: Nat, visitors: Nat]
NoRollup == [exists |-> FALSE, views |-> 0, visitors |-> 0]

\* A beacon carries the day it was received on; the row is inserted later.
Beacon == [busy: BOOLEAN, visitor: Visitors, day: Days]
NoBeacon == [busy |-> FALSE, visitor |-> CHOOSE v \in Visitors : TRUE, day |-> 0]

\* day, prune: the arguments of the run; figures: what it computed; stale: the
\* day was pruned before it was loaded, or written by another run since; found:
\* a document was there when it looked; todo: aged days left to prune; target:
\* the day whose document it has found and whose views it deletes next.
JobPc == {"idle", "load", "find", "write", "scan", "prune"}
Job == [pc: JobPc, day: Days, prune: BOOLEAN, figures: Rollup, stale: BOOLEAN, found: BOOLEAN,
        todo: SUBSET Days, target: SUBSET Days]
NoJob == [pc |-> "idle", day |-> 0, prune |-> FALSE, figures |-> NoRollup,
          stale |-> FALSE, found |-> FALSE, todo |-> {}, target |-> {}]

\* ever: views stored so far; late: those stored after a job had loaded the
\* day; loaded, pruned: a job has loaded, or deleted, views of the day; redone:
\* its rollup was written from stale figures.
History == [ever: Nat, late: Nat, loaded: BOOLEAN, pruned: BOOLEAN, redone: BOOLEAN]
NoHistory == [ever |-> 0, late |-> 0, loaded |-> FALSE, pruned |-> FALSE, redone |-> FALSE]

TrafficTypeOK ==
  /\ today \in Days
  /\ beacon \in [Beacons -> Beacon]
  /\ raw \in [Days -> Counts]
  /\ rollup \in [Days -> Rollup]
  /\ job \in [Jobs -> Job]
  /\ hist \in [Days -> History]

TrafficInit ==
  /\ today = 0
  /\ beacon = [b \in Beacons |-> NoBeacon]
  /\ raw = [d \in Days |-> None]
  /\ rollup = [d \in Days |-> NoRollup]
  /\ job = [j \in Jobs |-> NoJob]
  /\ hist = [d \in Days |-> NoHistory]

-----------------------------------------------------------------------------
(* The beacon *)

\* The view's time is taken when the request arrives; classifying the path and
\* storing the row come after.
Capture(b, v) ==
  /\ ~beacon[b].busy
  /\ hist[today].ever < MaxViews[today]
  /\ beacon' = [beacon EXCEPT ![b] = [busy |-> TRUE, visitor |-> v, day |-> today]]
  /\ UNCHANGED <<today, raw, rollup, job, hist>>

Insert(b) ==
  LET d == beacon[b].day IN
  /\ beacon[b].busy
  /\ raw' = [raw EXCEPT ![d][beacon[b].visitor] = @ + 1]
  /\ beacon' = [beacon EXCEPT ![b] = NoBeacon]
  /\ hist' = [hist EXCEPT ![d].ever = @ + 1,
                          ![d].late = IF hist[d].loaded THEN @ + 1 ELSE @]
  /\ UNCHANGED <<today, rollup, job>>

\* The view of a failed insert is dropped: capture is best-effort.
InsertFails(b) ==
  /\ beacon[b].busy
  /\ beacon' = [beacon EXCEPT ![b] = NoBeacon]
  /\ UNCHANGED <<today, raw, rollup, job, hist>>

-----------------------------------------------------------------------------
(* Aggregating one day *)

\* The script aggregates yesterday, or the date an operator gives it.
JobStart(j, d, prune) ==
  /\ job[j].pc = "idle"
  /\ job' = [job EXCEPT ![j] = [NoJob EXCEPT !.pc = "load", !.day = d, !.prune = prune]]
  /\ UNCHANGED <<today, beacon, raw, rollup, hist>>

Figures(d) ==
  [exists |-> TRUE, views |-> Total(raw[d]),
   visitors |-> Cardinality({v \in Visitors : raw[d][v] > 0})]

JobLoad(j) ==
  LET d == job[j].day IN
  /\ job[j].pc = "load"
  /\ job' = [job EXCEPT ![j].pc = "find", ![j].figures = Figures(d),
                      ![j].stale = hist[d].pruned]
  /\ hist' = [hist EXCEPT ![d].loaded = TRUE]
  /\ UNCHANGED <<today, beacon, raw, rollup>>

JobFind(j) ==
  /\ job[j].pc = "find"
  /\ job' = [job EXCEPT ![j].pc = "write", ![j].found = rollup[job[j].day].exists]
  /\ UNCHANGED <<today, beacon, raw, rollup, hist>>

\* Update the document that was found, or create one: the unique key refuses
\* a second one, and the script ends there.
JobWrite(j) ==
  LET d == job[j].day
      refused == ~job[j].found /\ rollup[d].exists IN
  /\ job[j].pc = "write"
  /\ rollup' = [rollup EXCEPT ![d] = IF refused THEN @ ELSE job[j].figures]
  /\ job' = [i \in Jobs |->
       IF i = j
       THEN IF ~refused /\ job[j].prune THEN [NoJob EXCEPT !.pc = "scan"] ELSE NoJob
       ELSE [job[i] EXCEPT !.stale = @ \/ (job[i].pc \in {"find", "write"}
                                           /\ job[i].day = d /\ ~refused)]]
  /\ hist' = [hist EXCEPT ![d].redone = @ \/ (job[j].stale /\ ~refused)]
  /\ UNCHANGED <<today, beacon, raw>>

-----------------------------------------------------------------------------
(* Pruning raw views *)

\* Days with raw views from before the day `Retention` days ago.
Aged == {d \in Days : d < today - Retention /\ raw[d] # None}

\* One run inspects all aged views (the cap of a first run over a large backlog
\* is left out: a second run drains what is left).
JobScan(j) ==
  /\ job[j].pc = "scan"
  /\ job' = [job EXCEPT ![j].pc = "prune", ![j].todo = Aged]
  /\ UNCHANGED <<today, beacon, raw, rollup, hist>>

\* Mutant: a day is pruned without looking for its rollup.
MayPrune_Unchecked(d) == TRUE

MayPrune(d) == rollup[d].exists

\* A day without a rollup is skipped.
JobCheck(j, d) ==
  /\ job[j].pc = "prune" /\ job[j].target = {} /\ d \in job[j].todo
  /\ job' = [job EXCEPT ![j].todo = @ \ {d},
                        ![j].target = IF MayPrune(d) THEN {d} ELSE {}]
  /\ UNCHANGED <<today, beacon, raw, rollup, hist>>

\* All views of the day go, those stored since the check included.
JobDelete(j, d) ==
  /\ job[j].pc = "prune" /\ d \in job[j].target
  /\ raw' = [raw EXCEPT ![d] = None]
  /\ job' = [job EXCEPT ![j].target = {}]
  /\ hist' = [hist EXCEPT ![d].pruned = TRUE]
  /\ UNCHANGED <<today, beacon, rollup>>

JobEnd(j) ==
  /\ job[j].pc = "prune" /\ job[j].todo = {} /\ job[j].target = {}
  /\ job' = [job EXCEPT ![j] = NoJob]
  /\ UNCHANGED <<today, beacon, raw, rollup, hist>>

-----------------------------------------------------------------------------

Midnight ==
  /\ today < LastDay
  /\ today' = today + 1
  /\ UNCHANGED <<beacon, raw, rollup, job, hist>>

JobStep(j) ==
  \/ JobLoad(j)
  \/ JobFind(j)
  \/ JobWrite(j)
  \/ JobScan(j)
  \/ \E d \in Days : JobCheck(j, d) \/ JobDelete(j, d)
  \/ JobEnd(j)

TrafficNext ==
  \/ \E b \in Beacons, v \in Visitors : Capture(b, v)
  \/ \E b \in Beacons : Insert(b) \/ InsertFails(b)
  \/ \E j \in Jobs, d \in Days, prune \in BOOLEAN : JobStart(j, d, prune)
  \/ \E j \in Jobs : JobStep(j)
  \/ Midnight

TrafficSpec == TrafficInit /\ [][TrafficNext]_trafficVars

-----------------------------------------------------------------------------

\* No view is counted twice, whatever is re-run and whatever runs side by side
\* (aggregateTrafficForDate).
NeverOvercounts == \A d \in Days : rollup[d].views <= hist[d].ever

\* Raw views are only ever deleted from days that have a rollup
\* (pruneAgedPageViews).
PrunedHaveRollup == \A d \in Days : hist[d].pruned => rollup[d].exists

\* A rollup only loses views to a run that overlapped another one of its day, or
\* that came after the day was pruned (aggregateTrafficForDate).
RollupsOnlyGrow ==
  [][\A d \in Days : hist'[d].redone \/ rollup'[d].views >= rollup[d].views]_trafficVars

\* Apart from such runs, the only views that pruning loses are those stored
\* after a job had loaded their day (pruneAgedPageViews).
PrunedWereCounted ==
  \A d \in Days : hist[d].pruned /\ ~hist[d].redone =>
    hist[d].ever <= rollup[d].views + hist[d].late

\* A view is counted once: never twice, never pruned uncounted, and never lost from
\* a rollup but to a run that overlapped another or came after the pruning.
ViewsCountedOnce ==
  /\ [](TrafficTypeOK /\ NeverOvercounts /\ PrunedHaveRollup /\ PrunedWereCounted)
  /\ RollupsOnlyGrow

\* "The daily rollups are the permanent record": once the raw views of a day are
\* gone, its rollup stays as it is.
PermanentRecord ==
  [][\A d \in Days : hist[d].pruned => rollup'[d] = rollup[d]]_trafficVars
=============================================================================
