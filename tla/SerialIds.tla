------------------------------ MODULE SerialIds ------------------------------
(***************************************************************************)
(* Numbers the program gives out itself as "largest plus one": bbsId of    *)
(* boards, code of board types, menuNumber of the menus of a site          *)
(* (collections/boards/defaults.ts, BoardTypes.ts, Boards.ts, Menus.ts).   *)
(*                                                                         *)
(* A create reads the rows, computes its number and inserts; a unique      *)
(* index decides between two that computed the same.  Deleted rows leave   *)
(* gaps, and the seed pins numbers of its own.                             *)
(***************************************************************************)
EXTENDS Naturals, FiniteSets, FiniteSetsExt

CONSTANTS
  Creates,    \* creates in flight, each names the row it would make
  LastNumber  \* bound of the exploration: no create computes a larger one

ASSUME SerialAssumption == IsFiniteSet(Creates) /\ LastNumber \in Nat

VARIABLES
  numbered,   \* rows and their numbers; 0 is no row
  creating,   \* stage of each create and the number it computed
  overtaken,  \* history: another row was inserted while it was under way
  freed       \* history: numbers of deleted rows

serialVars == <<numbered, creating, overtaken, freed>>

InUse == {numbered[c] : c \in Creates} \ {0}

\* Mutant: as many as there are, plus one.
NextNumber_Count == Cardinality(InUse) + 1

\* generateNextSequentialId, assignMenuNumber
NextSerial == Max(InUse \cup {0}) + 1

ComputeNumber(c) ==
  /\ creating[c].stage = "new" /\ NextSerial <= LastNumber
  /\ creating' = [creating EXCEPT ![c] = [stage |-> "computed", no |-> NextSerial]]
  /\ UNCHANGED <<numbered, overtaken, freed>>

\* A row of the seed brings its number along.
PinNumber(c) ==
  /\ creating[c].stage = "new"
  /\ \E n \in 1..LastNumber : creating' = [creating EXCEPT ![c] = [stage |-> "pinned", no |-> n]]
  /\ UNCHANGED <<numbered, overtaken, freed>>

\* The unique index.
Free(n) == n \notin InUse

InsertNumbered(c) ==
  /\ creating[c].stage \in {"computed", "pinned"} /\ Free(creating[c].no)
  /\ numbered' = [numbered EXCEPT ![c] = creating[c].no]
  /\ creating' = [creating EXCEPT ![c].stage = "made"]
  /\ overtaken' = [d \in Creates |-> overtaken[d] \/ (d # c /\ creating[d].stage = "computed")]
  /\ UNCHANGED freed

\* 23505: the create fails with "Value must be unique" and may be made again.
RefuseCreate(c) ==
  /\ creating[c].stage \in {"computed", "pinned"} /\ creating[c].no \in InUse
  /\ creating' = [creating EXCEPT ![c].stage =
                    IF creating[c].stage = "computed" THEN "refused" ELSE "new"]
  /\ UNCHANGED <<numbered, overtaken, freed>>

\* The administrator retries.
RetryCreate(c) ==
  /\ creating[c].stage = "refused"
  /\ creating' = [creating EXCEPT ![c].stage = "new"]
  /\ overtaken' = [overtaken EXCEPT ![c] = FALSE]
  /\ UNCHANGED <<numbered, freed>>

DeleteNumbered(c) ==
  /\ creating[c].stage = "made"
  /\ numbered' = [numbered EXCEPT ![c] = 0]
  /\ creating' = [creating EXCEPT ![c] = [stage |-> "new", no |-> 0]]
  /\ freed' = freed \cup {numbered[c]}
  /\ overtaken' = [overtaken EXCEPT ![c] = FALSE]

SerialInit ==
  /\ numbered = [c \in Creates |-> 0]
  /\ creating = [c \in Creates |-> [stage |-> "new", no |-> 0]]
  /\ overtaken = [c \in Creates |-> FALSE]
  /\ freed = {}

SerialNext ==
  \E c \in Creates :
    \/ ComputeNumber(c) \/ PinNumber(c) \/ InsertNumbered(c) \/ RefuseCreate(c)
    \/ RetryCreate(c) \/ DeleteNumbered(c)

SerialSpec == SerialInit /\ [][SerialNext]_serialVars

\* defaults.ts: no two rows that exist have the same number, whatever creates,
\* pins, deletions and retries overlapped.
NumbersUnique ==
  \A c, d \in Creates : c # d /\ numbered[c] # 0 => numbered[c] # numbered[d]

\* defaults.ts ("the loser of the race trips the unique constraint"): a create
\* that computed its number is refused only if another row came in between;
\* gaps, pinned and deleted numbers never make it fail.
RefusedOnlyByRace == \A c \in Creates : creating[c].stage = "refused" => overtaken[c]

\* A number is given out a second time only if no row with a larger one was
\* left: an address /board/B... or /page/... never passes to a row made while
\* younger ones exist, except by a pin.
ReusedOnlyFromTheTop ==
  [][\A c \in Creates :
       /\ InsertNumbered(c) /\ creating[c].stage = "computed" /\ ~overtaken[c] /\ creating[c].no \in freed
       => \A n \in InUse : n < creating[c].no
    ]_serialVars

\* Numbers without a sequence of the database: unique all the same, refused only by
\* a race and given out again only from the top.
NumbersAreSound == [](NumbersUnique /\ RefusedOnlyByRace) /\ ReusedOnlyFromTheTop
=============================================================================
