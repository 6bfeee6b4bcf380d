------------------------------ MODULE ViewDedup ------------------------------
(***************************************************************************)
(* The memory that keeps a reloaded page from being counted again          *)
(* (site/trafficDedup.ts, captureTrackedView in site/traffic.ts,           *)
(* app/(frontend)/track/route.ts).                                         *)
(*                                                                         *)
(* A map of one process holds, for a visitor, page and day, when the next  *)
(* view may be stored.  It is armed before the insert, swept now and then  *)
(* by the beacons themselves, and empty after a restart.                   *)
(***************************************************************************)
EXTENDS Naturals, FiniteSets

CONSTANTS
  Views,      \* a visitor on a page: client, user agent, canonical path
  DedupWindow,     \* TRACK_DEDUP_WINDOW_MIN, in ticks
  DayLength,  \* ticks a day
  LastMinute  \* bound of the exploration: the clock stops here

ASSUME DedupAssumption == DedupWindow \in Nat \ {0} /\ DayLength \in Nat \ {0} /\ LastMinute \in Nat

VARIABLES
  minute,     \* the clock
  seen,       \* expiry of each key of the map; 0 is no entry
  nextSweep,  \* when the map is swept next
  stored,     \* history: when a view of the key was stored last; 0 is never
  armed       \* history: when the key was armed last by this process

dedupVars == <<minute, seen, nextSweep, stored, armed>>

DedupDays == 0..(LastMinute \div DayLength)

\* buildTrackDedupKey
Key(v) == <<v, minute \div DayLength>>
DedupKeys == Views \X DedupDays

SweepAfter == DedupWindow

\* maybeSweep
DedupSwept(at) ==
  IF at < nextSweep THEN seen ELSE [k \in DedupKeys |-> IF at >= seen[k] THEN 0 ELSE seen[k]]

\* Mutant: the window ends a tick early.
Suppressed_Early(k) == DedupSwept(minute)[k] # 0 /\ minute + 1 < DedupSwept(minute)[k]

\* shouldRecord says no.
Suppressed(k) == DedupSwept(minute)[k] # 0 /\ minute < DedupSwept(minute)[k]

\* The expiry after the look-up.
Expires(k) == IF Suppressed(k) THEN DedupSwept(minute)[k] ELSE minute + DedupWindow

\* A beacon: captureTrackedView; failed: the insert throws and is swallowed.
DedupBeacon(v, failed) ==
  LET k == Key(v) IN
  /\ seen' = [DedupSwept(minute) EXCEPT ![k] = Expires(k)]
  /\ nextSweep' = IF minute < nextSweep THEN nextSweep ELSE minute + SweepAfter
  /\ stored' = IF Suppressed(k) \/ failed THEN stored ELSE [stored EXCEPT ![k] = minute]
  /\ armed' = IF Suppressed(k) THEN armed ELSE [armed EXCEPT ![k] = minute]
  /\ UNCHANGED minute

MinutePasses ==
  /\ minute < LastMinute /\ minute' = minute + 1
  /\ UNCHANGED <<seen, nextSweep, stored, armed>>

\* A new process has an empty map.
RestartDedup ==
  /\ seen' = [k \in DedupKeys |-> 0] /\ nextSweep' = 0
  /\ armed' = [k \in DedupKeys |-> 0]
  /\ UNCHANGED <<minute, stored>>

\* The clock starts at 1: 0 stands for no entry.
DedupInit ==
  /\ minute = 1 /\ nextSweep = 0
  /\ seen = [k \in DedupKeys |-> 0]
  /\ stored = seen /\ armed = seen

DedupNext ==
  \/ \E v \in Views, failed \in BOOLEAN : DedupBeacon(v, failed)
  \/ MinutePasses
  \/ RestartDedup

DedupSpec == DedupInit /\ [][DedupNext]_dedupVars

-----------------------------------------------------------------------------
(* Properties.                                                             *)

\* trafficDedup.ts ("within a short window, ONE view per (session, path)"): two
\* stored views of a page by one visitor on one day are a window apart, unless
\* the process was restarted between them.
ViewsStoredApart ==
  [][\A k \in DedupKeys :
       stored'[k] # stored[k] /\ stored[k] # 0 /\ armed[k] # 0 => minute >= stored[k] + DedupWindow
    ]_dedupVars

\* A view is dropped only while the window of an accepted one is open: a visitor
\* who keeps reloading is counted once a window, and one whose insert failed is
\* lost for at most a window.
SuppressedForOneWindow ==
  [][\A k \in DedupKeys :
       (\E v \in Views, failed \in BOOLEAN : k = Key(v) /\ DedupBeacon(v, failed))
       /\ armed'[k] = armed[k] => armed[k] # 0 /\ minute < armed[k] + DedupWindow
    ]_dedupVars

\* maybeSweep ("so the map can't grow unbounded"): after a beacon the map holds
\* no entry that expired more than a window ago, of this day or another.
SweptInTime ==
  [][\A v \in Views, failed \in BOOLEAN :
       DedupBeacon(v, failed) => \A k \in DedupKeys : seen'[k] = 0 \/ minute < seen'[k] + DedupWindow
    ]_dedupVars

\* The beacon's memory does what it is for and no more: one view a window is stored,
\* none is suppressed longer, nothing expired is kept.
OneViewAWindow == ViewsStoredApart /\ SuppressedForOneWindow /\ SweptInTime
=============================================================================
