--------------------------- MODULE AdminAuthProofs ---------------------------
(***************************************************************************)
(* Theorems about AdminAuth, for any number of users, of logins and of     *)
(* enrolments and updates in flight, any cap and any lock time.            *)
(***************************************************************************)
EXTENDS AdminAuth, FiniteSetTheorems, TLAPS

\* The idle slots are well typed: there is a user to name in them.
LEMMA IdleSlots ==
  /\ NoLogin \in Login /\ NoEnrol \in Enrol /\ NoUpdate \in Update
  /\ NewRow \in Row
<1>1. (CHOOSE u \in Users : TRUE) \in Users
  BY UsersAssumption
<1>2. NewRow \in Row
  BY ThrottleAssumption, StatusAssumption DEF NewRow, Row, MaybeSecret
<1>3. NoLogin \in Login
  BY <1>1, ThrottleAssumption, StatusAssumption DEF NoLogin, Login, LoginPc, Snap
<1>4. NoUpdate \in Update
  BY <1>1, <1>2 DEF NoUpdate, Update, MaybeSecret
<1>. QED
  BY <1>1, <1>2, <1>3, <1>4 DEF NoEnrol, Enrol, EnrolPc, MaybeSecret

\* A fresh update is well typed.
LEMMA MergedType ==
  ASSUME TypeOK, NEW u \in Users, NEW r \in Row
  PROVE  Merged(u, r) \in Update
BY DEF Merged, TypeOK, Update, History, MaybeSecret

\* Taking an enrolment back keeps a row well typed, its status and its throttle.
LEMMA ResetRowType ==
  ASSUME NEW r \in Row, NEW s \in MaybeSecret
  PROVE  /\ ResetRow(r, s) \in Row
         /\ ResetRow(r, s).status = r.status
         /\ ResetRow(r, s).lock = r.lock
         /\ ResetRow(r, s).failed = r.failed
<1>1. [r EXCEPT !.secret = s] \in Row
  BY DEF Row
<1>. QED
  BY <1>1 DEF Row, ResetRow

\* The last activity and the remaining lock may change, of a row stored or held.
LEMMA AgedType ==
  /\ \A r \in Row, b \in BOOLEAN :
       /\ [r EXCEPT !.idle = b] \in Row
       /\ [r EXCEPT !.idle = b].status = r.status
       /\ [r EXCEPT !.idle = b].lock = r.lock
       /\ [r EXCEPT !.idle = b].failed = r.failed
  /\ \A r \in Row, n \in 0..LockTicks : [r EXCEPT !.lock = n] \in Row
  /\ \A w \in Update, r \in Row : [w EXCEPT !.row = r] \in Update
<1>1. \A r \in Row, b \in BOOLEAN : [r EXCEPT !.idle = b] \in Row
  BY DEF Row
<1>2. \A r \in Row, n \in 0..LockTicks : [r EXCEPT !.lock = n] \in Row
  BY DEF Row
<1>3. \A w \in Update, r \in Row : [w EXCEPT !.row = r] \in Update
  BY DEF Update
<1>. QED
  BY <1>1, <1>2, <1>3 DEF Row

\* The miss just counted, as it is stored.
LEMMA MissedType ==
  ASSUME TypeOK, NEW l \in Logins, NEW n, n = Missed(l)
  PROVE  /\ n \in Nat /\ n = row[login[l].user].failed + 1
         /\ (IF n > MaxFailed THEN MaxFailed ELSE n) \in 0..MaxFailed
         /\ (IF n >= MaxAttempts THEN LockTicks ELSE row[login[l].user].lock) \in 0..LockTicks
<1>1. row[login[l].user] \in Row
  BY DEF TypeOK, Login
<1>2. /\ row[login[l].user].failed \in 0..MaxFailed
      /\ row[login[l].user].lock \in 0..LockTicks
  BY <1>1 DEF Row
<1>. QED
  BY <1>2, ThrottleAssumption DEF Missed

\* Ticking a lock keeps it a lock.
LEMMA LessType == \A n \in 0..LockTicks : Less(n) \in 0..LockTicks /\ (Less(n) > 0 => n > 0)
  BY ThrottleAssumption DEF Less

\* Clearing the throttle keeps a row well typed, and its status.
LEMMA ClearedFields ==
  ASSUME NEW r \in Row
  PROVE  Cleared(r) \in Row /\ Cleared(r).lock = 0 /\ Cleared(r).status = r.status
<1>1. [r EXCEPT !.failed = 0] \in Row /\ [r EXCEPT !.failed = 0].status = r.status
  BY ThrottleAssumption DEF Row
<1>2. \A c \in Row : /\ [c EXCEPT !.lock = 0] \in Row
                     /\ [c EXCEPT !.lock = 0].lock = 0
                     /\ [c EXCEPT !.lock = 0].status = c.status
  BY ThrottleAssumption DEF Row
<1>. QED
  BY <1>1, <1>2 DEF Cleared

\* Beginning a status update keeps the types; the admin edit and the sweep.
LEMMA StatusUpdateType ==
  ASSUME TypeOK, NEW d \in Updates, NEW u \in Users, NEW st \in Status,
         StatusUpdate(d, u, st), sweep' \in SUBSET Users
  PROVE  TypeOK'
<1>. DEFINE r == [row[u] EXCEPT !.status = st]
            m == Merged(u, r)
            ss == IF Revokes(row[u].status, st) THEN {} ELSE m.sessions
<1>1. r \in Row
  BY DEF TypeOK, Row
<1>2. m \in Update
  BY <1>1, MergedType
<1>3. update' = [update EXCEPT ![d] = [m EXCEPT !.sessions = ss]]
  BY DEF StatusUpdate
<1>. HIDE DEF r, m
<1>4. [m EXCEPT !.sessions = ss] \in Update
  BY <1>2 DEF Update
<1>5. update' \in [Updates -> Update]
  BY <1>3, <1>4 DEF TypeOK
<1>. QED
  BY <1>5 DEF TypeOK, StatusUpdate

\* The write of an update keeps the types.
LEMMA UpdateWriteType ==
  ASSUME TypeOK, NEW d \in Updates, UpdateWrite(d)
  PROVE  TypeOK'
<1>. DEFINE w == update[d]
<1>1. w \in Update /\ w.user \in Users /\ w.row \in Row /\ w.sessions \in SUBSET Session
      /\ w.proof \in MaybeSecret /\ w.reset \in BOOLEAN /\ w.stale \in BOOLEAN
  BY DEF TypeOK, Update
<1>2. row' \in [Users -> Row] /\ sessions' \in [Users -> SUBSET Session]
  BY <1>1 DEF TypeOK, UpdateWrite
<1>3. login' \in [Logins -> Login]
  BY DEF TypeOK, UpdateWrite, Login
<1>4. enrol' \in [Enrols -> Enrol]
  BY DEF TypeOK, UpdateWrite, Enrol
<1>5. update' \in [Updates -> Update]
  <2>1. \A f \in Updates, b \in BOOLEAN : [update[f] EXCEPT !.stale = @ \/ b] \in Update
    BY DEF TypeOK, Update
  <2>. QED
    BY <2>1, IdleSlots DEF UpdateWrite
<1>6. hist' \in [Users -> History]
  <2>1. \A v \in MaybeSecret, t \in BOOLEAN, g \in Nat :
          [verified |-> v, tainted |-> t, guesses |-> g] \in History
    BY DEF History
  <2>. QED
    BY <1>1, <2>1 DEF TypeOK, UpdateWrite, History
<1>. QED
  BY <1>2, <1>3, <1>4, <1>5, <1>6 DEF TypeOK, UpdateWrite

\* Committing a login keeps the types.
LEMMA CommitType ==
  ASSUME TypeOK, NEW l \in Logins, NEW r \in Row, Commit(l, r), hist' \in [Users -> History]
  PROVE  TypeOK'
<1>1. login[l].user \in Users /\ login[l].raced \in BOOLEAN
  BY DEF TypeOK, Login
<1>2. sessions' \in [Users -> SUBSET Session]
  BY <1>1 DEF TypeOK, Commit, Session
<1>3. row' \in [Users -> Row] /\ login' \in [Logins -> Login]
  BY <1>1, IdleSlots DEF TypeOK, Commit
<1>. QED
  BY <1>2, <1>3 DEF TypeOK, Commit

\* Every installation a run starts from has the types of the module.
LEMMA InitType == Init => TypeOK
<1>. SUFFICES ASSUME Init PROVE TypeOK
  OBVIOUS
<1>1. \A s \in Secrets : EnrolledRow(s) \in Row
  BY IdleSlots DEF EnrolledRow, Row, MaybeSecret
<1>2. row \in [Users -> Row]
  BY <1>1, IdleSlots DEF Init
<1>3. issued \in SUBSET Secrets
  BY <1>2 DEF Init, Row, MaybeSecret
<1>4. hist \in [Users -> History]
  BY <1>2 DEF Init, History, Row
<1>. QED
  BY <1>2, <1>3, <1>4, IdleSlots DEF Init, TypeOK

\* Each step of a login, an enrolment, an update or the clock keeps the types.
LEMMA NextType == TypeOK /\ [Next]_vars => TypeOK'
<1>. SUFFICES ASSUME TypeOK, [Next]_vars PROVE TypeOK'
  OBVIOUS
<1>1. ASSUME NEW l \in Logins, NEW u \in Users, LoginStart(l, u) PROVE TypeOK'
  BY <1>1 DEF TypeOK, LoginStart, Login, LoginPc, Seen, Enrolled, Snap, Row
<1>2. ASSUME NEW l \in Logins, LoginRefused(l) PROVE TypeOK'
  BY <1>2, IdleSlots DEF TypeOK, LoginRefused
<1>3. ASSUME NEW l \in Logins, OtpWrong(l) PROVE TypeOK'
  <2>1. login' \in [Logins -> Login]
    BY <1>3 DEF TypeOK, OtpWrong, Login, LoginPc
  <2>2. hist' \in [Users -> History]
    <3>1. login[l].user \in Users
      BY DEF TypeOK, Login
    <3>2. [hist[login[l].user] EXCEPT !.guesses = @ + 1] \in History
      BY <3>1 DEF TypeOK, History
    <3>. QED
      BY <1>3, <3>1, <3>2 DEF TypeOK, OtpWrong
  <2>. QED
    BY <1>3, <2>1, <2>2 DEF TypeOK, OtpWrong
<1>4. ASSUME NEW l \in Logins, LoginWithPassword(l) PROVE TypeOK'
  <2>1. [row[login[l].user] EXCEPT !.idle = FALSE] \in Row
    BY AgedType DEF TypeOK, Login
  <2>. QED
    BY <1>4, <2>1, CommitType DEF LoginWithPassword, TypeOK
<1>5. ASSUME NEW l \in Logins, LoginWithOtp(l) PROVE TypeOK'
  <2>1. [row[login[l].user] EXCEPT !.idle = FALSE] \in Row
    BY AgedType DEF TypeOK, Login
  <2>2. Cleared([row[login[l].user] EXCEPT !.idle = FALSE]) \in Row
    BY <2>1, ClearedFields
  <2>3. [hist EXCEPT ![login[l].user].guesses = 0] \in [Users -> History]
    BY DEF TypeOK, History
  <2>. QED
    BY <1>5, <2>1, <2>2, <2>3, CommitType DEF LoginWithOtp, TypeOK
<1>6. ASSUME NEW l \in Logins, ThrottleTwoFactorFailure(l) PROVE TypeOK'
  <2>. DEFINE v == login[l].user
              n == Missed(l)
              failed == IF n > MaxFailed THEN MaxFailed ELSE n
              lock == IF n >= MaxAttempts THEN LockTicks ELSE row[v].lock
  <2>1. v \in Users /\ row[v] \in Row
    BY DEF TypeOK, Login
  <2>2. failed \in 0..MaxFailed /\ lock \in 0..LockTicks
    BY MissedType
  <2>3. row' = [row EXCEPT ![v] = [row[v] EXCEPT !.failed = failed, !.lock = lock]]
    BY <1>6, <2>1 DEF TypeOK, ThrottleTwoFactorFailure
  <2>. HIDE DEF n, failed, lock
  <2>4. [row[v] EXCEPT !.failed = failed, !.lock = lock] \in Row
    BY <2>1, <2>2 DEF Row
  <2>5. row' \in [Users -> Row]
    BY <2>1, <2>3, <2>4 DEF TypeOK
  <2>. QED
    BY <1>6, <2>5, IdleSlots DEF TypeOK, ThrottleTwoFactorFailure
<1>7. ASSUME NEW u \in Users, Logout(u) PROVE TypeOK'
  BY <1>7 DEF TypeOK, Logout
<1>8. ASSUME NEW e \in Enrols, NEW u \in Users, EnrollRead(e, u) \/ VerifyRead(e, u) PROVE TypeOK'
  <2>1. row[u].secret \in MaybeSecret /\ NoSecret \in MaybeSecret
    BY DEF TypeOK, Row, MaybeSecret
  <2>2. CASE EnrollRead(e, u)
    BY <2>1, <2>2 DEF TypeOK, EnrollRead, Enrol, EnrolPc
  <2>3. CASE VerifyRead(e, u)
    BY <2>1, <2>3 DEF TypeOK, VerifyRead, Enrol, EnrolPc
  <2>. QED
    BY <1>8, <2>2, <2>3
<1>9. ASSUME NEW e \in Enrols, NEW d \in Updates, NEW s \in Secrets, EnrollIssue(e, d, s)
      PROVE  TypeOK'
  <2>. DEFINE u == enrol[e].user
              m == Merged(u, [row[u] EXCEPT !.secret = s])
  <2>1. u \in Users /\ enrol[e].stale \in BOOLEAN
    BY DEF TypeOK, Enrol
  <2>2. m \in Update
    BY <2>1, MergedType DEF TypeOK, Row, MaybeSecret
  <2>3. update' = [update EXCEPT ![d] = [m EXCEPT !.stale = @ \/ enrol[e].stale]]
    BY <1>9 DEF EnrollIssue
  <2>. HIDE DEF m
  <2>4. [m EXCEPT !.stale = @ \/ enrol[e].stale] \in Update
    BY <2>1, <2>2 DEF Update
  <2>5. update' \in [Updates -> Update]
    BY <2>3, <2>4 DEF TypeOK
  <2>. QED
    BY <1>9, <2>5, IdleSlots DEF TypeOK, EnrollIssue
<1>10. ASSUME NEW e \in Enrols, NEW d \in Updates, VerifyConfirm(e, d) PROVE TypeOK'
  <2>. DEFINE u == enrol[e].user
              m == Merged(u, [row[u] EXCEPT !.confirmed = TRUE])
              x == [m EXCEPT !.proof = enrol[e].secret, !.stale = @ \/ enrol[e].stale]
  <2>1. u \in Users /\ enrol[e].stale \in BOOLEAN /\ enrol[e].secret \in MaybeSecret
    BY DEF TypeOK, Enrol
  <2>2. m \in Update
    BY <2>1, MergedType DEF TypeOK, Row
  <2>3. update' = [update EXCEPT ![d] = x]
    BY <1>10 DEF VerifyConfirm
  <2>. HIDE DEF m
  <2>4. x \in Update
    BY <2>1, <2>2 DEF Update
  <2>5. update' \in [Updates -> Update]
    BY <2>3, <2>4 DEF TypeOK
  <2>. QED
    BY <1>10, <2>5, IdleSlots DEF TypeOK, VerifyConfirm
<1>11. ASSUME NEW d \in Updates, NEW u \in Users, NEW s \in MaybeSecret, AdminReset(d, u, s)
       PROVE  TypeOK'
  <2>. DEFINE m == Merged(u, ResetRow(row[u], s))
  <2>1. m \in Update
    BY ResetRowType, MergedType DEF TypeOK
  <2>2. update' = [update EXCEPT ![d] = [m EXCEPT !.reset = TRUE]]
    BY <1>11 DEF AdminReset
  <2>. HIDE DEF m
  <2>3. [m EXCEPT !.reset = TRUE] \in Update
    BY <2>1 DEF Update
  <2>4. update' \in [Updates -> Update]
    BY <2>2, <2>3 DEF TypeOK
  <2>5. issued' \in SUBSET Secrets
    BY <1>11 DEF TypeOK, AdminReset, MaybeSecret
  <2>. QED
    BY <1>11, <2>4, <2>5 DEF TypeOK, AdminReset
<1>12. ASSUME NEW d \in Updates, NEW u \in Users, NEW st \in Status, SetStatus(d, u, st)
       PROVE  TypeOK'
  BY <1>12, StatusUpdateType DEF SetStatus, TypeOK
<1>13. CASE ToggleTwoFactor
  BY <1>13 DEF TypeOK, ToggleTwoFactor
<1>14. CASE SweepFind
  BY <1>14 DEF TypeOK, SweepFind
<1>15. ASSUME NEW d \in Updates, NEW u \in Users, SweepMark(d, u) PROVE TypeOK'
  <2>1. "dormant" \in Status /\ sweep' \in SUBSET Users
    BY <1>15, StatusAssumption DEF SweepMark, TypeOK
  <2>. QED
    BY <1>15, <2>1, StatusUpdateType DEF SweepMark
<1>16. CASE Tick
  <2>1. row' \in [Users -> Row]
    BY <1>16, LessType DEF TypeOK, Tick, Row
  <2>2. login' \in [Logins -> Login]
    BY <1>16, LessType DEF TypeOK, Tick, Login, Snap
  <2>3. update' \in [Updates -> Update]
    <3>1. ASSUME NEW d \in Updates
          PROVE  [update[d] EXCEPT !.row = [update[d].row EXCEPT !.lock = Less(@)]] \in Update
      <4>1. update[d] \in Update /\ update[d].row \in Row /\ update[d].row.lock \in 0..LockTicks
        BY DEF TypeOK, Update, Row
      <4>. QED
        BY <4>1, LessType, AgedType
    <3>. QED
      BY <1>16, <3>1 DEF Tick
  <2>4. hist' \in [Users -> History]
    BY <1>16 DEF TypeOK, Tick, History
  <2>. QED
    BY <1>16, <2>1, <2>2, <2>3, <2>4 DEF TypeOK, Tick
<1>17. ASSUME NEW u \in Users, GrowIdle(u) PROVE TypeOK'
  <2>1. row' \in [Users -> Row]
    BY <1>17 DEF TypeOK, GrowIdle, Row
  <2>2. update' \in [Updates -> Update]
    <3>1. ASSUME NEW d \in Updates, NEW b \in BOOLEAN
          PROVE  [update[d] EXCEPT !.row = [update[d].row EXCEPT !.idle = b]] \in Update
      <4>1. update[d] \in Update /\ update[d].row \in Row
        BY DEF TypeOK, Update
      <4>. QED
        BY <4>1, AgedType
    <3>2. \A d \in Updates : update[d].row.idle \in BOOLEAN /\ update[d].busy \in BOOLEAN
      BY DEF TypeOK, Update, Row
    <3>. QED
      BY <1>17, <3>1, <3>2 DEF GrowIdle
  <2>. QED
    BY <1>17, <2>1, <2>2 DEF TypeOK, GrowIdle
<1>18. ASSUME NEW d \in Updates, UpdateWrite(d) PROVE TypeOK'
  BY <1>18, UpdateWriteType
<1>19. CASE UNCHANGED vars
  BY <1>19 DEF TypeOK, vars
<1>. QED
  BY <1>1, <1>2, <1>3, <1>4, <1>5, <1>6, <1>7, <1>8, <1>9, <1>10, <1>11, <1>12,
     <1>13, <1>14, <1>15, <1>16, <1>17, <1>18, <1>19 DEF Next, LoginStep, UpdateStep

\* Type correctness.
THEOREM TypeCorrect == Spec => []TypeOK
<1>. QED
  BY InitType, NextType, PTL DEF Spec

-----------------------------------------------------------------------------
(* The throttle: the lock and the counter that set it are cleared together, *)
(* and written back together.                                               *)

Exhausted(r) == r.lock > 0 => r.failed >= MaxAttempts

ExhaustedInv ==
  /\ LockedMeansExhausted
  /\ \A d \in Updates : Exhausted(update[d].row)

\* An update that begins takes the throttle of the row over.
LEMMA BeginExhausted ==
  ASSUME TypeOK, ExhaustedInv, UNCHANGED row, NEW d \in Updates, NEW w,
         update' = [update EXCEPT ![d] = w], NEW u \in Users,
         w.row.lock = row[u].lock, w.row.failed = row[u].failed
  PROVE  ExhaustedInv'
BY DEF TypeOK, ExhaustedInv, Exhausted, LockedMeansExhausted

\* Rows that stay, or whose throttle stays, keep the invariant.
LEMMA SameThrottle ==
  ASSUME TypeOK, ExhaustedInv, UNCHANGED update,
         \A u \in Users : Exhausted(row[u]) => Exhausted(row'[u])
  PROVE  ExhaustedInv'
BY DEF ExhaustedInv, Exhausted, LockedMeansExhausted

\* Each step keeps the reason of every lock: the misses are used up
\* (otpThrottle.ts).
LEMMA NextExhausted == TypeOK /\ ExhaustedInv /\ [Next]_vars => ExhaustedInv'
<1>. SUFFICES ASSUME TypeOK, ExhaustedInv, [Next]_vars
     PROVE  ExhaustedInv'
  OBVIOUS
<1>1. ASSUME UNCHANGED <<row, update>> PROVE ExhaustedInv'
  BY <1>1, SameThrottle
<1>2. ASSUME NEW l \in Logins, LoginWithPassword(l) PROVE ExhaustedInv'
  <2>. DEFINE v == login[l].user
              r == [row[v] EXCEPT !.idle = FALSE]
  <2>1. v \in Users /\ row[v] \in Row
    BY DEF TypeOK, Login
  <2>2. r.lock = row[v].lock /\ r.failed = row[v].failed
    BY <2>1, AgedType
  <2>3. row' = [row EXCEPT ![v] = r] /\ UNCHANGED update
    BY <1>2 DEF LoginWithPassword, Commit
  <2>. HIDE DEF v, r
  <2>. QED
    BY <2>1, <2>2, <2>3, SameThrottle DEF TypeOK, Exhausted
<1>3. ASSUME NEW l \in Logins, LoginWithOtp(l) PROVE ExhaustedInv'
  <2>. DEFINE v == login[l].user
              r == [row[v] EXCEPT !.idle = FALSE]
  <2>1. v \in Users /\ row[v] \in Row
    BY DEF TypeOK, Login
  <2>2. r \in Row /\ r.lock = row[v].lock /\ r.failed = row[v].failed
    BY <2>1, AgedType
  <2>3. Cleared(r).lock = 0
    BY <2>2, ClearedFields
  <2>4. row' = [row EXCEPT ![v] = Cleared(r)] \/ row' = [row EXCEPT ![v] = r]
    BY <1>3 DEF LoginWithOtp, Commit
  <2>5. UNCHANGED update
    BY <1>3 DEF LoginWithOtp, Commit
  <2>. HIDE DEF v, r
  <2>. QED
    BY <2>1, <2>2, <2>3, <2>4, <2>5, SameThrottle DEF TypeOK, Exhausted
<1>4. ASSUME NEW l \in Logins, ThrottleTwoFactorFailure(l) PROVE ExhaustedInv'
  <2>. DEFINE v == login[l].user
              n == Missed(l)
              failed == IF n > MaxFailed THEN MaxFailed ELSE n
              lock == IF n >= MaxAttempts THEN LockTicks ELSE row[v].lock
              r == [[row[v] EXCEPT !.failed = failed] EXCEPT !.lock = lock]
  <2>1. v \in Users /\ row[v] \in Row
    BY DEF TypeOK, Login
  <2>2. failed \in 0..MaxFailed /\ lock \in 0..LockTicks /\ n = row[v].failed + 1
    BY MissedType
  <2>3. r.failed = failed /\ r.lock = lock
    <3>1. [row[v] EXCEPT !.failed = failed] \in Row
          /\ [row[v] EXCEPT !.failed = failed].failed = failed
      BY <2>1, <2>2 DEF Row
    <3>2. \A c \in Row : /\ [c EXCEPT !.lock = lock].failed = c.failed
                         /\ [c EXCEPT !.lock = lock].lock = lock
      BY DEF Row
    <3>. QED
      BY <3>1, <3>2
  <2>4. Exhausted(row[v]) /\ row[v].failed \in 0..MaxFailed
    BY <2>1 DEF ExhaustedInv, LockedMeansExhausted, Exhausted, Row
  <2>5. lock > 0 => failed >= MaxAttempts
    BY <2>2, <2>4, ThrottleAssumption DEF Exhausted
  <2>6. row' = [row EXCEPT ![v] = r] /\ UNCHANGED update
    BY <1>4 DEF ThrottleTwoFactorFailure
  <2>. HIDE DEF v, r, n, lock, failed
  <2>. QED
    BY <2>1, <2>3, <2>5, <2>6, SameThrottle DEF TypeOK, Exhausted
<1>5. ASSUME NEW e \in Enrols, NEW d \in Updates, NEW s \in Secrets, EnrollIssue(e, d, s)
      PROVE  ExhaustedInv'
  <2>. DEFINE u == enrol[e].user
              r == [row[u] EXCEPT !.secret = s]
              w == [Merged(u, r) EXCEPT !.stale = @ \/ enrol[e].stale]
  <2>1. u \in Users /\ row[u] \in Row
    BY DEF TypeOK, Enrol
  <2>2. r.lock = row[u].lock /\ r.failed = row[u].failed
    BY <2>1 DEF Row
  <2>3. w.row = r
    BY DEF Merged
  <2>4. UNCHANGED row /\ update' = [update EXCEPT ![d] = w]
    BY <1>5 DEF EnrollIssue
  <2>. HIDE DEF u, r, w
  <2>. QED
    BY <2>1, <2>2, <2>3, <2>4, BeginExhausted
<1>6. ASSUME NEW e \in Enrols, NEW d \in Updates, VerifyConfirm(e, d) PROVE ExhaustedInv'
  <2>. DEFINE u == enrol[e].user
              r == [row[u] EXCEPT !.confirmed = TRUE]
              w == [Merged(u, r) EXCEPT !.proof = enrol[e].secret,
                                        !.stale = @ \/ enrol[e].stale]
  <2>1. u \in Users /\ row[u] \in Row
    BY DEF TypeOK, Enrol
  <2>2. r.lock = row[u].lock /\ r.failed = row[u].failed
    BY <2>1 DEF Row
  <2>3. w.row = r
    BY DEF Merged
  <2>4. UNCHANGED row /\ update' = [update EXCEPT ![d] = w]
    BY <1>6 DEF VerifyConfirm
  <2>. HIDE DEF u, r, w
  <2>. QED
    BY <2>1, <2>2, <2>3, <2>4, BeginExhausted
<1>7. ASSUME NEW d \in Updates, NEW u \in Users, NEW s \in MaybeSecret, AdminReset(d, u, s)
      PROVE  ExhaustedInv'
  <2>. DEFINE r == ResetRow(row[u], s)
              w == [Merged(u, r) EXCEPT !.reset = TRUE]
  <2>1. r.lock = row[u].lock /\ r.failed = row[u].failed
    BY ResetRowType DEF TypeOK
  <2>2. w.row = r
    BY DEF Merged
  <2>3. UNCHANGED row /\ update' = [update EXCEPT ![d] = w]
    BY <1>7 DEF AdminReset
  <2>. HIDE DEF r, w
  <2>. QED
    BY <2>1, <2>2, <2>3, BeginExhausted
<1>8. ASSUME NEW d \in Updates, NEW u \in Users, NEW st \in Status, StatusUpdate(d, u, st)
      PROVE  ExhaustedInv'
  <2>. DEFINE r == [row[u] EXCEPT !.status = st]
              w == [Merged(u, r) EXCEPT
                      !.sessions = IF Revokes(row[u].status, st) THEN {} ELSE @]
  <2>1. r.lock = row[u].lock /\ r.failed = row[u].failed
    BY DEF TypeOK, Row
  <2>2. w.row = r
    BY DEF Merged
  <2>3. UNCHANGED row /\ update' = [update EXCEPT ![d] = w]
    BY <1>8 DEF StatusUpdate
  <2>. HIDE DEF r, w
  <2>. QED
    BY <2>1, <2>2, <2>3, BeginExhausted
<1>9. ASSUME NEW d \in Updates, NEW u \in Users, SweepMark(d, u) PROVE ExhaustedInv'
  BY <1>8, <1>9, StatusAssumption DEF SweepMark
<1>10. ASSUME NEW d \in Updates, UpdateWrite(d) PROVE ExhaustedInv'
  <2>1. row' = [row EXCEPT ![update[d].user] = update[d].row]
    BY <1>10 DEF UpdateWrite
  <2>2. LockedMeansExhausted'
    BY <2>1 DEF TypeOK, ExhaustedInv, Exhausted, LockedMeansExhausted
  <2>3. ASSUME NEW f \in Updates PROVE Exhausted(update'[f].row)
    <3>1. update'[f] = NoUpdate \/ update'[f].row = update[f].row
      BY <1>10 DEF UpdateWrite, TypeOK, Update
    <3>2. NoUpdate.row.lock = 0
      BY DEF NoUpdate, NewRow
    <3>. QED
      BY <3>1, <3>2 DEF ExhaustedInv, Exhausted
  <2>. QED
    BY <2>2, <2>3 DEF ExhaustedInv, Exhausted
<1>11. CASE Tick
  <2>1. ASSUME NEW u \in Users PROVE Exhausted(row'[u])
    <3>1. row[u].lock \in 0..LockTicks /\ Exhausted(row[u])
      BY DEF TypeOK, Row, ExhaustedInv, LockedMeansExhausted, Exhausted
    <3>2. row'[u].lock = Less(row[u].lock) /\ row'[u].failed = row[u].failed
      BY <1>11 DEF Tick, TypeOK, Row
    <3>. QED
      BY <3>1, <3>2, LessType DEF Exhausted
  <2>2. ASSUME NEW d \in Updates PROVE Exhausted(update'[d].row)
    <3>1. update[d].row.lock \in 0..LockTicks /\ Exhausted(update[d].row)
      BY DEF TypeOK, Update, Row, ExhaustedInv
    <3>2. update'[d].row.lock = Less(update[d].row.lock)
          /\ update'[d].row.failed = update[d].row.failed
      BY <1>11 DEF Tick, TypeOK, Update, Row
    <3>. QED
      BY <3>1, <3>2, LessType DEF Exhausted
  <2>. QED
    BY <2>1, <2>2 DEF ExhaustedInv, Exhausted, LockedMeansExhausted
<1>12. ASSUME NEW u \in Users, GrowIdle(u) PROVE ExhaustedInv'
  <2>1. \A v \in Users : row'[v].lock = row[v].lock /\ row'[v].failed = row[v].failed
    BY <1>12 DEF GrowIdle, TypeOK, Row
  <2>2. \A d \in Updates : /\ update'[d].row.lock = update[d].row.lock
                           /\ update'[d].row.failed = update[d].row.failed
    BY <1>12 DEF GrowIdle, TypeOK, Update, Row
  <2>. QED
    BY <2>1, <2>2 DEF ExhaustedInv, Exhausted, LockedMeansExhausted
<1>13. CASE UNCHANGED vars
  BY <1>1, <1>13 DEF vars
<1>14. CASE \/ \E l \in Logins, u \in Users : LoginStart(l, u)
            \/ \E l \in Logins : LoginRefused(l) \/ OtpWrong(l)
            \/ \E u \in Users : Logout(u)
            \/ \E e \in Enrols, u \in Users : EnrollRead(e, u) \/ VerifyRead(e, u)
            \/ ToggleTwoFactor \/ SweepFind
  BY <1>1, <1>14 DEF LoginStart, LoginRefused, OtpWrong, Logout, EnrollRead, VerifyRead,
                     ToggleTwoFactor, SweepFind
<1>. QED
  BY <1>2, <1>3, <1>4, <1>5, <1>6, <1>7, <1>8, <1>9, <1>10, <1>11, <1>12, <1>13, <1>14
  DEF Next, LoginStep, UpdateStep, SetStatus

\* The stored locks and those that updates will write, in every run.
LEMMA ExhaustedHolds == Spec => []ExhaustedInv
<1>1. Init => ExhaustedInv
  <2>1. ASSUME Init, NEW u \in Users PROVE row[u].lock = 0
    <3>1. NewRow.lock = 0 /\ \A s \in Secrets : EnrolledRow(s).lock = 0
      BY DEF NewRow, EnrolledRow
    <3>. QED
      BY <2>1, <3>1 DEF Init
  <2>2. NoUpdate.row.lock = 0
    BY DEF NoUpdate, NewRow
  <2>. QED
    BY <2>1, <2>2 DEF Init, ExhaustedInv, Exhausted, LockedMeansExhausted
<1>. QED
  BY <1>1, NextExhausted, TypeCorrect, PTL DEF Spec

\* A lock is only ever held by an exhausted counter.
THEOREM LockedMeansExhaustedHolds == Spec => []LockedMeansExhausted
<1>1. ExhaustedInv => LockedMeansExhausted
  BY DEF ExhaustedInv
<1>. QED
  BY <1>1, ExhaustedHolds, PTL

-----------------------------------------------------------------------------
(* Deactivation: a session of an inactive account belongs to a raced login. *)

\* A login that read an active row whose account is not active any more was in
\* flight when the account was deactivated.
OvertakenLoginsKnow ==
  \A l \in Logins :
    /\ login[l].pc = "gate"
    /\ login[l].snap.status = "active"
    /\ row[login[l].user].status # "active"
    => login[l].raced

\* An update that will write an inactive row writes raced sessions only.
WritesAreRaced ==
  \A d \in Updates : update[d].row.status # "active" =>
    \A s \in update[d].sessions : s.raced

RacedInv == InactiveSessionsAreRaced /\ OvertakenLoginsKnow /\ WritesAreRaced

\* Writing rows whose status stays leaves the invariant to the sessions, the
\* logins and the updates, which stay too.
LEMMA SameStatusRaced ==
  ASSUME TypeOK, RacedInv, \A u \in Users : row'[u].status = row[u].status,
         UNCHANGED sessions,
         \A l \in Logins : login'[l].pc = "gate" =>
           /\ login[l].pc = "gate"
           /\ login'[l].user = login[l].user
           /\ login'[l].snap.status = login[l].snap.status
           /\ login'[l].raced = login[l].raced,
         \A d \in Updates : /\ update'[d].row.status = update[d].row.status
                            /\ update'[d].sessions = update[d].sessions
  PROVE  RacedInv'
<1>1. \A l \in Logins : login[l].user \in Users
  BY DEF TypeOK, Login
<1>. QED
  BY <1>1 DEF RacedInv, InactiveSessionsAreRaced, OvertakenLoginsKnow, WritesAreRaced

\* An update that begins holds the sessions of the row it read, or none, and
\* a status other than the row's only with none.
LEMMA BeginRaced ==
  ASSUME TypeOK, RacedInv, UNCHANGED <<row, sessions, login>>, NEW d \in Updates, NEW w,
         update' = [update EXCEPT ![d] = w], NEW u \in Users,
         w.sessions \subseteq sessions[u],
         \/ w.row.status = "active"
         \/ w.row.status = row[u].status
         \/ w.sessions = {}
  PROVE  RacedInv'
BY DEF TypeOK, RacedInv, InactiveSessionsAreRaced, OvertakenLoginsKnow, WritesAreRaced

\* A login commits only past the status gate, with the mark it carries.
LEMMA CommitRaced ==
  ASSUME TypeOK, RacedInv, NEW l \in Logins, NEW r, Commit(l, r),
         login[l].pc = "gate", login[l].snap.status = "active",
         r.status = row[login[l].user].status
  PROVE  RacedInv'
<1>. DEFINE v == login[l].user
<1>1. v \in Users
  BY DEF TypeOK, Login
<1>2. \A u \in Users : row'[u].status = row[u].status
  BY <1>1 DEF Commit, TypeOK
<1>3. \A u \in Users : u # v => sessions'[u] = sessions[u]
  BY DEF Commit, TypeOK
<1>4. sessions'[v] = sessions[v] \cup {[raced |-> login[l].raced]}
  BY <1>1 DEF Commit, TypeOK
<1>5. row[v].status # "active" => login[l].raced
  BY DEF RacedInv, OvertakenLoginsKnow
<1>6. InactiveSessionsAreRaced'
  BY <1>2, <1>3, <1>4, <1>5 DEF RacedInv, InactiveSessionsAreRaced
<1>7. \A k \in Logins : login'[k] = IF k = l THEN NoLogin ELSE login[k]
  BY DEF Commit, TypeOK
<1>8. NoLogin.pc = "idle"
  BY DEF NoLogin
<1>9. OvertakenLoginsKnow'
  <2>1. \A k \in Logins : login[k].user \in Users
    BY DEF TypeOK, Login
  <2>. QED
    BY <1>2, <1>7, <1>8, <2>1 DEF RacedInv, OvertakenLoginsKnow
<1>10. WritesAreRaced'
  BY DEF Commit, RacedInv, WritesAreRaced
<1>. QED
  BY <1>6, <1>9, <1>10 DEF RacedInv

\* The write of an update: it deactivates with raced sessions only, and marks
\* the logins in flight.
LEMMA UpdateWriteRaced ==
  ASSUME TypeOK, RacedInv, NEW d \in Updates, UpdateWrite(d)
  PROVE  RacedInv'
<1>. DEFINE u == update[d].user
            st == update[d].row.status
<1>1. u \in Users
  BY DEF TypeOK, Update
<1>2. \A v \in Users : /\ row'[v] = IF v = u THEN update[d].row ELSE row[v]
                       /\ sessions'[v] = IF v = u THEN update[d].sessions ELSE sessions[v]
  BY DEF UpdateWrite, TypeOK
<1>3. InactiveSessionsAreRaced'
  BY <1>2 DEF RacedInv, InactiveSessionsAreRaced, WritesAreRaced
<1>4. ASSUME NEW l \in Logins, login'[l].pc = "gate", login'[l].snap.status = "active",
             row'[login'[l].user].status # "active"
      PROVE  login'[l].raced
  <2>1. /\ login'[l].pc = login[l].pc /\ login'[l].user = login[l].user
        /\ login'[l].snap = login[l].snap
    BY DEF UpdateWrite, TypeOK, Login
  <2>2. login'[l].raced <=> \/ login[l].raced
                            \/ st # "active" /\ login[l].pc # "idle" /\ login[l].user = u
    BY DEF UpdateWrite, TypeOK, Login
  <2>3. login[l].user \in Users
    BY DEF TypeOK, Login
  <2>4. CASE login[l].user = u
    BY <1>2, <1>4, <2>1, <2>2, <2>3, <2>4
  <2>5. CASE login[l].user # u
    BY <1>2, <1>4, <2>1, <2>2, <2>3, <2>5 DEF RacedInv, OvertakenLoginsKnow
  <2>. QED
    BY <2>4, <2>5
<1>5. WritesAreRaced'
  <2>1. \A f \in Updates : \/ update'[f] = NoUpdate
                           \/ /\ update'[f].row = update[f].row
                              /\ update'[f].sessions = update[f].sessions
    BY DEF UpdateWrite, TypeOK, Update
  <2>2. NoUpdate.row.status = "active"
    BY DEF NoUpdate, NewRow
  <2>. QED
    BY <2>1, <2>2 DEF RacedInv, WritesAreRaced
<1>. QED
  BY <1>3, <1>4, <1>5 DEF RacedInv, OvertakenLoginsKnow

\* Each step keeps track of the logins and updates that a deactivation overtook.
LEMMA NextRaced == TypeOK /\ RacedInv /\ [Next]_vars => RacedInv'
<1>. SUFFICES ASSUME TypeOK, RacedInv, [Next]_vars PROVE RacedInv'
  OBVIOUS
<1>1. NoLogin.pc = "idle"
  BY DEF NoLogin
<1>2. ASSUME NEW l \in Logins, NEW u \in Users, LoginStart(l, u) PROVE RacedInv'
  <2>1. login'[l].snap.status = row[u].status /\ login'[l].user = u
    BY <1>2 DEF LoginStart, TypeOK, Seen
  <2>2. \A k \in Logins : k # l => login'[k] = login[k]
    BY <1>2 DEF LoginStart, TypeOK
  <2>. QED
    BY <1>2, <2>1, <2>2 DEF LoginStart, RacedInv, InactiveSessionsAreRaced, OvertakenLoginsKnow,
                              WritesAreRaced
<1>3. ASSUME NEW l \in Logins, LoginRefused(l) PROVE RacedInv'
  BY <1>1, <1>3, SameStatusRaced DEF LoginRefused, TypeOK
<1>4. ASSUME NEW l \in Logins, OtpWrong(l) PROVE RacedInv'
  BY <1>4, SameStatusRaced DEF OtpWrong, TypeOK
<1>5. ASSUME NEW l \in Logins, LoginWithPassword(l) PROVE RacedInv'
  <2>1. row[login[l].user] \in Row
    BY DEF TypeOK, Login
  <2>2. [row[login[l].user] EXCEPT !.idle = FALSE].status = row[login[l].user].status
    BY <2>1, AgedType
  <2>. QED
    BY <1>5, <2>2, CommitRaced DEF LoginWithPassword
<1>6. ASSUME NEW l \in Logins, LoginWithOtp(l) PROVE RacedInv'
  <2>. DEFINE r == [row[login[l].user] EXCEPT !.idle = FALSE]
  <2>1. row[login[l].user] \in Row
    BY DEF TypeOK, Login
  <2>2. r \in Row /\ r.status = row[login[l].user].status
    BY <2>1, AgedType
  <2>3. Cleared(r).status = r.status
    BY <2>2, ClearedFields
  <2>4. Commit(l, Cleared(r)) \/ Commit(l, r)
    BY <1>6 DEF LoginWithOtp
  <2>5. login[l].pc = "gate" /\ login[l].snap.status = "active"
    BY <1>6 DEF LoginWithOtp
  <2>. HIDE DEF r
  <2>. QED
    BY <2>2, <2>3, <2>4, <2>5, CommitRaced
<1>7. ASSUME NEW l \in Logins, ThrottleTwoFactorFailure(l) PROVE RacedInv'
  <2>. DEFINE v == login[l].user
              n == Missed(l)
              failed == IF n > MaxFailed THEN MaxFailed ELSE n
              lock == IF n >= MaxAttempts THEN LockTicks ELSE row[v].lock
  <2>1. row[v] \in Row /\ failed \in 0..MaxFailed /\ lock \in 0..LockTicks
    BY MissedType DEF TypeOK, Login
  <2>2. row' = [row EXCEPT ![v] = [[row[v] EXCEPT !.failed = failed] EXCEPT !.lock = lock]]
    BY <1>7 DEF ThrottleTwoFactorFailure
  <2>. HIDE DEF n, lock, failed
  <2>3. [row[v] EXCEPT !.failed = failed] \in Row
        /\ [row[v] EXCEPT !.failed = failed].status = row[v].status
    BY <2>1 DEF Row
  <2>4. \A c \in Row : [c EXCEPT !.lock = lock].status = c.status
    BY DEF Row
  <2>5. \A u \in Users : row'[u].status = row[u].status
    BY <2>2, <2>3, <2>4 DEF TypeOK
  <2>. QED
    BY <1>1, <1>7, <2>5, SameStatusRaced DEF ThrottleTwoFactorFailure, TypeOK
<1>8. ASSUME NEW u \in Users, Logout(u) PROVE RacedInv'
  BY <1>8 DEF Logout, TypeOK, RacedInv, InactiveSessionsAreRaced, OvertakenLoginsKnow,
              WritesAreRaced
<1>9. ASSUME NEW e \in Enrols, NEW d \in Updates, NEW s \in Secrets, EnrollIssue(e, d, s)
      PROVE  RacedInv'
  <2>. DEFINE u == enrol[e].user
              r == [row[u] EXCEPT !.secret = s]
              w == [Merged(u, r) EXCEPT !.stale = @ \/ enrol[e].stale]
  <2>1. u \in Users /\ row[u] \in Row
    BY DEF TypeOK, Enrol
  <2>2. r.status = row[u].status
    BY <2>1 DEF Row
  <2>3. w.row = r /\ w.sessions = sessions[u]
    BY DEF Merged
  <2>4. UNCHANGED <<row, sessions, login>> /\ update' = [update EXCEPT ![d] = w]
    BY <1>9 DEF EnrollIssue
  <2>. HIDE DEF u, r, w
  <2>. QED
    BY <2>1, <2>2, <2>3, <2>4, BeginRaced
<1>10. ASSUME NEW e \in Enrols, NEW d \in Updates, VerifyConfirm(e, d) PROVE RacedInv'
  <2>. DEFINE u == enrol[e].user
              r == [row[u] EXCEPT !.confirmed = TRUE]
              w == [Merged(u, r) EXCEPT !.proof = enrol[e].secret,
                                        !.stale = @ \/ enrol[e].stale]
  <2>1. u \in Users /\ row[u] \in Row
    BY DEF TypeOK, Enrol
  <2>2. r.status = row[u].status
    BY <2>1 DEF Row
  <2>3. w.row = r /\ w.sessions = sessions[u]
    BY DEF Merged
  <2>4. UNCHANGED <<row, sessions, login>> /\ update' = [update EXCEPT ![d] = w]
    BY <1>10 DEF VerifyConfirm
  <2>. HIDE DEF u, r, w
  <2>. QED
    BY <2>1, <2>2, <2>3, <2>4, BeginRaced
<1>11. ASSUME NEW d \in Updates, NEW u \in Users, NEW s \in MaybeSecret, AdminReset(d, u, s)
       PROVE  RacedInv'
  <2>. DEFINE r == ResetRow(row[u], s)
              w == [Merged(u, r) EXCEPT !.reset = TRUE]
  <2>1. r.status = row[u].status
    BY ResetRowType DEF TypeOK
  <2>2. w.row = r /\ w.sessions = sessions[u]
    BY DEF Merged
  <2>3. UNCHANGED <<row, sessions, login>> /\ update' = [update EXCEPT ![d] = w]
    BY <1>11 DEF AdminReset
  <2>. HIDE DEF r, w
  <2>. QED
    BY <2>1, <2>2, <2>3, BeginRaced
<1>12. ASSUME NEW d \in Updates, NEW u \in Users, NEW st \in Status, StatusUpdate(d, u, st)
       PROVE  RacedInv'
  <2>. DEFINE r == [row[u] EXCEPT !.status = st]
              w == [Merged(u, r) EXCEPT
                      !.sessions = IF Revokes(row[u].status, st) THEN {} ELSE @]
  <2>1. r.status = st
    BY DEF TypeOK, Row
  <2>2. w.row = r /\ w.sessions = IF Revokes(row[u].status, st) THEN {} ELSE sessions[u]
    BY DEF Merged
  <2>3. UNCHANGED <<row, sessions, login>> /\ update' = [update EXCEPT ![d] = w]
    BY <1>12 DEF StatusUpdate
  <2>4. st = "active" \/ st = row[u].status \/ Revokes(row[u].status, st)
    BY DEF Revokes
  <2>. HIDE DEF r, w
  <2>. QED
    BY <2>1, <2>2, <2>3, <2>4, BeginRaced
<1>13. ASSUME NEW d \in Updates, NEW u \in Users, SweepMark(d, u) PROVE RacedInv'
  BY <1>12, <1>13, StatusAssumption DEF SweepMark
<1>14. ASSUME NEW d \in Updates, UpdateWrite(d) PROVE RacedInv'
  BY <1>14, UpdateWriteRaced
<1>15. CASE Tick
  <2>1. \A u \in Users : row'[u].status = row[u].status
    BY <1>15 DEF Tick, TypeOK, Row
  <2>2. \A l \in Logins : /\ login'[l].pc = login[l].pc /\ login'[l].user = login[l].user
                          /\ login'[l].raced = login[l].raced
                          /\ login'[l].snap.status = login[l].snap.status
    BY <1>15 DEF Tick, TypeOK, Login, Snap
  <2>3. \A d \in Updates : /\ update'[d].row.status = update[d].row.status
                           /\ update'[d].sessions = update[d].sessions
    BY <1>15 DEF Tick, TypeOK, Update, Row
  <2>. QED
    BY <1>15, <2>1, <2>2, <2>3, SameStatusRaced DEF Tick
<1>16. ASSUME NEW u \in Users, GrowIdle(u) PROVE RacedInv'
  <2>1. \A v \in Users : row'[v].status = row[v].status
    BY <1>16 DEF GrowIdle, TypeOK, Row
  <2>2. \A d \in Updates : /\ update'[d].row.status = update[d].row.status
                           /\ update'[d].sessions = update[d].sessions
    BY <1>16 DEF GrowIdle, TypeOK, Update, Row
  <2>. QED
    BY <1>16, <2>1, <2>2, SameStatusRaced DEF GrowIdle
<1>17. CASE \/ \E e \in Enrols, u \in Users : EnrollRead(e, u) \/ VerifyRead(e, u)
            \/ ToggleTwoFactor \/ SweepFind \/ UNCHANGED vars
  BY <1>17, SameStatusRaced DEF EnrollRead, VerifyRead, ToggleTwoFactor, SweepFind, vars
<1>. QED
  BY <1>2, <1>3, <1>4, <1>5, <1>6, <1>7, <1>8, <1>9, <1>10, <1>11, <1>12, <1>13, <1>14,
     <1>15, <1>16, <1>17 DEF Next, LoginStep, UpdateStep, SetStatus

\* A session alive on an inactive account was minted by a login that was
\* already in flight when the account was deactivated.
THEOREM InactiveSessionsAreRacedHolds == Spec => []InactiveSessionsAreRaced
<1>1. Init => RacedInv
  BY DEF Init, RacedInv, InactiveSessionsAreRaced, OvertakenLoginsKnow, WritesAreRaced,
         NoLogin, NoUpdate, NewRow
<1>2. RacedInv => InactiveSessionsAreRaced
  BY DEF RacedInv
<1>. QED
  BY <1>1, <1>2, NextRaced, TypeCorrect, PTL DEF Spec

-----------------------------------------------------------------------------
(* Enrolment: a confirmed secret is the one its owner proved to hold.  What *)
(* carries this is what every update in flight is going to write.           *)

\* The secret an update writes has been generated; a proof confirms, a reset
\* takes back; and an update that confirms, or leaves a confirmation be, and
\* whose secret nobody changed, writes the stored secret: the one it proves,
\* or else the one proved before.
Grounded(w, rows, hists, known) ==
  /\ w.row.secret \in known \cup {NoSecret}
  /\ w.proof # NoSecret => w.row.confirmed /\ ~w.reset
  /\ w.reset => ~w.row.confirmed
  /\ w.busy /\ ~w.stale /\ ~w.reset /\ w.row.confirmed =>
       /\ w.row.secret # NoSecret /\ w.row.secret = rows[w.user].secret
       /\ w.proof # NoSecret => w.proof = w.row.secret
       /\ w.proof = NoSecret /\ ~hists[w.user].tainted => w.row.secret = hists[w.user].verified

\* The secret a reset brings is in no row and no other update yet.
Fresh(d) ==
  update[d].reset /\ update[d].row.secret # NoSecret =>
    /\ \A u \in Users : row[u].secret # update[d].row.secret
    /\ \A f \in Updates \ {d} : update[f].row.secret # update[d].row.secret

\* What an enrolment request read still holds, while it is not stale.
Current(x) ==
  /\ x.pc = "confirm" => x.secret # NoSecret
  /\ x.pc = "confirm" /\ ~x.stale => x.secret = row[x.user].secret
  /\ x.pc = "issue" /\ ~x.stale => row[x.user].secret = NoSecret

EnrolInv ==
  /\ \A u \in Users : row[u].secret \in issued \cup {NoSecret}
  /\ ConfirmedMeansVerified
  /\ \A d \in Updates : Grounded(update[d], row, hist, issued) /\ Fresh(d)
  /\ \A e \in Enrols : Current(enrol[e])

\* Writing anything of the rows but the enrolment keeps the invariant.
LEMMA SameEnrolment ==
  ASSUME TypeOK, EnrolInv, UNCHANGED <<enrol, issued>>,
         \A u \in Users : /\ row'[u].secret = row[u].secret
                          /\ row'[u].confirmed = row[u].confirmed
                          /\ hist'[u].verified = hist[u].verified
                          /\ hist'[u].tainted = hist[u].tainted,
         \A d \in Updates : /\ update'[d].busy = update[d].busy
                            /\ update'[d].user = update[d].user
                            /\ update'[d].proof = update[d].proof
                            /\ update'[d].reset = update[d].reset
                            /\ update'[d].stale = update[d].stale
                            /\ update'[d].row.secret = update[d].row.secret
                            /\ update'[d].row.confirmed = update[d].row.confirmed
  PROVE  EnrolInv'
<1>1. /\ \A d \in Updates : update[d].user \in Users
      /\ \A e \in Enrols : enrol[e].user \in Users
  BY DEF TypeOK, Update, Enrol
<1>2. \A u \in Users : (row[u].secret \in issued \cup {NoSecret})'
  BY DEF EnrolInv
<1>3. ConfirmedMeansVerified'
  BY DEF EnrolInv, ConfirmedMeansVerified
<1>4. ASSUME NEW d \in Updates PROVE Grounded(update'[d], row', hist', issued')
  <2>1. Grounded(update[d], row, hist, issued)
    BY DEF EnrolInv
  <2>. QED
    BY <1>1, <2>1 DEF Grounded
<1>5. ASSUME NEW d \in Updates PROVE Fresh(d)'
  <2>1. Fresh(d)
    BY DEF EnrolInv
  <2>. QED
    BY <2>1 DEF Fresh
<1>6. ASSUME NEW e \in Enrols PROVE Current(enrol[e])'
  <2>1. Current(enrol[e])
    BY DEF EnrolInv
  <2>. QED
    BY <1>1, <2>1 DEF Current
<1>. QED
  BY <1>2, <1>3, <1>4, <1>5, <1>6 DEF EnrolInv

\* An update that begins, if it is grounded, and fresh when it resets: the
\* secrets it does not reset are the stored one or one just generated.
LEMMA BeginEnrolled ==
  ASSUME TypeOK, EnrolInv, UNCHANGED <<row, hist>>, issued \subseteq issued',
         \A e \in Enrols : enrol'[e] = enrol[e] \/ enrol'[e].pc = "idle",
         NEW d \in Updates, NEW w, update' = [update EXCEPT ![d] = w],
         Grounded(w, row, hist, issued'),
         NEW u \in Users,
         \/ w.row.secret = row[u].secret
         \/ w.row.secret \notin issued,
         w.reset => w.row.secret \notin issued
  PROVE  EnrolInv'
<1>1. update'[d] = w /\ \A f \in Updates : f # d => update'[f] = update[f]
  BY DEF TypeOK
<1>2. \A v \in Users : (row[v].secret \in issued \cup {NoSecret})'
  BY DEF EnrolInv
<1>3. ConfirmedMeansVerified'
  BY DEF EnrolInv, ConfirmedMeansVerified
<1>4. ASSUME NEW f \in Updates PROVE Grounded(update'[f], row', hist', issued')
  <2>1. CASE f = d
    BY <1>1, <2>1
  <2>2. CASE f # d
    <3>1. Grounded(update[f], row, hist, issued)
      BY DEF EnrolInv
    <3>. QED
      BY <1>1, <2>2, <3>1 DEF Grounded
  <2>. QED
    BY <2>1, <2>2
<1>5. ASSUME NEW f \in Updates PROVE Fresh(f)'
  <2>1. \A g \in Updates : update[g].row.secret \in issued \cup {NoSecret}
    BY DEF EnrolInv, Grounded
  <2>2. \A v \in Users : row[v].secret \in issued \cup {NoSecret}
    BY DEF EnrolInv
  <2>3. CASE f = d
    BY <1>1, <2>1, <2>2, <2>3 DEF Fresh
  <2>4. CASE f # d
    <3>1. Fresh(f)
      BY DEF EnrolInv
    <3>. QED
      BY <1>1, <2>1, <2>2, <2>4, <3>1 DEF Fresh
  <2>. QED
    BY <2>3, <2>4
<1>6. ASSUME NEW e \in Enrols PROVE Current(enrol[e])'
  <2>1. Current(enrol[e])
    BY DEF EnrolInv
  <2>. QED
    BY <2>1 DEF Current
<1>. QED
  BY <1>2, <1>3, <1>4, <1>5, <1>6 DEF EnrolInv

\* An enrolment request that reads the row holds what it read.
LEMMA ReadEnrolled ==
  ASSUME TypeOK, EnrolInv, NEW e \in Enrols, NEW u \in Users,
         EnrollRead(e, u) \/ VerifyRead(e, u)
  PROVE  EnrolInv'
<1>1. UNCHANGED <<row, update, issued, hist>>
  BY DEF EnrollRead, VerifyRead
<1>2. ASSUME NEW x \in Enrols PROVE Current(enrol[x])'
  <2>1. Current(enrol[x])
    BY DEF EnrolInv
  <2>2. CASE x # e
    BY <1>1, <2>1, <2>2 DEF Current, EnrollRead, VerifyRead, TypeOK
  <2>3. CASE x = e
    BY <1>1, <2>3 DEF Current, EnrollRead, VerifyRead, TypeOK
  <2>. QED
    BY <2>2, <2>3
<1>3. /\ \A v \in Users : (row[v].secret \in issued \cup {NoSecret})'
      /\ ConfirmedMeansVerified'
  BY <1>1 DEF EnrolInv, ConfirmedMeansVerified
<1>4. \A f \in Updates : Grounded(update'[f], row', hist', issued') /\ Fresh(f)'
  BY <1>1 DEF EnrolInv, Grounded, Fresh
<1>. QED
  BY <1>2, <1>3, <1>4 DEF EnrolInv

\* The write of an update.  What it confirms is what it proved; whoever read
\* another secret is stale from now on; a reset changes the secret.
LEMMA UpdateWriteEnrolled ==
  ASSUME TypeOK, EnrolInv, NEW d \in Updates, UpdateWrite(d)
  PROVE  EnrolInv'
<1>. DEFINE w == update[d]
            u == update[d].user
            other == w.row.secret # row[u].secret
<1>1. u \in Users /\ w.proof \in MaybeSecret /\ w.busy
  BY DEF TypeOK, Update, UpdateWrite
<1>2. Grounded(w, row, hist, issued) /\ Fresh(d)
  BY DEF EnrolInv
<1>3. \A v \in Users : row'[v] = IF v = u THEN w.row ELSE row[v]
  BY <1>1 DEF TypeOK, UpdateWrite
<1>4. /\ hist'[u].verified = IF w.proof = NoSecret THEN hist[u].verified ELSE w.proof
      /\ hist'[u].tainted = (~w.reset /\ (hist[u].tainted \/ w.stale))
      /\ \A v \in Users : v # u => hist'[v] = hist[v]
  BY <1>1 DEF TypeOK, UpdateWrite, History
<1>5. \A f \in Updates :
        IF f = d THEN update'[f] = NoUpdate
        ELSE /\ update'[f].busy = update[f].busy
             /\ update'[f].user = update[f].user
             /\ update'[f].row = update[f].row
             /\ update'[f].proof = update[f].proof
             /\ update'[f].reset = update[f].reset
             /\ update'[f].stale = (update[f].stale \/ (other /\ update[f].busy
                                                        /\ update[f].user = u))
  BY DEF TypeOK, UpdateWrite, Update
<1>6. \A e \in Enrols :
        /\ enrol'[e].pc = enrol[e].pc
        /\ enrol'[e].user = enrol[e].user
        /\ enrol'[e].secret = enrol[e].secret
        /\ enrol'[e].stale = (enrol[e].stale \/ (other /\ enrol[e].pc # "idle"
                                                 /\ enrol[e].user = u))
  BY DEF TypeOK, UpdateWrite, Enrol
<1>7. UNCHANGED issued
  BY DEF UpdateWrite
<1>8. NoUpdate.row.secret = NoSecret /\ ~NoUpdate.row.confirmed /\ ~NoUpdate.busy
      /\ NoUpdate.proof = NoSecret /\ ~NoUpdate.reset
  BY DEF NoUpdate, NewRow
<1>. HIDE DEF w, u, other
<1>9. \A v \in Users : (row[v].secret \in issued \cup {NoSecret})'
  BY <1>2, <1>3, <1>7 DEF EnrolInv, Grounded
<1>10. ConfirmedMeansVerified'
  <2>1. ASSUME row'[u].confirmed, ~hist'[u].tainted
        PROVE  row'[u].secret # NoSecret /\ row'[u].secret = hist'[u].verified
    <3>1. w.row.confirmed /\ row'[u] = w.row
      BY <1>1, <1>3, <2>1
    <3>2. ~w.reset /\ ~hist[u].tainted /\ ~w.stale
      BY <1>2, <1>4, <2>1, <3>1 DEF Grounded
    <3>. QED
      BY <1>1, <1>2, <1>4, <3>1, <3>2 DEF Grounded, u, w
  <2>2. ASSUME NEW v \in Users, v # u, row'[v].confirmed, ~hist'[v].tainted
        PROVE  row'[v].secret # NoSecret /\ row'[v].secret = hist'[v].verified
    BY <1>3, <1>4, <2>2 DEF EnrolInv, ConfirmedMeansVerified
  <2>. QED
    BY <2>1, <2>2 DEF ConfirmedMeansVerified
<1>11. ASSUME NEW f \in Updates PROVE Grounded(update'[f], row', hist', issued')
  <2>1. CASE f = d
    BY <1>5, <1>8, <2>1 DEF Grounded
  <2>2. CASE f # d
    <3>1. Grounded(update[f], row, hist, issued)
      BY DEF EnrolInv
    <3>2. update[f].user \in Users
      BY DEF TypeOK, Update
    <3>3. /\ update'[f].row.secret \in issued' \cup {NoSecret}
          /\ update'[f].proof # NoSecret => update'[f].row.confirmed /\ ~update'[f].reset
          /\ update'[f].reset => ~update'[f].row.confirmed
      BY <1>5, <1>7, <2>2, <3>1 DEF Grounded
    <3>4. ASSUME update'[f].busy, ~update'[f].stale, ~update'[f].reset, update'[f].row.confirmed
          PROVE  /\ update'[f].row.secret # NoSecret
                 /\ update'[f].row.secret = row'[update'[f].user].secret
                 /\ update'[f].proof # NoSecret => update'[f].proof = update'[f].row.secret
                 /\ update'[f].proof = NoSecret /\ ~hist'[update'[f].user].tainted
                      => update'[f].row.secret = hist'[update'[f].user].verified
      <4>1. /\ update[f].busy /\ ~update[f].stale /\ ~update[f].reset /\ update[f].row.confirmed
            /\ update[f].user = u => ~other
        BY <1>5, <2>2, <3>4
      <4>2. CASE update[f].user # u
        BY <1>3, <1>4, <1>5, <2>2, <3>1, <3>2, <4>1, <4>2 DEF Grounded
      <4>3. CASE update[f].user = u
        <5>1. w.row.secret = row[u].secret /\ update[f].row.secret = row[u].secret
              /\ row[u].secret # NoSecret
          BY <3>1, <4>1, <4>3 DEF Grounded, other
        <5>2. ~w.reset
          BY <1>1, <1>2, <5>1 DEF Fresh, w
        <5>3. ASSUME update[f].proof = NoSecret, ~hist'[u].tainted
              PROVE  update[f].row.secret = hist'[u].verified
          <6>1. ~hist[u].tainted /\ ~w.stale
            BY <1>4, <5>2, <5>3
          <6>2. CASE w.proof = NoSecret
            BY <1>4, <3>1, <4>1, <4>3, <5>3, <6>1, <6>2 DEF Grounded
          <6>3. CASE w.proof # NoSecret
            BY <1>1, <1>2, <1>4, <5>1, <5>2, <6>1, <6>3 DEF Grounded
          <6>. QED
            BY <6>2, <6>3
        <5>. QED
          BY <1>1, <1>3, <1>5, <2>2, <3>1, <4>1, <4>3, <5>1, <5>3 DEF Grounded
      <4>. QED
        BY <4>2, <4>3
    <3>. QED
      BY <3>3, <3>4 DEF Grounded
  <2>. QED
    BY <2>1, <2>2
<1>12. ASSUME NEW f \in Updates PROVE Fresh(f)'
  <2>1. CASE f = d
    BY <1>5, <1>8, <2>1 DEF Fresh
  <2>2. CASE f # d
    <3>1. Fresh(f)
      BY DEF EnrolInv
    <3>2. \A g \in Updates : update'[g].row.secret \in {update[g].row.secret, NoSecret}
      BY <1>5, <1>8
    <3>. QED
      BY <1>3, <1>5, <2>2, <3>1, <3>2 DEF Fresh, w
  <2>. QED
    BY <2>1, <2>2
<1>13. ASSUME NEW e \in Enrols PROVE Current(enrol[e])'
  <2>1. Current(enrol[e]) /\ enrol[e].user \in Users
    BY DEF EnrolInv, TypeOK, Enrol
  <2>2. CASE enrol[e].user # u
    BY <1>3, <1>6, <2>1, <2>2 DEF Current
  <2>3. CASE enrol[e].user = u
    <3>1. row'[u].secret = w.row.secret
      BY <1>1, <1>3
    <3>2. enrol[e].pc # "idle" /\ ~enrol'[e].stale => row'[u].secret = row[u].secret
      BY <1>6, <2>3, <3>1 DEF other
    <3>. QED
      BY <1>6, <2>1, <2>3, <3>2 DEF Current
  <2>. QED
    BY <2>2, <2>3
<1>. QED
  BY <1>9, <1>10, <1>11, <1>12, <1>13 DEF EnrolInv

\* The fields of the rows that a step leaves alone, whatever else it writes.
LEMMA SameSecret ==
  /\ \A r \in Row, b \in BOOLEAN : [r EXCEPT !.idle = b].secret = r.secret
                                /\ [r EXCEPT !.idle = b].confirmed = r.confirmed
  /\ \A r \in Row : Cleared(r).secret = r.secret /\ Cleared(r).confirmed = r.confirmed
  /\ \A r \in Row, n \in 0..LockTicks : [r EXCEPT !.lock = n].secret = r.secret
                                /\ [r EXCEPT !.lock = n].confirmed = r.confirmed
<1>1. \A r \in Row : Cleared(r).secret = r.secret /\ Cleared(r).confirmed = r.confirmed
  BY DEF Row, Cleared
<1>. QED
  BY <1>1 DEF Row

\* Each step keeps the reason of every confirmed secret: a code of it was verified
\* (enrol, confirm).
LEMMA NextEnrolled == TypeOK /\ EnrolInv /\ [Next]_vars => EnrolInv'
<1>. SUFFICES ASSUME TypeOK, EnrolInv, [Next]_vars PROVE EnrolInv'
  OBVIOUS
<1>1. \A v \in Users : /\ row[v] \in Row
                       /\ row[v].secret \in issued \cup {NoSecret}
                       /\ row[v].confirmed /\ ~hist[v].tainted =>
                            row[v].secret # NoSecret /\ row[v].secret = hist[v].verified
  BY DEF TypeOK, EnrolInv, ConfirmedMeansVerified
<1>2. ASSUME NEW l \in Logins, LoginRefused(l) \/ OtpWrong(l) PROVE EnrolInv'
  <2>1. UNCHANGED <<row, enrol, update, issued>>
    BY <1>2 DEF LoginRefused, OtpWrong
  <2>2. \A v \in Users : hist'[v].verified = hist[v].verified /\ hist'[v].tainted = hist[v].tainted
    BY <1>2 DEF LoginRefused, OtpWrong, TypeOK, History
  <2>. QED
    BY <2>1, <2>2, SameEnrolment
<1>3. ASSUME NEW l \in Logins, LoginWithPassword(l) \/ LoginWithOtp(l) PROVE EnrolInv'
  <2>. DEFINE v == login[l].user
              r == [row[v] EXCEPT !.idle = FALSE]
  <2>1. v \in Users /\ r \in Row
    BY AgedType DEF TypeOK, Login
  <2>2. /\ r.secret = row[v].secret /\ r.confirmed = row[v].confirmed
        /\ Cleared(r).secret = row[v].secret /\ Cleared(r).confirmed = row[v].confirmed
    BY <1>1, <2>1, SameSecret
  <2>3. UNCHANGED <<enrol, update, issued>>
    BY <1>3 DEF LoginWithPassword, LoginWithOtp, Commit
  <2>4. row' = [row EXCEPT ![v] = r] \/ row' = [row EXCEPT ![v] = Cleared(r)]
    BY <1>3 DEF LoginWithPassword, LoginWithOtp, Commit
  <2>5. \A u \in Users : hist'[u].verified = hist[u].verified /\ hist'[u].tainted = hist[u].tainted
    BY <1>3 DEF LoginWithPassword, LoginWithOtp, TypeOK, History
  <2>. HIDE DEF v, r
  <2>6. \A u \in Users : row'[u].secret = row[u].secret /\ row'[u].confirmed = row[u].confirmed
    BY <2>1, <2>2, <2>4 DEF TypeOK
  <2>. QED
    BY <2>3, <2>5, <2>6, SameEnrolment
<1>4. ASSUME NEW l \in Logins, ThrottleTwoFactorFailure(l) PROVE EnrolInv'
  <2>. DEFINE v == login[l].user
              n == Missed(l)
              failed == IF n > MaxFailed THEN MaxFailed ELSE n
              lock == IF n >= MaxAttempts THEN LockTicks ELSE row[v].lock
  <2>1. v \in Users /\ failed \in 0..MaxFailed /\ lock \in 0..LockTicks
    BY MissedType DEF TypeOK, Login
  <2>2. row' = [row EXCEPT ![v] = [[row[v] EXCEPT !.failed = failed] EXCEPT !.lock = lock]]
    BY <1>4 DEF ThrottleTwoFactorFailure
  <2>. HIDE DEF n, lock, failed, v
  <2>3. /\ [row[v] EXCEPT !.failed = failed] \in Row
        /\ [row[v] EXCEPT !.failed = failed].secret = row[v].secret
        /\ [row[v] EXCEPT !.failed = failed].confirmed = row[v].confirmed
    BY <1>1, <2>1 DEF Row
  <2>4. \A u \in Users : row'[u].secret = row[u].secret /\ row'[u].confirmed = row[u].confirmed
    BY <2>1, <2>2, <2>3, SameSecret DEF TypeOK
  <2>. QED
    BY <1>4, <2>4, SameEnrolment DEF ThrottleTwoFactorFailure
<1>5. ASSUME NEW e \in Enrols, NEW d \in Updates, NEW s \in Secrets, EnrollIssue(e, d, s)
      PROVE  EnrolInv'
  <2>. DEFINE u == enrol[e].user
              r == [row[u] EXCEPT !.secret = s]
              m == Merged(u, r)
              w == [m EXCEPT !.stale = @ \/ enrol[e].stale]
  <2>1. u \in Users /\ enrol[e].stale \in BOOLEAN /\ Current(enrol[e]) /\ enrol[e].pc = "issue"
        /\ s \notin issued
    BY <1>5 DEF TypeOK, Enrol, EnrolInv, EnrollIssue
  <2>2. r.secret = s /\ r.confirmed = row[u].confirmed
    BY <1>1, <2>1 DEF Row
  <2>3. /\ w.busy /\ w.user = u /\ w.row = r /\ w.proof = NoSecret /\ ~w.reset
        /\ w.stale = (hist[u].tainted \/ enrol[e].stale)
    BY DEF Merged
  <2>4. /\ UNCHANGED <<row, hist>> /\ issued' = issued \cup {s}
        /\ update' = [update EXCEPT ![d] = w]
        /\ \A x \in Enrols : enrol'[x] = enrol[x] \/ enrol'[x] = NoEnrol
    BY <1>5 DEF EnrollIssue, TypeOK
  <2>5. NoEnrol.pc = "idle"
    BY DEF NoEnrol
  <2>. HIDE DEF u, r, m, w
  <2>6. ~w.stale => ~row[u].confirmed
    BY <1>1, <2>1, <2>3 DEF Current, u
  <2>7. Grounded(w, row, hist, issued')
    BY <2>2, <2>3, <2>4, <2>6 DEF Grounded
  <2>8. /\ w.row.secret \notin issued /\ issued \subseteq issued'
        /\ \A x \in Enrols : enrol'[x] = enrol[x] \/ enrol'[x].pc = "idle"
    BY <2>1, <2>2, <2>3, <2>4, <2>5
  <2>. QED
    BY <2>1, <2>3, <2>4, <2>7, <2>8, BeginEnrolled
<1>6. ASSUME NEW e \in Enrols, NEW d \in Updates, VerifyConfirm(e, d) PROVE EnrolInv'
  <2>. DEFINE u == enrol[e].user
              r == [row[u] EXCEPT !.confirmed = TRUE]
              m == Merged(u, r)
              w == [m EXCEPT !.proof = enrol[e].secret, !.stale = @ \/ enrol[e].stale]
  <2>1. u \in Users /\ enrol[e].stale \in BOOLEAN /\ Current(enrol[e]) /\ enrol[e].pc = "confirm"
    BY <1>6 DEF TypeOK, Enrol, EnrolInv, VerifyConfirm
  <2>2. r.secret = row[u].secret /\ r.confirmed
    BY <1>1, <2>1 DEF Row
  <2>3. /\ w.busy /\ w.user = u /\ w.row = r /\ w.proof = enrol[e].secret /\ ~w.reset
        /\ w.stale = (hist[u].tainted \/ enrol[e].stale)
    BY DEF Merged
  <2>4. /\ UNCHANGED <<row, hist, issued>>
        /\ update' = [update EXCEPT ![d] = w]
        /\ \A x \in Enrols : enrol'[x] = enrol[x] \/ enrol'[x] = NoEnrol
    BY <1>6 DEF VerifyConfirm, TypeOK
  <2>5. NoEnrol.pc = "idle"
    BY DEF NoEnrol
  <2>6. enrol[e].secret # NoSecret /\ (~enrol[e].stale => enrol[e].secret = row[u].secret)
    BY <2>1 DEF Current
  <2>. HIDE DEF u, r, m, w
  <2>7. Grounded(w, row, hist, issued')
    BY <1>1, <2>1, <2>2, <2>3, <2>4, <2>6 DEF Grounded
  <2>8. /\ issued \subseteq issued'
        /\ \A x \in Enrols : enrol'[x] = enrol[x] \/ enrol'[x].pc = "idle"
    BY <2>4, <2>5
  <2>. QED
    BY <2>1, <2>2, <2>3, <2>4, <2>7, <2>8, BeginEnrolled
<1>7. ASSUME NEW d \in Updates, NEW u \in Users, NEW s \in MaybeSecret, AdminReset(d, u, s)
      PROVE  EnrolInv'
  <2>. DEFINE r == ResetRow(row[u], s)
              m == Merged(u, r)
              w == [m EXCEPT !.reset = TRUE]
  <2>1. r.secret = s /\ ~r.confirmed
    BY <1>1 DEF Row, ResetRow
  <2>2. w.row = r /\ w.proof = NoSecret /\ w.reset
    BY DEF Merged
  <2>3. /\ UNCHANGED <<row, hist, enrol>> /\ issued' = issued \cup ({s} \ {NoSecret})
        /\ update' = [update EXCEPT ![d] = w] /\ s \notin issued
    BY <1>7, SecretAssumption DEF AdminReset, TypeOK
  <2>. HIDE DEF r, m, w
  <2>4. Grounded(w, row, hist, issued')
    BY <2>1, <2>2, <2>3 DEF Grounded
  <2>5. w.row.secret \notin issued /\ issued \subseteq issued'
    BY <2>1, <2>2, <2>3
  <2>. QED
    BY <2>3, <2>4, <2>5, BeginEnrolled
<1>8. ASSUME NEW d \in Updates, NEW u \in Users, NEW st \in Status, StatusUpdate(d, u, st)
      PROVE  EnrolInv'
  <2>. DEFINE r == [row[u] EXCEPT !.status = st]
              w == [Merged(u, r) EXCEPT
                      !.sessions = IF Revokes(row[u].status, st) THEN {} ELSE @]
  <2>1. r.secret = row[u].secret /\ r.confirmed = row[u].confirmed
    BY <1>1 DEF Row
  <2>2. /\ w.busy /\ w.user = u /\ w.row = r /\ w.proof = NoSecret /\ ~w.reset
        /\ w.stale = hist[u].tainted
    BY DEF Merged
  <2>3. UNCHANGED <<row, hist, issued, enrol>> /\ update' = [update EXCEPT ![d] = w]
    BY <1>8 DEF StatusUpdate
  <2>. HIDE DEF r, w
  <2>4. Grounded(w, row, hist, issued')
    BY <1>1, <2>1, <2>2, <2>3 DEF Grounded
  <2>. QED
    BY <2>1, <2>2, <2>3, <2>4, BeginEnrolled
<1>9. ASSUME NEW d \in Updates, NEW u \in Users, SweepMark(d, u) PROVE EnrolInv'
  BY <1>8, <1>9, StatusAssumption DEF SweepMark
<1>10. ASSUME NEW d \in Updates, UpdateWrite(d) PROVE EnrolInv'
  BY <1>10, UpdateWriteEnrolled
<1>11. ASSUME NEW e \in Enrols, NEW u \in Users, EnrollRead(e, u) \/ VerifyRead(e, u)
       PROVE  EnrolInv'
  BY <1>11, ReadEnrolled
<1>12. CASE Tick
  <2>1. \A u \in Users : /\ row'[u].secret = row[u].secret
                         /\ row'[u].confirmed = row[u].confirmed
    BY <1>12 DEF Tick, TypeOK, Row
  <2>2. \A u \in Users : /\ hist'[u].verified = hist[u].verified
                         /\ hist'[u].tainted = hist[u].tainted
    BY <1>12 DEF Tick, TypeOK, History
  <2>3. \A d \in Updates : /\ update'[d].busy = update[d].busy
                           /\ update'[d].user = update[d].user
                           /\ update'[d].proof = update[d].proof
                           /\ update'[d].reset = update[d].reset
                           /\ update'[d].stale = update[d].stale
                           /\ update'[d].row.secret = update[d].row.secret
                           /\ update'[d].row.confirmed = update[d].row.confirmed
    BY <1>12 DEF Tick, TypeOK, Update, Row
  <2>. QED
    BY <1>12, <2>1, <2>2, <2>3, SameEnrolment DEF Tick
<1>13. ASSUME NEW u \in Users, GrowIdle(u) PROVE EnrolInv'
  <2>1. \A v \in Users : /\ row'[v].secret = row[v].secret
                         /\ row'[v].confirmed = row[v].confirmed
    BY <1>13 DEF GrowIdle, TypeOK, Row
  <2>2. \A d \in Updates : /\ update'[d].busy = update[d].busy
                           /\ update'[d].user = update[d].user
                           /\ update'[d].proof = update[d].proof
                           /\ update'[d].reset = update[d].reset
                           /\ update'[d].stale = update[d].stale
                           /\ update'[d].row.secret = update[d].row.secret
                           /\ update'[d].row.confirmed = update[d].row.confirmed
    BY <1>13 DEF GrowIdle, TypeOK, Update, Row
  <2>. QED
    BY <1>13, <2>1, <2>2, SameEnrolment DEF GrowIdle
<1>14. CASE \/ \E l \in Logins, u \in Users : LoginStart(l, u)
            \/ \E u \in Users : Logout(u)
            \/ ToggleTwoFactor \/ SweepFind \/ UNCHANGED vars
  BY <1>14, SameEnrolment DEF LoginStart, Logout, ToggleTwoFactor, SweepFind, vars
<1>. QED
  BY <1>2, <1>3, <1>4, <1>5, <1>6, <1>7, <1>8, <1>9, <1>10, <1>11, <1>12, <1>13, <1>14
  DEF Next, LoginStep, UpdateStep, SetStatus

\* The secret of a confirmed enrolment is the one its owner proved to hold,
\* unless an enrolment request wrote over a concurrent write to it.
THEOREM ConfirmedMeansVerifiedHolds == Spec => []ConfirmedMeansVerified
<1>1. Init => EnrolInv
  <2>. SUFFICES ASSUME Init PROVE EnrolInv
    OBVIOUS
  <2>1. /\ NewRow.secret = NoSecret /\ ~NewRow.confirmed
        /\ \A s \in Secrets : EnrolledRow(s).secret = s
    BY DEF NewRow, EnrolledRow
  <2>2. \A u \in Users : /\ row[u].secret \in issued \cup {NoSecret}
                         /\ row[u].confirmed => row[u].secret # NoSecret
                         /\ hist[u].verified = row[u].secret
    BY <2>1, SecretAssumption DEF Init
  <2>3. \A d \in Updates : Grounded(update[d], row, hist, issued) /\ Fresh(d)
    BY <2>1 DEF Init, Grounded, Fresh, NoUpdate
  <2>4. \A e \in Enrols : Current(enrol[e])
    BY DEF Init, Current, NoEnrol
  <2>. QED
    BY <2>2, <2>3, <2>4 DEF EnrolInv, ConfirmedMeansVerified
<1>2. EnrolInv => ConfirmedMeansVerified
  BY DEF EnrolInv
<1>. QED
  BY <1>1, <1>2, NextEnrolled, TypeCorrect, PTL DEF Spec

-----------------------------------------------------------------------------
(* The throttle bounds the codes tried.  While no lock runs, every guess    *)
(* beyond the counter is a login that still has to count itself; once one   *)
(* runs, only the logins that looked before it can add a guess.             *)

\* The wrong codes of u not counted yet.
Counting(u) == {l \in Logins : login[l].pc = "count" /\ login[l].user = u}

\* The logins of u that may still check a code while its lock runs: what they
\* read holds no lock, or one that ends before the stored one.
Late(u) ==
  {l \in Logins :
     /\ login[l].pc = "gate" /\ login[l].user = u
     /\ \/ login[l].snap.lock = 0
        \/ login[l].snap.lock = 1 /\ ~login[l].aged /\ row[u].lock > 1}

Few(u) ==
  /\ hist[u].guesses <= MaxAttempts - 1 + Cardinality(Counting(u))
  /\ row[u].lock = 0 /\ row[u].failed < MaxAttempts =>
       hist[u].guesses <= row[u].failed + Cardinality(Counting(u))

\* A login in flight while a lock of the given life runs: the lock was set or
\* renewed during it, or it is the lock the login read.
KnowsLock(x, lock) ==
  \/ lock = LockTicks
  \/ lock = LockTicks - 1 /\ x.aged
  \/ x.pc = "gate" /\ x.snap.lock = lock

Running(u) ==
  /\ row[u].lock > 0
  /\ \A d \in Updates : update[d].busy /\ update[d].user = u =>
       update[d].row.lock <= row[u].lock
  /\ \A l \in Logins : login[l].pc # "idle" /\ login[l].user = u =>
       KnowsLock(login[l], row[u].lock)
  /\ hist[u].guesses + Cardinality(Late(u)) <= MaxAttempts + Cardinality(Logins) - 1

GuessInv == \A u \in Users : Few(u) \/ Running(u)

\* The logins that still count and those that are late, counted.
LEMMA LoginSets ==
  ASSUME IsFiniteSet(Logins), NEW u
  PROVE  /\ IsFiniteSet(Counting(u)) /\ Cardinality(Counting(u)) \in Nat
         /\ IsFiniteSet(Late(u)) /\ Cardinality(Late(u)) \in Nat
         /\ Cardinality(Logins) \in Nat
         /\ Cardinality(Counting(u)) <= Cardinality(Logins)
<1>1. Counting(u) \subseteq Logins /\ Late(u) \subseteq Logins
  BY DEF Counting, Late
<1>. QED
  BY <1>1, FS_Subset, FS_CardinalityType

\* Logins that count and logins at the gate are different ones, and there is
\* one more that is neither.
LEMMA CountingAndLate ==
  ASSUME IsFiniteSet(Logins), NEW A, NEW B, A \subseteq Logins, B \subseteq Logins,
         A \cap B = {}, NEW l \in Logins, l \notin A, l \notin B
  PROVE  Cardinality(A) + Cardinality(B) <= Cardinality(Logins) - 1
<1>1. IsFiniteSet(A) /\ IsFiniteSet(B) /\ IsFiniteSet(A \cup B)
  BY FS_Subset, FS_Union
<1>2. Cardinality(A \cup B) = Cardinality(A) + Cardinality(B)
  <2>1. Cardinality(A \cap B) = 0
    BY FS_EmptySet
  <2>2. Cardinality(A \cup B) = Cardinality(A) + Cardinality(B) - Cardinality(A \cap B)
    BY <1>1, FS_Union
  <2>3. Cardinality(A) \in Nat /\ Cardinality(B) \in Nat
    BY <1>1, FS_CardinalityType
  <2>. QED
    BY <2>1, <2>2, <2>3
<1>3. Cardinality((A \cup B) \cup {l}) = Cardinality(A \cup B) + 1
  BY <1>1, FS_AddElement
<1>4. Cardinality((A \cup B) \cup {l}) <= Cardinality(Logins)
  BY FS_Subset
<1>. QED
  BY <1>1, <1>2, <1>3, <1>4, FS_CardinalityType

\* The numbers are numbers.
LEMMA GuessTypes ==
  ASSUME TypeOK, NEW u \in Users
  PROVE  /\ row[u].lock \in 0..LockTicks /\ row[u].failed \in 0..MaxFailed
         /\ hist[u].guesses \in Nat
         /\ MaxAttempts \in Nat /\ MaxAttempts > 0 /\ LockTicks \in Nat /\ LockTicks > 0
         /\ MaxFailed \in Nat /\ MaxFailed >= MaxAttempts
BY ThrottleAssumption DEF TypeOK, Row, History

\* No guess since the counter was cleared: few guesses.
LEMMA Forgiven ==
  ASSUME IsFiniteSet(Logins), TypeOK', NEW u \in Users, hist'[u].guesses = 0
  PROVE  Few(u)'
<1>1. /\ row'[u].failed \in Nat /\ MaxAttempts \in Nat /\ MaxAttempts > 0
  BY ThrottleAssumption DEF TypeOK, Row
<1>2. Cardinality(Counting(u)') \in Nat
  <2>1. Counting(u)' \subseteq Logins
    BY DEF Counting
  <2>. QED
    BY <2>1, FS_Subset, FS_CardinalityType
<1>. QED
  BY <1>1, <1>2 DEF Few

\* A login in flight after the step that was so before, or that just read the
\* row.
Same(x, y) == x.pc = y.pc /\ x.user = y.user /\ x.snap.lock = y.snap.lock /\ x.aged = y.aged

\* A step that counts nothing, guesses nothing and leaves the throttle of u.
LEMMA QuietGuesses ==
  ASSUME IsFiniteSet(Logins), TypeOK, TypeOK', NEW u \in Users, Few(u) \/ Running(u),
         row'[u].lock = row[u].lock, row'[u].failed >= row[u].failed,
         hist'[u].guesses = hist[u].guesses,
         Counting(u)' = Counting(u),
         \A l \in Logins : login'[l].pc # "idle" /\ login'[l].user = u =>
           \/ Same(login'[l], login[l])
           \/ login'[l].pc = "gate" /\ login'[l].snap.lock = row[u].lock,
         \A d \in Updates : update'[d].busy /\ update'[d].user = u =>
           \/ update'[d].row.lock = row[u].lock
           \/ update[d].busy /\ update[d].user = u /\ update'[d].row.lock = update[d].row.lock
  PROVE  Few(u)' \/ Running(u)'
<1>1. CASE Few(u)
  <2>1. row'[u].failed \in Nat /\ row[u].failed \in Nat /\ hist[u].guesses \in Nat
        /\ MaxAttempts \in Nat
    BY GuessTypes DEF TypeOK, Row
  <2>2. Cardinality(Counting(u)) \in Nat
    BY LoginSets
  <2>. QED
    BY <1>1, <2>1, <2>2 DEF Few
<1>2. CASE Running(u)
  <2>1. row'[u].lock > 0
    BY <1>2 DEF Running
  <2>2. \A d \in Updates : update'[d].busy /\ update'[d].user = u =>
          update'[d].row.lock <= row'[u].lock
    <3>1. row[u].lock \in Nat
      BY GuessTypes
    <3>. QED
      BY <1>2, <3>1 DEF Running
  <2>3. \A l \in Logins : login'[l].pc # "idle" /\ login'[l].user = u =>
          KnowsLock(login'[l], row'[u].lock)
    BY <1>2 DEF Running, KnowsLock, Same
  <2>4. Late(u)' \subseteq Late(u)
    <3>1. ASSUME NEW l \in Late(u)' PROVE l \in Late(u)
      <4>1. l \in Logins /\ login'[l].pc = "gate" /\ login'[l].user = u
            /\ \/ login'[l].snap.lock = 0
               \/ login'[l].snap.lock = 1 /\ ~login'[l].aged /\ row[u].lock > 1
        BY <3>1 DEF Late
      <4>2. Same(login'[l], login[l])
        <5>1. row[u].lock > 0
          BY <1>2 DEF Running
        <5>. QED
          BY <4>1, <5>1, GuessTypes
      <4>. QED
        BY <4>1, <4>2 DEF Late, Same
    <3>. QED
      BY <3>1
  <2>5. Cardinality(Late(u)') <= Cardinality(Late(u)) /\ Cardinality(Late(u)') \in Nat
    BY <2>4, LoginSets, FS_Subset, FS_CardinalityType
  <2>6. hist'[u].guesses + Cardinality(Late(u)') <= MaxAttempts + Cardinality(Logins) - 1
    BY <1>2, <2>5, LoginSets, GuessTypes DEF Running
  <2>. QED
    BY <2>1, <2>2, <2>3, <2>6 DEF Running
<1>. QED
  BY <1>1, <1>2

\* A wrong code, of a login that saw no lock.
LEMMA WrongGuesses ==
  ASSUME IsFiniteSet(Logins), TypeOK, TypeOK', NEW l \in Logins, OtpWrong(l),
         NEW u \in Users, u = login[l].user, Few(u) \/ Running(u), LockTicks >= 3
  PROVE  Few(u)' \/ Running(u)'
<1>1. /\ login[l].pc = "gate" /\ login[l].snap.lock = 0
      /\ UNCHANGED <<row, update>>
      /\ login'[l].pc = "count" /\ login'[l].user = u
      /\ \A k \in Logins : k # l => login'[k] = login[k]
  BY DEF OtpWrong, TypeOK, Login
<1>2. login'[l].snap = login[l].snap /\ login'[l].aged = login[l].aged
  BY DEF OtpWrong, TypeOK, Login
<1>3. hist'[u].guesses = hist[u].guesses + 1
  BY DEF OtpWrong, TypeOK, History
<1>4. CASE Few(u)
  <2>1. Counting(u)' = Counting(u) \cup {l}
    BY <1>1 DEF Counting
  <2>2. l \notin Counting(u)
    BY <1>1 DEF Counting
  <2>3. Cardinality(Counting(u)') = Cardinality(Counting(u)) + 1
    BY <2>1, <2>2, LoginSets, FS_AddElement
  <2>4. Cardinality(Counting(u)) \in Nat
    BY LoginSets
  <2>. QED
    BY <1>1, <1>3, <1>4, <2>3, <2>4, GuessTypes DEF Few
<1>5. CASE Running(u)
  <2>1. l \in Late(u)
    BY <1>1 DEF Late
  <2>2. Late(u)' = Late(u) \ {l}
    BY <1>1 DEF Late
  <2>3. Cardinality(Late(u)') = Cardinality(Late(u)) - 1
    BY <2>1, <2>2, LoginSets, FS_RemoveElement
  <2>4. Cardinality(Late(u)) \in Nat /\ Cardinality(Logins) \in Nat
    BY LoginSets
  <2>5. hist'[u].guesses + Cardinality(Late(u)') <= MaxAttempts + Cardinality(Logins) - 1
    BY <1>3, <1>5, <2>3, <2>4, GuessTypes DEF Running
  <2>6. KnowsLock(login'[l], row[u].lock)
    BY <1>1, <1>2, <1>5, GuessTypes DEF Running, KnowsLock
  <2>7. \A k \in Logins : login'[k].pc # "idle" /\ login'[k].user = u =>
          KnowsLock(login'[k], row'[u].lock)
    BY <1>1, <1>5, <2>6 DEF Running
  <2>. QED
    BY <1>1, <1>5, <2>5, <2>7 DEF Running
<1>. QED
  BY <1>4, <1>5

\* The counting of a wrong code.  At the cap it starts the lock; while a lock
\* runs it renews it, and nobody can have read the last tick of that lock.
LEMMA CountedGuesses ==
  ASSUME IsFiniteSet(Logins), TypeOK, TypeOK', ExhaustedInv, NEW l \in Logins,
         ThrottleTwoFactorFailure(l), NEW u \in Users, u = login[l].user,
         Few(u) \/ Running(u), LockTicks >= 3
  PROVE  Few(u)' \/ Running(u)'
<1>. DEFINE n == row[u].failed + 1
            failed == IF n > MaxFailed THEN MaxFailed ELSE n
            lock == IF n >= MaxAttempts THEN LockTicks ELSE row[u].lock
<1>1. /\ login[l].pc = "count"
      /\ UNCHANGED <<update, hist>>
      /\ login'[l] = NoLogin
      /\ \A k \in Logins : k # l => login'[k] = login[k]
  BY DEF ThrottleTwoFactorFailure, TypeOK
<1>2. n \in Nat /\ failed \in 0..MaxFailed /\ lock \in 0..LockTicks
  BY GuessTypes
<1>3. row'[u].failed = failed /\ row'[u].lock = lock
  BY DEF ThrottleTwoFactorFailure, TypeOK, Row, Missed
<1>4. NoLogin.pc = "idle"
  BY DEF NoLogin
<1>5. Counting(u)' = Counting(u) \ {l} /\ l \in Counting(u)
  BY <1>1, <1>4 DEF Counting
<1>6. /\ Cardinality(Counting(u)') = Cardinality(Counting(u)) - 1
      /\ Cardinality(Counting(u)') \in Nat /\ IsFiniteSet(Counting(u)')
  BY <1>5, LoginSets, FS_RemoveElement, FS_CardinalityType
<1>7. /\ Cardinality(Counting(u)) \in Nat /\ Cardinality(Late(u)) \in Nat
      /\ Cardinality(Logins) \in Nat
  BY LoginSets
<1>8. row[u].lock > 0 => n >= MaxAttempts
  BY GuessTypes DEF ExhaustedInv, LockedMeansExhausted
<1>9. CASE n < MaxAttempts
  <2>1. Few(u) /\ row[u].lock = 0
    BY <1>2, <1>8, <1>9, GuessTypes DEF Running
  <2>2. failed = n /\ lock = 0
    BY <1>2, <1>9, <2>1, GuessTypes
  <2>3. hist[u].guesses <= row[u].failed + Cardinality(Counting(u))
    BY <1>9, <2>1, GuessTypes DEF Few
  <2>. QED
    BY <1>1, <1>3, <1>6, <1>7, <1>9, <2>2, <2>3, GuessTypes DEF Few
<1>10. CASE n >= MaxAttempts
  <2>1. row'[u].lock = LockTicks
    BY <1>3, <1>10
  <2>2. \A d \in Updates : update'[d].row.lock <= LockTicks
    BY <1>1, GuessTypes DEF TypeOK, Update, Row
  <2>3. \A k \in Logins : KnowsLock(login'[k], row'[u].lock)
    BY <2>1 DEF KnowsLock
  <2>4. hist'[u].guesses + Cardinality(Late(u)') <= MaxAttempts + Cardinality(Logins) - 1
    <3>1. CASE Few(u)
      <4>1. Cardinality(Counting(u)') + Cardinality(Late(u)') <= Cardinality(Logins) - 1
        <5>1. Counting(u)' \subseteq Logins /\ Late(u)' \subseteq Logins
              /\ Counting(u)' \cap Late(u)' = {}
          BY DEF Counting, Late
        <5>2. l \notin Counting(u)' /\ l \notin Late(u)'
          BY <1>1, <1>4 DEF Counting, Late
        <5>. QED
          BY <5>1, <5>2, CountingAndLate
      <4>2. Cardinality(Late(u)') \in Nat
        <5>1. Late(u)' \subseteq Logins
          BY DEF Late
        <5>. QED
          BY <5>1, FS_Subset, FS_CardinalityType
      <4>3. hist'[u].guesses <= MaxAttempts - 1 + Cardinality(Counting(u))
        BY <1>1, <3>1 DEF Few
      <4>. QED
        BY <1>1, <1>6, <1>7, <4>1, <4>2, <4>3, GuessTypes
    <3>2. CASE Running(u)
      <4>1. row[u].lock > 1
        BY <1>1, <3>2, GuessTypes DEF Running, KnowsLock
      <4>2. Late(u)' \subseteq Late(u)
        BY <1>1, <1>4, <4>1 DEF Late
      <4>3. Cardinality(Late(u)') <= Cardinality(Late(u)) /\ Cardinality(Late(u)') \in Nat
        BY <4>2, LoginSets, FS_Subset, FS_CardinalityType
      <4>. QED
        BY <1>1, <1>7, <3>2, <4>3, GuessTypes DEF Running
    <3>. QED
      BY <3>1, <3>2
  <2>. QED
    BY <2>1, <2>2, <2>3, <2>4, GuessTypes DEF Running
<1>. QED
  BY <1>2, <1>9, <1>10, GuessTypes

\* A tick.  Every login in flight has aged, so it has read the lock that runs
\* on, or one that was renewed once.
LEMMA TickGuesses ==
  ASSUME IsFiniteSet(Logins), TypeOK, TypeOK', Tick, NEW u \in Users,
         Few(u) \/ Running(u)
  PROVE  Few(u)' \/ Running(u)'
<1>1. /\ \A l \in Logins : ~login[l].aged
      /\ row'[u].lock = Less(row[u].lock) /\ row'[u].failed = row[u].failed
      /\ hist'[u].guesses = IF row[u].lock = 1 THEN 0 ELSE hist[u].guesses
  BY DEF Tick, TypeOK, Row, History
<1>2. \A l \in Logins : /\ login'[l].pc = login[l].pc /\ login'[l].user = login[l].user
                        /\ login'[l].snap.lock = Less(login[l].snap.lock)
                        /\ login'[l].aged = (login[l].pc # "idle")
                        /\ login[l].snap.lock \in 0..LockTicks
  <2>1. \A x \in Login : x.snap.lock \in 0..LockTicks
    BY DEF Login, Snap
  <2>. TAKE l \in Logins
  <2>. DEFINE n == Less(login[l].snap.lock)
              b == login[l].pc # "idle"
  <2>2. login'[l] = [login[l] EXCEPT !.snap.lock = n, !.aged = b]
    BY DEF Tick
  <2>3. login[l] \in Login
    BY DEF TypeOK
  <2>. HIDE DEF n, b
  <2>4. /\ login'[l].pc = login[l].pc /\ login'[l].user = login[l].user
        /\ login'[l].snap.lock = n /\ login'[l].aged = b
    BY <2>2, <2>3 DEF Login, Snap
  <2>. QED
    BY <2>1, <2>3, <2>4 DEF n, b
<1>3. \A d \in Updates : /\ update'[d].busy = update[d].busy
                         /\ update'[d].user = update[d].user
                         /\ update'[d].row.lock = Less(update[d].row.lock)
                         /\ update[d].row.lock \in 0..LockTicks
  <2>1. \A w \in Update : w.row.lock \in 0..LockTicks
    BY DEF Update, Row
  <2>. TAKE d \in Updates
  <2>. DEFINE n == Less(update[d].row.lock)
  <2>2. update'[d] = [update[d] EXCEPT !.row.lock = n]
    BY DEF Tick
  <2>3. update[d] \in Update
    BY DEF TypeOK
  <2>. HIDE DEF n
  <2>4. /\ update'[d].busy = update[d].busy /\ update'[d].user = update[d].user
        /\ update'[d].row.lock = n
    BY <2>2, <2>3 DEF Update, Row
  <2>. QED
    BY <2>1, <2>3, <2>4 DEF n
<1>4. Counting(u)' = Counting(u)
  BY <1>2 DEF Counting
<1>5. Cardinality(Counting(u)) \in Nat /\ Cardinality(Logins) \in Nat
  BY LoginSets
<1>6. CASE row[u].lock = 1
  BY <1>1, <1>6, Forgiven
<1>7. CASE row[u].lock = 0 /\ Few(u)
  BY <1>1, <1>4, <1>7 DEF Few, Less
<1>8. CASE row[u].lock > 1 /\ Few(u)
  <2>1. row'[u].lock > 0
    BY <1>1, <1>8, GuessTypes DEF Less
  <2>. QED
    BY <1>1, <1>4, <1>8, <2>1, GuessTypes DEF Few
<1>9. CASE row[u].lock > 1 /\ Running(u)
  <2>1. row'[u].lock = row[u].lock - 1 /\ row'[u].lock > 0
    BY <1>1, <1>9, GuessTypes DEF Less
  <2>2. \A d \in Updates : update'[d].busy /\ update'[d].user = u =>
          update'[d].row.lock <= row'[u].lock
    BY <1>3, <1>9, <2>1, GuessTypes DEF Running, Less
  <2>3. ASSUME NEW l \in Logins, login'[l].pc # "idle", login'[l].user = u
        PROVE  KnowsLock(login'[l], row'[u].lock)
    <3>1. KnowsLock(login[l], row[u].lock)
      BY <1>2, <1>9, <2>3 DEF Running
    <3>. QED
      BY <1>1, <1>2, <1>9, <2>1, <2>3, <3>1, GuessTypes DEF KnowsLock, Less
  <2>4. ASSUME NEW l \in Logins, l \in Late(u)' PROVE l \in Late(u)
    <3>1. /\ login[l].pc = "gate" /\ login[l].user = u /\ login'[l].aged
          /\ Less(login[l].snap.lock) = 0
      BY <1>2, <2>4 DEF Late
    <3>2. login[l].snap.lock = 0 \/ login[l].snap.lock = 1
      BY <1>2, <3>1, GuessTypes DEF Less
    <3>. QED
      BY <1>1, <1>9, <3>1, <3>2 DEF Late
  <2>5. Cardinality(Late(u)') <= Cardinality(Late(u)) /\ Cardinality(Late(u)') \in Nat
        /\ Cardinality(Late(u)) \in Nat
    <3>1. Late(u)' \subseteq Late(u)
      BY <2>4 DEF Late
    <3>. QED
      BY <3>1, LoginSets, FS_Subset, FS_CardinalityType
  <2>6. hist'[u].guesses = hist[u].guesses
    BY <1>1, <1>9
  <2>. QED
    BY <1>5, <1>9, <2>1, <2>2, <2>3, <2>5, <2>6, GuessTypes DEF Running
<1>. QED
  BY <1>6, <1>7, <1>8, <1>9, GuessTypes DEF Running

\* The write of an update.  Taking the throttle back starts the count anew;
\* otherwise the lock it writes is the one that runs.
LEMMA UpdateWriteGuesses ==
  ASSUME IsFiniteSet(Logins), TypeOK, TypeOK', NEW d \in Updates, UpdateWrite(d),
         NEW u \in Users, Few(u) \/ Running(u)
  PROVE  Few(u)' \/ Running(u)'
<1>. DEFINE w == update[d]
            back == w.row.failed < row[w.user].failed \/ w.row.lock < row[w.user].lock
<1>1. /\ w.busy /\ w.user \in Users
      /\ row'[u] = IF u = w.user THEN w.row ELSE row[u]
      /\ hist'[u].guesses = IF u = w.user /\ back THEN 0 ELSE hist[u].guesses
  BY DEF UpdateWrite, TypeOK, Update, History
<1>2. \A l \in Logins : Same(login'[l], login[l])
  BY DEF UpdateWrite, TypeOK, Login, Same
<1>3. \A f \in Updates :
        \/ update'[f] = NoUpdate
        \/ /\ update'[f].busy = update[f].busy /\ update'[f].user = update[f].user
           /\ update'[f].row = update[f].row
  BY DEF UpdateWrite, TypeOK, Update
<1>4. ~NoUpdate.busy
  BY DEF NoUpdate
<1>5. Counting(u)' = Counting(u)
  BY <1>2 DEF Counting, Same
<1>6. /\ row[u].lock \in Nat /\ row[u].failed \in Nat
      /\ w.row.lock \in Nat /\ w.row.failed \in Nat
  BY DEF TypeOK, Row, Update
<1>. HIDE DEF w
<1>7. CASE u # w.user
  BY <1>1, <1>2, <1>3, <1>4, <1>5, <1>6, <1>7, QuietGuesses
<1>8. CASE u = w.user /\ back
  BY <1>1, <1>8, Forgiven
<1>9. CASE u = w.user /\ ~back
  <2>1. w.row.failed >= row[u].failed /\ w.row.lock >= row[u].lock
    BY <1>6, <1>9
  <2>2. row'[u] = w.row /\ hist'[u].guesses = hist[u].guesses
    BY <1>1, <1>9
  <2>3. CASE Running(u)
    <3>1. w.row.lock = row[u].lock
      BY <1>1, <1>6, <1>9, <2>1, <2>3 DEF Running, w
    <3>. QED
      BY <1>2, <1>3, <1>4, <1>5, <2>1, <2>2, <2>3, <3>1, QuietGuesses
  <2>4. CASE Few(u)
    <3>1. Cardinality(Counting(u)) \in Nat
      BY LoginSets
    <3>2. row'[u].lock = 0 /\ row'[u].failed < MaxAttempts =>
            row[u].lock = 0 /\ row[u].failed < MaxAttempts
      BY <1>6, <2>1, <2>2, GuessTypes
    <3>. QED
      BY <1>5, <1>6, <2>1, <2>2, <2>4, <3>1, <3>2, GuessTypes DEF Few
  <2>. QED
    BY <2>3, <2>4
<1>. QED
  BY <1>7, <1>8, <1>9

\* A login that ends, or an update that begins, with the throttle as it is.
LEMMA EndGuesses ==
  ASSUME IsFiniteSet(Logins), TypeOK, TypeOK', NEW u \in Users, Few(u) \/ Running(u),
         row'[u].lock = row[u].lock, row'[u].failed = row[u].failed,
         hist'[u].guesses = hist[u].guesses,
         UNCHANGED update,
         NEW l \in Logins, login' = [login EXCEPT ![l] = NoLogin], login[l].pc = "gate"
  PROVE  Few(u)' \/ Running(u)'
<1>1. /\ login'[l].pc = "idle"
      /\ \A k \in Logins : k # l => login'[k] = login[k]
  BY DEF TypeOK, NoLogin
<1>2. Counting(u)' = Counting(u)
  BY <1>1 DEF Counting
<1>3. row'[u].failed >= row[u].failed
  BY GuessTypes
<1>. QED
  BY <1>1, <1>2, <1>3, QuietGuesses DEF Same

\* An update of the account that begins, and knows its lock, guesses nothing.
LEMMA BeginGuesses ==
  ASSUME IsFiniteSet(Logins), TypeOK, TypeOK', NEW u \in Users, Few(u) \/ Running(u),
         UNCHANGED <<row, login, hist>>, NEW d \in Updates, NEW w,
         update' = [update EXCEPT ![d] = w], w.user = u => w.row.lock = row[u].lock
  PROVE  Few(u)' \/ Running(u)'
<1>1. update'[d] = w /\ \A f \in Updates : f # d => update'[f] = update[f]
  BY DEF TypeOK
<1>2. Counting(u)' = Counting(u)
  BY DEF Counting
<1>3. row'[u].failed >= row[u].failed
  BY GuessTypes
<1>. QED
  BY <1>1, <1>2, <1>3, QuietGuesses DEF Same

\* Each step keeps the guesses of an account within the cap and the logins under
\* way, or its lock running.
LEMMA NextGuesses ==
  ASSUME IsFiniteSet(Logins), LockTicks >= 3
  PROVE  TypeOK /\ TypeOK' /\ ExhaustedInv /\ GuessInv /\ [Next]_vars => GuessInv'
<1>. SUFFICES ASSUME TypeOK, TypeOK', ExhaustedInv, GuessInv, [Next]_vars, NEW v \in Users
     PROVE  Few(v)' \/ Running(v)'
  BY DEF GuessInv
<1>1. Few(v) \/ Running(v)
  BY DEF GuessInv
<1>2. row[v] \in Row /\ row[v].failed >= row[v].failed
  BY GuessTypes DEF TypeOK
<1>3. ASSUME NEW l \in Logins, NEW u \in Users, LoginStart(l, u)
      PROVE  Few(v)' \/ Running(v)'
  <2>1. /\ UNCHANGED <<row, hist, update>> /\ login[l].pc = "idle"
        /\ login'[l].pc = "gate" /\ login'[l].user = u /\ login'[l].snap.lock = row[u].lock
        /\ \A k \in Logins : k # l => login'[k] = login[k]
    BY <1>3 DEF LoginStart, TypeOK, Seen
  <2>2. Counting(v)' = Counting(v)
    BY <2>1 DEF Counting
  <2>. QED
    BY <1>1, <1>2, <2>1, <2>2, QuietGuesses DEF Same
<1>4. ASSUME NEW l \in Logins, LoginRefused(l) PROVE Few(v)' \/ Running(v)'
  BY <1>1, <1>4, EndGuesses DEF LoginRefused
<1>5. ASSUME NEW l \in Logins, OtpWrong(l) PROVE Few(v)' \/ Running(v)'
  <2>1. CASE v = login[l].user
    BY <1>1, <1>5, <2>1, WrongGuesses
  <2>2. CASE v # login[l].user
    <3>1. /\ UNCHANGED <<row, update>> /\ hist'[v] = hist[v]
          /\ login'[l].user = login[l].user
          /\ \A k \in Logins : k # l => login'[k] = login[k]
      BY <1>5, <2>2 DEF OtpWrong, TypeOK, Login
    <3>2. Counting(v)' = Counting(v)
      BY <2>2, <3>1 DEF Counting
    <3>. QED
      BY <1>1, <1>2, <2>2, <3>1, <3>2, QuietGuesses DEF Same
  <2>. QED
    BY <2>1, <2>2
<1>6. ASSUME NEW l \in Logins, LoginWithPassword(l) \/ LoginWithOtp(l)
      PROVE  Few(v)' \/ Running(v)'
  <2>. DEFINE u == login[l].user
              r == [row[u] EXCEPT !.idle = FALSE]
  <2>1. u \in Users /\ row[u] \in Row
    BY DEF TypeOK, Login
  <2>2. r.lock = row[u].lock /\ r.failed = row[u].failed
    BY <2>1, AgedType
  <2>3. /\ UNCHANGED update /\ login[l].pc = "gate"
        /\ login' = [login EXCEPT ![l] = NoLogin]
        /\ \A x \in Users : x # u => row'[x] = row[x] /\ hist'[x] = hist[x]
        /\ \/ row'[u] = r /\ hist' = hist
           \/ hist'[u].guesses = 0
    BY <1>6, <2>1 DEF LoginWithPassword, LoginWithOtp, Commit, TypeOK, History
  <2>. HIDE DEF u, r
  <2>4. CASE v # u \/ (row'[u] = r /\ hist' = hist)
    BY <1>1, <2>2, <2>3, <2>4, EndGuesses
  <2>5. CASE v = u /\ hist'[u].guesses = 0
    BY <2>5, Forgiven
  <2>. QED
    BY <2>3, <2>4, <2>5
<1>7. ASSUME NEW l \in Logins, ThrottleTwoFactorFailure(l) PROVE Few(v)' \/ Running(v)'
  <2>1. CASE v = login[l].user
    BY <1>1, <1>7, <2>1, CountedGuesses
  <2>2. CASE v # login[l].user
    <3>1. /\ UNCHANGED <<hist, update>> /\ row'[v] = row[v]
          /\ login'[l].pc = "idle"
          /\ \A k \in Logins : k # l => login'[k] = login[k]
      BY <1>7, <2>2 DEF ThrottleTwoFactorFailure, TypeOK, Login, NoLogin
    <3>2. Counting(v)' = Counting(v)
      BY <2>2, <3>1 DEF Counting
    <3>. QED
      BY <1>1, <1>2, <3>1, <3>2, QuietGuesses DEF Same
  <2>. QED
    BY <2>1, <2>2
<1>8. ASSUME UNCHANGED <<row, login, update, hist>> PROVE Few(v)' \/ Running(v)'
  <2>1. Counting(v)' = Counting(v)
    BY <1>8 DEF Counting
  <2>. QED
    BY <1>1, <1>2, <1>8, <2>1, QuietGuesses DEF Same
<1>9. ASSUME NEW e \in Enrols, NEW d \in Updates, NEW s \in Secrets, EnrollIssue(e, d, s)
      PROVE  Few(v)' \/ Running(v)'
  <2>. DEFINE u == enrol[e].user
              r == [row[u] EXCEPT !.secret = s]
              w == [Merged(u, r) EXCEPT !.stale = @ \/ enrol[e].stale]
  <2>1. u \in Users /\ row[u] \in Row
    BY DEF TypeOK, Enrol
  <2>2. r.lock = row[u].lock
    BY <2>1 DEF Row
  <2>3. w.row = r /\ w.user = u
    BY DEF Merged
  <2>4. UNCHANGED <<row, login, hist>> /\ update' = [update EXCEPT ![d] = w]
    BY <1>9 DEF EnrollIssue
  <2>. HIDE DEF u, r, w
  <2>. QED
    BY <1>1, <2>2, <2>3, <2>4, BeginGuesses
<1>10. ASSUME NEW e \in Enrols, NEW d \in Updates, VerifyConfirm(e, d)
       PROVE  Few(v)' \/ Running(v)'
  <2>. DEFINE u == enrol[e].user
              r == [row[u] EXCEPT !.confirmed = TRUE]
              w == [Merged(u, r) EXCEPT !.proof = enrol[e].secret,
                                        !.stale = @ \/ enrol[e].stale]
  <2>1. u \in Users /\ row[u] \in Row
    BY DEF TypeOK, Enrol
  <2>2. r.lock = row[u].lock
    BY <2>1 DEF Row
  <2>3. w.row = r /\ w.user = u
    BY DEF Merged
  <2>4. UNCHANGED <<row, login, hist>> /\ update' = [update EXCEPT ![d] = w]
    BY <1>10 DEF VerifyConfirm
  <2>. HIDE DEF u, r, w
  <2>. QED
    BY <1>1, <2>2, <2>3, <2>4, BeginGuesses
<1>11. ASSUME NEW d \in Updates, NEW u \in Users, NEW s \in MaybeSecret, AdminReset(d, u, s)
       PROVE  Few(v)' \/ Running(v)'
  <2>. DEFINE r == ResetRow(row[u], s)
              w == [Merged(u, r) EXCEPT !.reset = TRUE]
  <2>1. r.lock = row[u].lock
    BY ResetRowType DEF TypeOK
  <2>2. w.row = r /\ w.user = u
    BY DEF Merged
  <2>3. UNCHANGED <<row, login, hist>> /\ update' = [update EXCEPT ![d] = w]
    BY <1>11 DEF AdminReset
  <2>. HIDE DEF r, w
  <2>. QED
    BY <1>1, <2>1, <2>2, <2>3, BeginGuesses
<1>12. ASSUME NEW d \in Updates, NEW u \in Users, NEW st \in Status, StatusUpdate(d, u, st)
       PROVE  Few(v)' \/ Running(v)'
  <2>. DEFINE r == [row[u] EXCEPT !.status = st]
              w == [Merged(u, r) EXCEPT
                      !.sessions = IF Revokes(row[u].status, st) THEN {} ELSE @]
  <2>1. r.lock = row[u].lock
    BY DEF TypeOK, Row
  <2>2. w.row = r /\ w.user = u
    BY DEF Merged
  <2>3. UNCHANGED <<row, login, hist>> /\ update' = [update EXCEPT ![d] = w]
    BY <1>12 DEF StatusUpdate
  <2>. HIDE DEF r, w
  <2>. QED
    BY <1>1, <2>1, <2>2, <2>3, BeginGuesses
<1>13. ASSUME NEW d \in Updates, NEW u \in Users, SweepMark(d, u) PROVE Few(v)' \/ Running(v)'
  BY <1>12, <1>13, StatusAssumption DEF SweepMark
<1>14. ASSUME NEW d \in Updates, UpdateWrite(d) PROVE Few(v)' \/ Running(v)'
  BY <1>1, <1>14, UpdateWriteGuesses
<1>15. ASSUME Tick PROVE Few(v)' \/ Running(v)'
  BY <1>1, <1>15, TickGuesses
<1>16. ASSUME NEW u \in Users, GrowIdle(u) PROVE Few(v)' \/ Running(v)'
  <2>1. row'[v].lock = row[v].lock /\ row'[v].failed = row[v].failed
    BY <1>16 DEF GrowIdle, TypeOK, Row
  <2>2. \A d \in Updates : /\ update'[d].busy = update[d].busy
                           /\ update'[d].user = update[d].user
                           /\ update'[d].row.lock = update[d].row.lock
    BY <1>16 DEF GrowIdle, TypeOK, Update, Row
  <2>3. UNCHANGED <<login, hist>>
    BY <1>16 DEF GrowIdle
  <2>4. Counting(v)' = Counting(v)
    BY <2>3 DEF Counting
  <2>. QED
    BY <1>1, <1>2, <2>1, <2>2, <2>3, <2>4, QuietGuesses DEF Same
<1>17. CASE \/ UNCHANGED vars
            \/ \E u \in Users : Logout(u)
            \/ \E e \in Enrols, u \in Users : EnrollRead(e, u) \/ VerifyRead(e, u)
            \/ ToggleTwoFactor \/ SweepFind
  BY <1>8, <1>17 DEF Logout, EnrollRead, VerifyRead, ToggleTwoFactor, SweepFind, vars
<1>. QED
  BY <1>3, <1>4, <1>5, <1>6, <1>7, <1>9, <1>10, <1>11, <1>12, <1>13, <1>14, <1>15, <1>16, <1>17
  DEF Next, LoginStep, UpdateStep, SetStatus

\* The throttle bounds the codes that can be tried before the lock holds, also
\* when logins run side by side, provided a lock outlasts three logins.
THEOREM BoundedGuessesHolds ==
  ASSUME IsFiniteSet(Logins), LockTicks >= 3
  PROVE  Spec => []BoundedGuesses
<1>1. Init => GuessInv
  <2>1. ASSUME Init, NEW u \in Users PROVE Few(u)
    <3>1. hist[u].guesses = 0
      BY <2>1 DEF Init
    <3>2. Cardinality(Counting(u)) \in Nat
      BY LoginSets
    <3>3. row[u].failed \in Nat /\ MaxAttempts \in Nat \ {0}
      BY <2>1, InitType, GuessTypes, ThrottleAssumption
    <3>. QED
      BY <3>1, <3>2, <3>3 DEF Few
  <2>. QED
    BY <2>1 DEF GuessInv
<1>2. TypeOK /\ GuessInv => BoundedGuesses
  <2>. SUFFICES ASSUME TypeOK, GuessInv, NEW u \in Users
       PROVE  hist[u].guesses <= MaxAttempts + Cardinality(Logins) - 1
    BY DEF BoundedGuesses
  <2>1. Few(u) \/ Running(u)
    BY DEF GuessInv
  <2>. QED
    BY <2>1, LoginSets, GuessTypes DEF Few, Running
<1>. QED
  BY <1>1, <1>2, NextGuesses, ExhaustedHolds, TypeCorrect, PTL DEF Spec
=============================================================================
