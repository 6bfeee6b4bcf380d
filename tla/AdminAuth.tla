------------------------------ MODULE AdminAuth ------------------------------
(***************************************************************************)
(* The admin account of the back-office (the `users` collection): its      *)
(* lifecycle status, its Google-OTP enrolment, the OTP brute-force         *)
(* throttle, its live sessions, and the dormancy sweep.                    *)
(*                                                                         *)
(* Every request works on a copy of the row it read first and writes the   *)
(* row later, so the steps of logins, enrolments, admin edits and the      *)
(* sweep interleave here at exactly those reads and writes.  The updates   *)
(* that go through Payload write the whole row back, sessions included, as *)
(* they read it.  Time is the remaining life of an OTP lock, in ticks.     *)
(***************************************************************************)
EXTENDS Integers, FiniteSets

CONSTANTS
  Users,        \* rows of the `users` collection
  Logins,       \* slots for login requests in flight
  Enrols,       \* slots for 2FA-enrolment requests in flight
  Updates,      \* slots for updates of a row through Payload, in flight
  Status,       \* the account statuses explored
  Secrets,      \* TOTP secrets generateTotpSecret may return
  NoSecret,     \* `totpSecret: null`
  MaxAttempts,  \* TWO_FACTOR_MAX_ATTEMPTS
  LockTicks,    \* TWO_FACTOR_LOCK_MS, in ticks
  MaxFailed     \* bound of the exploration: the failure counter stops here

ASSUME UsersAssumption == Users # {}
ASSUME StatusAssumption ==
  /\ Status \subseteq {"pending", "active", "dormant", "locked"}
  /\ {"active", "dormant"} \subseteq Status
ASSUME SecretAssumption == NoSecret \notin Secrets
ASSUME ThrottleAssumption ==
  /\ MaxAttempts \in Nat \ {0}
  /\ LockTicks \in Nat \ {0}
  /\ MaxFailed \in Nat /\ MaxFailed >= MaxAttempts

VARIABLES
  row,       \* the stored columns of each user
  sessions,  \* live sessions of each user (`user.sessions`)
  required,  \* siteRequiresTwoFactor: some admin site has twoFactorEnabled
  login,     \* login requests in flight
  enrol,     \* enrolment requests in flight
  update,    \* updates through Payload that have read and not written
  sweep,     \* rows the dormancy sweep found and has not updated yet
  issued,    \* secrets generated so far
  hist       \* history of each user, read by the properties only

vars == <<row, sessions, required, login, enrol, update, sweep, issued, hist>>

-----------------------------------------------------------------------------
(* Types *)

MaybeSecret == Secrets \cup {NoSecret}

\* `lock` is what is left of totpLockUntil: 0 when null or in the past.
\* `idle`: the last activity is older than the dormancy cutoff.
Row == [status: Status, secret: MaybeSecret, confirmed: BOOLEAN,
        failed: 0..MaxFailed, lock: 0..LockTicks, idle: BOOLEAN]

\* A session remembers whether the account was deactivated while the login
\* that minted it was in flight.
Session == [raced: BOOLEAN]

\* What the beforeLogin hooks look at, of the row the login read.
Snap == [status: Status, enrolled: BOOLEAN, failed: 0..MaxFailed,
         lock: 0..LockTicks]

\* A login is at the beforeLogin gate, or its wrong code waits for the
\* afterError hook to count it.
LoginPc == {"idle", "gate", "count"}
Login == [pc: LoginPc, user: Users, snap: Snap, raced: BOOLEAN, aged: BOOLEAN]

\* An enrolment request is about to store a fresh secret (enroll), or to set
\* totpConfirmed (verify-enroll); `stale` marks that somebody else changed the
\* secret since it read the row.
EnrolPc == {"idle", "issue", "confirm"}
Enrol == [pc: EnrolPc, user: Users, secret: MaybeSecret, stale: BOOLEAN]

\* row, sessions: what the update will write.  proof: the secret whose code
\* makes it confirm the enrolment, if it does; reset: it takes the enrolment
\* back; stale: somebody else changed the secret since, or the row it read was
\* tainted.
Update == [busy: BOOLEAN, user: Users, row: Row, sessions: SUBSET Session,
           proof: MaybeSecret, reset: BOOLEAN, stale: BOOLEAN]

\* verified: the secret the last accepted enrolment code was checked against;
\* tainted: a request wrote the enrolment over somebody else's write;
\* guesses: wrong codes checked since the counter was reset or written back, or
\* a lock expired.
History == [verified: MaybeSecret, tainted: BOOLEAN, guesses: Nat]

TypeOK ==
  /\ row \in [Users -> Row]
  /\ sessions \in [Users -> SUBSET Session]
  /\ required \in BOOLEAN
  /\ login \in [Logins -> Login]
  /\ enrol \in [Enrols -> Enrol]
  /\ update \in [Updates -> Update]
  /\ sweep \in SUBSET Users
  /\ issued \in SUBSET Secrets
  /\ hist \in [Users -> History]

-----------------------------------------------------------------------------
(* Initial state: approved accounts, enrolled or not yet, nobody signed in *)

NewRow == [status |-> "active", secret |-> NoSecret, confirmed |-> FALSE,
           failed |-> 0, lock |-> 0, idle |-> FALSE]

NoLogin == [pc |-> "idle", user |-> CHOOSE u \in Users : TRUE,
            snap |-> [status |-> "active", enrolled |-> FALSE, failed |-> 0, lock |-> 0],
            raced |-> FALSE, aged |-> FALSE]

NoEnrol == [pc |-> "idle", user |-> CHOOSE u \in Users : TRUE,
            secret |-> NoSecret, stale |-> FALSE]

NoUpdate == [busy |-> FALSE, user |-> CHOOSE u \in Users : TRUE, row |-> NewRow,
             sessions |-> {}, proof |-> NoSecret, reset |-> FALSE, stale |-> FALSE]

\* An account that confirmed the secret s before.
EnrolledRow(s) == [NewRow EXCEPT !.secret = s, !.confirmed = TRUE]

Init ==
  /\ row \in [Users -> {NewRow} \cup {EnrolledRow(s) : s \in Secrets}]
  /\ sessions = [u \in Users |-> {}]
  /\ required \in BOOLEAN
  /\ login = [l \in Logins |-> NoLogin]
  /\ enrol = [e \in Enrols |-> NoEnrol]
  /\ update = [d \in Updates |-> NoUpdate]
  /\ sweep = {}
  /\ issued = {row[u].secret : u \in Users} \ {NoSecret}
  /\ hist = [u \in Users |-> [verified |-> row[u].secret, tainted |-> FALSE,
                              guesses |-> 0]]

-----------------------------------------------------------------------------
(* Login *)

Enrolled(r) == r.confirmed /\ r.secret # NoSecret
MustPassOtp(s) == required /\ s.enrolled

Seen(r) == [status |-> r.status, enrolled |-> Enrolled(r),
            failed |-> r.failed, lock |-> r.lock]

\* The password has verified and the login operation holds the row it read.
LoginStart(l, u) ==
  /\ login[l].pc = "idle"
  /\ login' = [login EXCEPT ![l] = [pc |-> "gate", user |-> u, snap |-> Seen(row[u]),
                                    raced |-> FALSE, aged |-> FALSE]]
  /\ UNCHANGED <<row, sessions, required, enrol, update, sweep, issued, hist>>

\* Mutant: a bounce off the lock renews it.
LoginRefused_RenewsLock(l) ==
  LET s == login[l].snap
      u == login[l].user IN
  /\ login[l].pc = "gate"
  /\ s.status # "active" \/ MustPassOtp(s)
  /\ login' = [login EXCEPT ![l] = NoLogin]
  /\ row' = [row EXCEPT ![u].lock = IF s.lock > 0 THEN LockTicks ELSE @]
  /\ UNCHANGED <<sessions, required, enrol, update, sweep, issued, hist>>

\* beforeLogin throws and the transaction is rolled back: the status gate, the
\* OTP lock, or no code in the request.  None of these is counted.
LoginRefused(l) ==
  LET s == login[l].snap IN
  /\ login[l].pc = "gate"
  /\ \/ s.status # "active"
     \/ MustPassOtp(s)              \* locked, or no code in the request
  /\ login' = [login EXCEPT ![l] = NoLogin]
  /\ UNCHANGED <<row, sessions, required, enrol, update, sweep, issued, hist>>

\* A wrong code: beforeLogin throws, and the afterError hook runs once the
\* login transaction is rolled back.
OtpWrong(l) ==
  LET s == login[l].snap
      u == login[l].user IN
  /\ login[l].pc = "gate"
  /\ s.status = "active" /\ MustPassOtp(s) /\ s.lock = 0
  /\ login' = [login EXCEPT ![l].pc = "count"]
  /\ hist' = [hist EXCEPT ![u].guesses = @ + 1]
  /\ UNCHANGED <<row, sessions, required, enrol, update, sweep, issued>>

\* The transaction commits: the session is stored and lastLoginAt stamped.
Commit(l, newRow) ==
  LET u == login[l].user IN
  /\ row' = [row EXCEPT ![u] = newRow]
  /\ sessions' = [sessions EXCEPT
                    ![u] = @ \cup {[raced |-> login[l].raced]}]
  /\ login' = [login EXCEPT ![l] = NoLogin]
  /\ UNCHANGED <<required, enrol, update, sweep, issued>>

\* No OTP is asked of an account that has not confirmed one, or of any account
\* while no admin site requires 2FA.
LoginWithPassword(l) ==
  LET s == login[l].snap
      u == login[l].user IN
  /\ login[l].pc = "gate"
  /\ s.status = "active" /\ ~MustPassOtp(s)
  /\ Commit(l, [row[u] EXCEPT !.idle = FALSE])
  /\ UNCHANGED hist

\* Mutant: only the counter is cleared.
Cleared_KeepsLock(r) == [r EXCEPT !.failed = 0]

Cleared(r) == [r EXCEPT !.failed = 0, !.lock = 0]

\* A right code clears the throttle, but only when the row this login READ had
\* something to clear.
LoginWithOtp(l) ==
  LET s == login[l].snap
      u == login[l].user IN
  /\ login[l].pc = "gate"
  /\ s.status = "active" /\ MustPassOtp(s) /\ s.lock = 0
  /\ IF s.failed # 0
     THEN /\ Commit(l, Cleared([row[u] EXCEPT !.idle = FALSE]))
          /\ hist' = [hist EXCEPT ![u].guesses = 0]
     ELSE /\ Commit(l, [row[u] EXCEPT !.idle = FALSE])
          /\ UNCHANGED hist

\* Mutant: the counter is written back from the row the login read.
Missed_FromSnapshot(l) == login[l].snap.failed + 1

Missed(l) == row[login[l].user].failed + 1

\* One UPDATE statement increments the stored counter and, from the value it
\* has just computed, sets the lock.
ThrottleTwoFactorFailure(l) ==
  LET u == login[l].user
      n == Missed(l) IN
  /\ login[l].pc = "count"
  /\ row' = [row EXCEPT ![u].failed = IF n > MaxFailed THEN MaxFailed ELSE n,
                        ![u].lock = IF n >= MaxAttempts THEN LockTicks ELSE @]
  /\ login' = [login EXCEPT ![l] = NoLogin]
  /\ UNCHANGED <<sessions, required, enrol, update, sweep, issued, hist>>

Logout(u) ==
  /\ \E s \in sessions[u] : sessions' = [sessions EXCEPT ![u] = @ \ {s}]
  /\ UNCHANGED <<row, required, login, enrol, update, sweep, issued, hist>>

-----------------------------------------------------------------------------
(* Updates through Payload: the row is read, the hooks run, and later the *)
(* whole merged row is written                                            *)

\* What an update of u that is to store the row r holds.
Merged(u, r) == [busy |-> TRUE, user |-> u, row |-> r, sessions |-> sessions[u],
                 proof |-> NoSecret, reset |-> FALSE, stale |-> hist[u].tainted]

\* The write.  It takes the status, the throttle and the sessions back to what
\* the update has read and decided, and a login in flight has read other values.
UpdateWrite(d) ==
  LET w == update[d]
      u == update[d].user
      other == w.row.secret # row[u].secret
      off == w.row.status # "active"
      back == w.row.failed < row[u].failed \/ w.row.lock < row[u].lock IN
  /\ w.busy
  /\ row' = [row EXCEPT ![u] = w.row]
  /\ sessions' = [sessions EXCEPT ![u] = w.sessions]
  /\ login' = [l \in Logins |->
                 [login[l] EXCEPT !.raced = @ \/ (off /\ login[l].pc # "idle"
                                                  /\ login[l].user = u)]]
  /\ enrol' = [e \in Enrols |->
                 [enrol[e] EXCEPT !.stale = @ \/ (other /\ enrol[e].pc # "idle"
                                                  /\ enrol[e].user = u)]]
  /\ update' = [f \in Updates |->
                  IF f = d THEN NoUpdate
                  ELSE [update[f] EXCEPT !.stale = @ \/ (other /\ update[f].busy
                                                         /\ update[f].user = u)]]
  /\ hist' = [hist EXCEPT
                ![u].verified = IF w.proof = NoSecret THEN @ ELSE w.proof,
                ![u].tainted = ~w.reset /\ (@ \/ w.stale),
                ![u].guesses = IF back THEN 0 ELSE @]
  /\ UNCHANGED <<required, sweep, issued>>

-----------------------------------------------------------------------------
(* Enrolment *)

\* enroll, first half: an account without a stored secret is about to get one.
\* (Confirmed, or a secret already stored: nothing is written.)
EnrollRead(e, u) ==
  /\ enrol[e].pc = "idle"
  /\ sessions[u] # {} /\ required
  /\ ~row[u].confirmed /\ row[u].secret = NoSecret
  /\ enrol' = [enrol EXCEPT ![e] = [pc |-> "issue", user |-> u,
                                    secret |-> NoSecret, stale |-> FALSE]]
  /\ UNCHANGED <<row, sessions, required, login, update, sweep, issued, hist>>

\* enroll, second half: the update that stores the fresh secret.
EnrollIssue(e, d, s) ==
  LET u == enrol[e].user IN
  /\ enrol[e].pc = "issue"
  /\ ~update[d].busy
  /\ s \in Secrets \ issued
  /\ update' = [update EXCEPT ![d] =
                  [Merged(u, [row[u] EXCEPT !.secret = s])
                     EXCEPT !.stale = @ \/ enrol[e].stale]]
  /\ issued' = issued \cup {s}
  /\ enrol' = [enrol EXCEPT ![e] = NoEnrol]
  /\ UNCHANGED <<row, sessions, required, login, sweep, hist>>

\* verify-enroll, first half: the code is right for the secret just read.
VerifyRead(e, u) ==
  /\ enrol[e].pc = "idle"
  /\ sessions[u] # {}
  /\ ~row[u].confirmed /\ row[u].secret # NoSecret
  /\ enrol' = [enrol EXCEPT ![e] = [pc |-> "confirm", user |-> u,
                                    secret |-> row[u].secret, stale |-> FALSE]]
  /\ UNCHANGED <<row, sessions, required, login, update, sweep, issued, hist>>

\* verify-enroll, second half: the update that sets totpConfirmed, whatever
\* secret is stored now.
VerifyConfirm(e, d) ==
  LET u == enrol[e].user IN
  /\ enrol[e].pc = "confirm"
  /\ ~update[d].busy
  /\ update' = [update EXCEPT ![d] =
                  [Merged(u, [row[u] EXCEPT !.confirmed = TRUE])
                     EXCEPT !.proof = enrol[e].secret, !.stale = @ \/ enrol[e].stale]]
  /\ enrol' = [enrol EXCEPT ![e] = NoEnrol]
  /\ UNCHANGED <<row, sessions, required, login, sweep, issued, hist>>

-----------------------------------------------------------------------------
(* Administration *)

\* Mutant: the confirmation survives the reset.
ResetRow_StaysConfirmed(r, s) == [r EXCEPT !.secret = s]

ResetRow(r, s) == [r EXCEPT !.secret = s, !.confirmed = FALSE]

\* resetTwoFactorDevice removes the secret, regenerateTwoFactorSecret replaces
\* it; both take the confirmation back and leave the throttle alone.
AdminReset(d, u, s) ==
  /\ ~update[d].busy
  /\ s \in (Secrets \ issued) \cup {NoSecret}
  /\ update' = [update EXCEPT ![d] =
                  [Merged(u, ResetRow(row[u], s)) EXCEPT !.reset = TRUE]]
  /\ issued' = issued \cup ({s} \ {NoSecret})
  /\ UNCHANGED <<row, sessions, required, login, enrol, sweep, hist>>

\* Mutant: only a manual lock revokes.
Revokes_OnlyLocked(old, st) == st = "locked" /\ st # old

Revokes(old, st) == st # "active" /\ st # old

\* A change of status to anything but active empties the sessions in the same
\* write.
StatusUpdate(d, u, st) ==
  /\ ~update[d].busy
  /\ update' = [update EXCEPT ![d] =
                  [Merged(u, [row[u] EXCEPT !.status = st])
                     EXCEPT !.sessions = IF Revokes(row[u].status, st) THEN {} ELSE @]]
  /\ UNCHANGED <<row, sessions, required, login, enrol, issued, hist>>

\* An administrator saves the account, with another status or the same.
SetStatus(d, u, st) ==
  /\ StatusUpdate(d, u, st)
  /\ UNCHANGED sweep

\* The 2FA switch on the admin site row.
ToggleTwoFactor ==
  /\ required' = ~required
  /\ UNCHANGED <<row, sessions, login, enrol, update, sweep, issued, hist>>

-----------------------------------------------------------------------------
(* The dormancy sweep: one query, then one update per row it returned *)

SweepFind ==
  /\ sweep = {}
  /\ sweep' = {u \in Users : row[u].status = "active" /\ row[u].idle}
  /\ UNCHANGED <<row, sessions, required, login, enrol, update, issued, hist>>

SweepMark(d, u) ==
  /\ u \in sweep
  /\ StatusUpdate(d, u, "dormant")
  /\ sweep' = sweep \ {u}

-----------------------------------------------------------------------------
(* Time *)

Less(n) == IF n = 0 THEN 0 ELSE n - 1

\* One tick of every lock, stored or read.  A login in flight sees at most one
\* tick: logins are far shorter than a lock.
Tick ==
  /\ \A l \in Logins : ~login[l].aged
  /\ row' = [u \in Users |-> [row[u] EXCEPT !.lock = Less(@)]]
  /\ login' = [l \in Logins |->
                 [login[l] EXCEPT !.snap.lock = Less(@),
                                  !.aged = login[l].pc # "idle"]]
  /\ update' = [d \in Updates |-> [update[d] EXCEPT !.row.lock = Less(@)]]
  /\ hist' = [u \in Users |->
                [hist[u] EXCEPT !.guesses = IF row[u].lock = 1 THEN 0 ELSE @]]
  /\ UNCHANGED <<sessions, required, enrol, sweep, issued>>

\* The dormancy cutoff overtakes the last activity of u.
GrowIdle(u) ==
  /\ ~row[u].idle
  /\ row' = [row EXCEPT ![u].idle = TRUE]
  /\ update' = [d \in Updates |->
                  [update[d] EXCEPT !.row.idle = @ \/ (update[d].busy
                                                       /\ update[d].user = u)]]
  /\ UNCHANGED <<sessions, required, login, enrol, sweep, issued, hist>>

-----------------------------------------------------------------------------

LoginStep(l) ==
  \/ LoginRefused(l)
  \/ OtpWrong(l)
  \/ LoginWithPassword(l)
  \/ LoginWithOtp(l)
  \/ ThrottleTwoFactorFailure(l)

\* The updates that d may begin, and its write.
UpdateStep(d) ==
  \/ \E e \in Enrols, s \in Secrets : EnrollIssue(e, d, s)
  \/ \E e \in Enrols : VerifyConfirm(e, d)
  \/ \E u \in Users, s \in MaybeSecret : AdminReset(d, u, s)
  \/ \E u \in Users, st \in Status : SetStatus(d, u, st)
  \/ \E u \in Users : SweepMark(d, u)
  \/ UpdateWrite(d)

Next ==
  \/ \E l \in Logins, u \in Users : LoginStart(l, u)
  \/ \E l \in Logins : LoginStep(l)
  \/ \E u \in Users : Logout(u)
  \/ \E e \in Enrols, u \in Users : EnrollRead(e, u) \/ VerifyRead(e, u)
  \/ \E d \in Updates : UpdateStep(d)
  \/ ToggleTwoFactor
  \/ SweepFind
  \/ Tick
  \/ \E u \in Users : GrowIdle(u)

Spec == Init /\ [][Next]_vars

\* The server finishes the requests it has accepted, and time passes.
Fairness ==
  /\ \A l \in Logins : WF_vars(LoginStep(l))
  /\ WF_vars(Tick)

FairSpec == Spec /\ Fairness

-----------------------------------------------------------------------------

\* Deactivating an account revokes its sessions (revokeSessionsOnStatusChange)
\* and no later login gets one (blockInactiveLogin): a session alive on an
\* inactive account was minted by a login that was already in flight.
InactiveSessionsAreRaced ==
  \A u \in Users : row[u].status # "active" =>
    \A s \in sessions[u] : s.raced

\* The throttle bounds the codes that can be tried before the lock holds, also
\* when logins run side by side: the cap, plus one per other login in flight.
BoundedGuesses ==
  \A u \in Users :
    hist[u].guesses <= MaxAttempts + Cardinality(Logins) - 1

\* A lock is only ever held by an exhausted counter, so that the login which
\* clears one clears the other.
LockedMeansExhausted ==
  \A u \in Users : row[u].lock > 0 => row[u].failed >= MaxAttempts

\* The secret of a confirmed enrolment is the one its owner proved to hold,
\* unless an enrolment request wrote over a concurrent write to it.
ConfirmedMeansVerified ==
  \A u \in Users : row[u].confirmed /\ ~hist[u].tainted =>
    /\ row[u].secret # NoSecret
    /\ row[u].secret = hist[u].verified

\* The throttle is never a permanent lock-out: every lock runs out, although a
\* code that was already being checked may renew it.
LockRunsOut == \A u \in Users : row[u].lock > 0 ~> row[u].lock = 0

-----------------------------------------------------------------------------
(* What a comment of the source says, which the interleavings contradict. *)

\* "every live JWT is invalidated immediately" by a flip to a non-active status.
InactiveHoldsNoSession ==
  \A u \in Users : row[u].status # "active" => sessions[u] = {}
=============================================================================
