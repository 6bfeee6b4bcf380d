--------------------------- MODULE MemberSessions ---------------------------
(***************************************************************************)
(* The sessions of a public member: login, logout, profile and password    *)
(* changes, status changes by an administrator, and password recovery      *)
(* (src/auth/memberHooks.ts, src/site/member.ts, the actions under         *)
(* src/app/(frontend)/{login,logout,profile,recover,reset-password}).      *)
(*                                                                         *)
(* One member.  A login reads the row, runs blockInactiveMemberLogin on    *)
(* what it read, and adds a session later.  An update reads the row, lets  *)
(* the hooks decide, and writes the merged row back later.                 *)
(***************************************************************************)
EXTENDS Naturals, FiniteSets

CONSTANTS
  Sids,        \* session ids
  Browsers,    \* one cookie each, shared with the back-office
  MemberLogins,\* logins in flight
  Edits,       \* updates of the row in flight
  Finders,     \* recovery requests in flight
  NoCookie,    \* an empty cookie
  AdminCookie  \* the cookie of an administrator

ASSUME MemberAssumption ==
  /\ NoCookie \notin Sids /\ AdminCookie \notin Sids /\ NoCookie # AdminCookie
  /\ Sids \cap (MemberLogins \cup Edits \cup Finders) = {}
  /\ MemberLogins \cap (Edits \cup Finders) = {} /\ Edits \cap Finders = {}

VARIABLES
  member,  \* the row: status, sessions, and whether a reset token is set
  cookie,  \* payload-token of each browser
  logins,  \* logins in flight: idle, for a browser, or to confirm a password
  edits,   \* updates in flight, with the row they will write
  finders, \* recovery requests that have found the member active
  old,     \* history: sessions that were live, or being minted, at a deactivation
  raced    \* history: sessions and requests that a deactivation overlapped

memberVars == <<member, cookie, logins, edits, finders, old, raced>>

-----------------------------------------------------------------------------
MemberStatus == {"active", "inactive"}

MemberTypeOK ==
  /\ member \in [status: MemberStatus, sessions: SUBSET Sids, link: BOOLEAN]
  /\ cookie \in [Browsers -> Sids \cup {NoCookie, AdminCookie}]
  /\ logins \in [MemberLogins -> {"idle", "confirm"} \cup Browsers]
  /\ edits \in [Edits -> [st: {"idle", "authed", "held"}, by: {"self", "admin"},
                       status: MemberStatus, sessions: SUBSET Sids]]
  /\ finders \in [Finders -> {"idle", "found"}]
  /\ old \subseteq Sids
  /\ raced \subseteq Sids \cup MemberLogins \cup Edits \cup Finders

NoEdit == [st |-> "idle", by |-> "self", status |-> "active", sessions |-> {}]

MemberInit ==
  /\ member = [status |-> "active", sessions |-> {}, link |-> FALSE]
  /\ cookie = [b \in Browsers |-> NoCookie]
  /\ logins = [l \in MemberLogins |-> "idle"]
  /\ edits = [u \in Edits |-> NoEdit]
  /\ finders = [q \in Finders |-> "idle"]
  /\ old = {} /\ raced = {}

\* The principal the cookie resolves to is the member: its session is in the row.
Principal(b) == cookie[b] \in member.sessions

\* readMemberFromHeaders: and the row is active.
Visitor(b) == Principal(b) /\ member.status = "active"

\* Session ids are random; one is used again here when nothing refers to it.
Fresh == {s \in Sids \ (member.sessions \cup old \cup raced) :
            /\ \A b \in Browsers : cookie[b] # s
            /\ \A u \in Edits : s \notin edits[u].sessions}

\* blockInactiveMemberLogin.
LoginAllowed(status) == status = "active"

\* loginAction up to the hook, or the re-authentication of changePasswordAction.
MemberLoginStart(l, purpose) ==
  /\ logins[l] = "idle" /\ LoginAllowed(member.status)
  /\ purpose = "confirm" => \E b \in Browsers : Principal(b)
  /\ logins' = [logins EXCEPT ![l] = purpose]
  /\ UNCHANGED <<member, cookie, edits, finders, old, raced>>

\* The session is added; a browser gets its cookie, the confirmation none.
MemberLoginEnd(l, s) ==
  /\ logins[l] # "idle" /\ s \in Fresh
  /\ member' = [member EXCEPT !.sessions = @ \cup {s}]
  /\ cookie' = IF logins[l] = "confirm" THEN cookie ELSE [cookie EXCEPT ![logins[l]] = s]
  /\ logins' = [logins EXCEPT ![l] = "idle"]
  /\ old' = IF l \in raced THEN old \cup {s} ELSE old
  /\ raced' = IF l \in raced THEN (raced \ {l}) \cup {s} ELSE raced
  /\ UNCHANGED <<edits, finders>>

\* The member logout route clears the cookie, whoever it belongs to.
MemberLogout(b) ==
  /\ cookie' = [cookie EXCEPT ![b] = NoCookie]
  /\ UNCHANGED <<member, logins, edits, finders, old, raced>>

\* The back-office uses the same cookie name.
AdminLogsIn(b) ==
  /\ cookie' = [cookie EXCEPT ![b] = AdminCookie]
  /\ UNCHANGED <<member, logins, edits, finders, old, raced>>

\* A token runs out, and its session is dropped from the row.
Expire(s) ==
  /\ s \in Sids /\ \A u \in Edits : s \notin edits[u].sessions
  /\ member' = [member EXCEPT !.sessions = @ \ {s}]
  /\ cookie' = [b \in Browsers |-> IF cookie[b] = s THEN NoCookie ELSE cookie[b]]
  /\ old' = old \ {s} /\ raced' = raced \ {s}
  /\ UNCHANGED <<logins, edits, finders>>

-----------------------------------------------------------------------------
(* Updates of the row.                                                     *)

\* Mutant: only a dormant or withdrawn row that is saved as such again is emptied.
Revoked_SameStatus(from, to, sessions) ==
  IF to # "active" /\ to = from THEN {} ELSE sessions

\* revokeMemberSessionsOnStatusChange.
Revoked(from, to, sessions) ==
  IF to # "active" /\ to # from THEN {} ELSE sessions

Hold(u, by, status) ==
  edits' = [edits EXCEPT ![u] = [st |-> "held", by |-> by, status |-> status,
              sessions |-> Revoked(member.status, status, member.sessions)]]

\* requireMember, which looks at no status: the member's own save is let in ...
SelfAuth(u) ==
  /\ edits[u].st = "idle" /\ \E b \in Browsers : Principal(b)
  /\ edits' = [edits EXCEPT ![u].st = "authed"]
  /\ UNCHANGED <<member, cookie, logins, finders, old, raced>>

\* Mutant: the principal loaded before, and not the row, supplies the other fields.
SelfBegin_FromPrincipal(u) ==
  /\ edits[u].st = "authed"
  /\ Hold(u, "self", "active")
  /\ UNCHANGED <<member, cookie, logins, finders, old, raced>>

\* ... and reads the row: field access strips a status from what it was sent.
SelfBegin(u) ==
  /\ edits[u].st = "authed"
  /\ Hold(u, "self", member.status)
  /\ UNCHANGED <<member, cookie, logins, finders, old, raced>>

\* An administrator's save, with the status on the form.
AdminBegin(u, status) ==
  /\ edits[u].st = "idle"
  /\ Hold(u, "admin", status)
  /\ UNCHANGED <<member, cookie, logins, finders, old, raced>>

Deactivates(u) == member.status = "active" /\ edits[u].status = "inactive"

InFlight ==
  {l \in MemberLogins : logins[l] # "idle"} \cup {v \in Edits : edits[v].st = "held"}
    \cup {q \in Finders : finders[q] = "found"}

\* The merged row is written; what a deactivation overtakes is remembered.
EditWrite(u) ==
  /\ edits[u].st = "held"
  /\ member' = [member EXCEPT !.status = edits[u].status, !.sessions = edits[u].sessions]
  /\ edits' = [edits EXCEPT ![u] = NoEdit]
  /\ LET kept == IF u \in raced THEN edits[u].sessions ELSE {} IN
     /\ old' = (IF Deactivates(u) THEN old \cup member.sessions ELSE old) \cup kept
     /\ raced' = ((IF Deactivates(u) THEN raced \cup InFlight ELSE raced) \cup kept) \ {u}
  /\ UNCHANGED <<cookie, logins, finders>>

-----------------------------------------------------------------------------
(* Recovery.                                                               *)

\* findMemberPassword finds the member active ...
FindActive(q) ==
  /\ finders[q] = "idle" /\ member.status = "active"
  /\ finders' = [finders EXCEPT ![q] = "found"]
  /\ UNCHANGED <<member, cookie, logins, edits, old, raced>>

\* ... and has a link sent, which payload.forgotPassword would do for any status,
\* or is refused for its rate.
Forgot(q, sent) ==
  /\ finders[q] = "found"
  /\ member' = [member EXCEPT !.link = @ \/ sent]
  /\ finders' = [finders EXCEPT ![q] = "idle"]
  /\ raced' = raced \ {q}
  /\ UNCHANGED <<cookie, logins, edits, old>>

\* resetPasswordAction: the token is used up; the status is neither read nor set.
Reset ==
  /\ member.link
  /\ member' = [member EXCEPT !.link = FALSE]
  /\ UNCHANGED <<cookie, logins, edits, finders, old, raced>>

MemberNext ==
  \/ \E l \in MemberLogins, p \in Browsers \cup {"confirm"} : MemberLoginStart(l, p)
  \/ \E l \in MemberLogins, s \in Sids : MemberLoginEnd(l, s)
  \/ \E b \in Browsers : MemberLogout(b) \/ AdminLogsIn(b)
  \/ \E s \in Sids : Expire(s)
  \/ \E u \in Edits : SelfAuth(u) \/ SelfBegin(u) \/ EditWrite(u)
  \/ \E u \in Edits, st \in MemberStatus : AdminBegin(u, st)
  \/ \E q \in Finders : FindActive(q)
  \/ \E q \in Finders, sent \in BOOLEAN : Forgot(q, sent)
  \/ Reset

MemberSpec == MemberInit /\ [][MemberNext]_memberVars

-----------------------------------------------------------------------------
(* Properties.                                                             *)

\* A deactivated member is out for good: even when active again, a browser is
\* recognised only by a session minted since, except for logins and saves that were
\* in flight across the deactivation (revokeMemberSessionsOnStatusChange).
OldSessionsAreOut ==
  \A b \in Browsers : Visitor(b) /\ cookie[b] \in old => cookie[b] \in raced

\* A session is left on an inactive row only by a login or a save that the
\* deactivation overlapped: nobody logs in afterwards (blockInactiveMemberLogin).
InactiveRowIsEmpty ==
  member.status = "inactive" => member.sessions \subseteq raced

\* The member's own save never undoes a deactivation: an inactive row turns active
\* only by a save with that status on an administrator's form, or by one that had
\* read the row before it was deactivated (profile/actions.ts).
ReactivationIsAdmins ==
  [][(member.status = "inactive" /\ member'.status = "active") =>
       \E u \in Edits : /\ edits[u].st = "held" /\ edits'[u].st = "idle"
                        /\ u \in raced \/ edits[u].by = "admin"]_memberVars

\* A reset link is sent to an inactive member only by a request that had found the
\* member active before (findMemberPassword).
LinksGoToActive ==
  [][(~member.link /\ member'.link) =>
       \/ member.status = "active"
       \/ \E q \in Finders : q \in raced /\ finders[q] = "found"]_memberVars

\* Deactivation ends what a member holds: no session minted before it is believed
\* again, and none is left on the row, but for what was in flight (memberHooks.ts).
DeactivatedIsOut == MemberTypeOK /\ OldSessionsAreOut /\ InactiveRowIsEmpty

\* An inactive member cannot get back by the own profile or the reset mail
\* (profile/actions.ts, findMemberPassword).
InactiveGainsNothing == ReactivationIsAdmins /\ LinksGoToActive

\* "clearing the cookie fully ends the session - no server-side session row to
\* revoke" (app/(frontend)/logout/route.ts).
LogoutEndsSession ==
  [][\A b \in Browsers : cookie[b] \in Sids /\ cookie'[b] = NoCookie =>
       cookie[b] \notin member'.sessions]_memberVars

=============================================================================
