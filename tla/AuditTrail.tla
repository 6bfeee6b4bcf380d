----------------------------- MODULE AuditTrail -----------------------------
(***************************************************************************)
(* The audit trail (src/audit, the log collections, the personal-info      *)
(* hooks of src/members): operations of administrators and the log rows    *)
(* written beside them.                                                    *)
(*                                                                         *)
(* A log row is inserted by its own transaction on a second connection     *)
(* while the operation that awaits it still holds its transaction and row  *)
(* locks; a failed insert is swallowed.  One column links a log row to the *)
(* accounts: the actor of an access log, a foreign key whose check waits   *)
(* for whoever holds the actor's row.  Deleting an account empties the     *)
(* columns that name it, in access logs and in the rows it authored.       *)
(***************************************************************************)
EXTENDS Naturals, Sequences, FiniteSets, FiniteSetsExt

CONSTANTS
  Ops,     \* operations, one request each
  Admins,  \* accounts
  Docs,    \* audited rows that name an account: posts, words, proposals
  Author,  \* the account each of them names
  Pool,    \* connections of the database pool
  NoActor

ASSUME AuditAssumption ==
  /\ Author \in [Docs -> Admins] /\ Pool \in Nat
  /\ NoActor \notin Admins /\ Admins \cap Docs = {}

VARIABLES
  ops,    \* the operations
  alive,  \* accounts that exist
  logs,   \* log rows written
  missed  \* log rows whose insert failed, and why

auditVars == <<ops, alive, logs, missed>>

OpKinds == {"saveRow", "saveUser", "deleteUser", "login", "logout", "saveMember",
          "viewMember", "listMembers", "exportMembers", "exportTrail", "refusedLogin",
          "brokenRequest"}

Logs == {"access", "permission", "menuPermission", "loginHistory", "personal", "errors"}

\* Logs an operation writes, in the order of its hooks.  A save journals the
\* roles or the grants only when they changed.
Plan(k) ==
  CASE k = "saveRow"       -> {<<"access">>, <<"menuPermission", "access">>}
    [] k = "saveUser"      -> {<<"access">>, <<"permission", "access">>}
    [] k \in {"deleteUser", "logout"} -> {<<"access">>}
    [] k = "login"         -> {<<"access", "loginHistory">>}
    [] k = "listMembers"   -> {<<>>}
    [] k = "refusedLogin"  -> {<<"loginHistory">>}
    [] k = "brokenRequest" -> {<<"errors">>}
    [] OTHER               -> {<<"personal">>}

\* Operations that hold a transaction while they write their logs.  Reads hold
\* none, and failures are logged after the rollback.
Transactional == {"saveRow", "saveUser", "deleteUser", "login", "logout", "saveMember"}

\* Mutant: every access log is linked to its actor.
Linked_Always(k) == TRUE

\* linkActor: FALSE where the operation locks an account's row.
Linked(k) == k \notin {"saveUser", "deleteUser", "login", "logout"}

\* The export of the log of personal data itself writes that it happened, with
\* the purpose given, and then a file with every identity masked.
Trail == {"file"}

\* What a finished operation discloses of members: in full to the detail view
\* and the export of a privacy officer, else masked, as a file or on a screen, or
\* nothing.
Disclosed(k) ==
  CASE k = "viewMember"    -> {"full"}
    [] k = "exportMembers" -> {"full", "file"}
    [] k = "exportTrail"   -> Trail
    [] k = "listMembers"   -> {"masked"}
    [] OTHER               -> {"none"}

\* Disclosures that owe a log row: of full data, and of any file.
Owing == {"full", "file"}

\* Rows an operation changes: one, and for a deletion the rows that name it.
Footprint(k, t) ==
  CASE k = "deleteUser" -> {t} \cup {d \in Docs : Author[d] = t}
    [] k \in {"saveRow", "saveUser", "login", "logout"} -> {t}
    [] OTHER -> {}

Targets(k, a) ==
  CASE k = "saveRow" -> Docs
    [] k \in {"saveUser", "deleteUser"} -> alive
    [] OTHER -> {a}

Stages == {"idle", "working", "inserting", "ended", "aborted"}

IdleOp == [kind |-> "none", actor |-> NoActor, target |-> NoActor, wants |-> {}, holds |-> {},
         plan |-> <<>>, todo |-> <<>>, at |-> "idle", answer |-> "none"]

LogRow == [op: Ops, log: Logs, actor: Admins \cup {NoActor}]
Missed == [op: Ops, log: Logs, why: {"outage", "actorGone"}]

-----------------------------------------------------------------------------
(* Resources: connections and row locks.                                   *)

InFlight(o) == ops[o].at \in {"working", "inserting"}

\* One connection for the transaction, a second one for the insert.
Connections ==
  [o \in Ops |-> (IF InFlight(o) /\ ops[o].kind \in Transactional THEN 1 ELSE 0)
                   + (IF ops[o].at = "inserting" THEN 1 ELSE 0)]

Used(S) == MapThenSumSet(LAMBDA o : Connections[o], S)

HasFreeConnection == Used(Ops) < Pool

Holders(r) == {p \in Ops : r \in ops[p].holds}

\* The insert in flight checks the foreign key of its actor.
ChecksActor(o) ==
  ops[o].at = "inserting" /\ Head(ops[o].todo) = "access" /\ Linked(ops[o].kind)

\* An account is locked before the rows that name it.
Lockable(o) ==
  IF ops[o].wants \cap Admins # {} THEN ops[o].wants \cap Admins ELSE ops[o].wants

-----------------------------------------------------------------------------
AuditInit ==
  /\ ops = [o \in Ops |-> IdleOp]
  /\ alive = Admins
  /\ logs = {} /\ missed = {}

\* A request of an account arrives.  A transaction needs a connection first.
BeginOp(o, k, a, t, plan, answer) ==
  /\ ops[o].at = "idle"
  /\ k \in Transactional => HasFreeConnection
  /\ ops' = [ops EXCEPT ![o] =
       [kind |-> k, actor |-> a, target |-> t, wants |-> Footprint(k, t), holds |-> {},
        plan |-> plan, todo |-> plan, at |-> "working", answer |-> answer]]
  /\ UNCHANGED <<alive, logs, missed>>

\* The statement of the operation takes a row lock.
LockRow(o, r) ==
  /\ ops[o].at = "working" /\ r \in Lockable(o)
  /\ Holders(r) = {}
  /\ r \in Admins => r \in alive
  /\ ops' = [ops EXCEPT ![o].wants = @ \ {r}, ![o].holds = @ \cup {r}]
  /\ UNCHANGED <<alive, logs, missed>>

\* A hook starts the insert of the next log, and the operation awaits it.
StartInsert(o) ==
  /\ ops[o].at = "working" /\ ops[o].wants = {} /\ ops[o].todo # <<>>
  /\ HasFreeConnection
  /\ ops' = [ops EXCEPT ![o].at = "inserting"]
  /\ UNCHANGED <<alive, logs, missed>>

Resumed(o) == [ops EXCEPT ![o].at = "working", ![o].todo = Tail(@)]

\* The insert ends.  A linked one first waits for the actor's row, and fails if
\* the account is gone by then.
InsertDone(o) ==
  LET log == Head(ops[o].todo)
      a == IF ChecksActor(o) THEN ops[o].actor ELSE NoActor
  IN  /\ ops[o].at = "inserting"
      /\ Holders(a) = {}
      /\ ops' = Resumed(o)
      /\ IF a \in Admins \ alive
         THEN /\ missed' = missed \cup {[op |-> o, log |-> log, why |-> "actorGone"]}
              /\ UNCHANGED logs
         ELSE /\ logs' = logs \cup {[op |-> o, log |-> log, actor |-> a]}
              /\ UNCHANGED missed
      /\ UNCHANGED alive

\* The insert fails for another reason; the writer logs that and goes on.
InsertFails(o) ==
  /\ ops[o].at = "inserting"
  /\ ops' = Resumed(o)
  /\ missed' = missed \cup {[op |-> o, log |-> Head(ops[o].todo), why |-> "outage"]}
  /\ UNCHANGED <<alive, logs>>

\* ON DELETE SET NULL.
Unlinked(a) == {[l EXCEPT !.actor = IF @ = a THEN NoActor ELSE @] : l \in logs}

\* Mutant: the hooks do not await their inserts.
Settled_Early(o) == ops[o].wants = {}

\* Everything the operation awaits has ended.
Settled(o) == ops[o].wants = {} /\ ops[o].todo = <<>>

\* The operation commits and answers.
End(o) ==
  /\ ops[o].at = "working" /\ Settled(o)
  /\ ops' = [ops EXCEPT ![o].at = "ended", ![o].holds = {}]
  /\ IF ops[o].kind = "deleteUser"
     THEN alive' = alive \ {ops[o].target} /\ logs' = Unlinked(ops[o].target)
     ELSE UNCHANGED <<alive, logs>>
  /\ UNCHANGED missed

\* The operation rolls back; the logs it wrote stay.
Abort(o) ==
  /\ ops[o].at = "working" /\ ops[o].kind \in Transactional
  /\ ops' = [ops EXCEPT ![o].at = "aborted", ![o].holds = {}]
  /\ UNCHANGED <<alive, logs, missed>>

AuditStep(o) ==
  \/ \E k \in OpKinds, a \in alive :
       \E t \in Targets(k, a), plan \in Plan(k), answer \in Disclosed(k) :
         BeginOp(o, k, a, t, plan, answer)
  \/ \E r \in ops[o].wants : LockRow(o, r)
  \/ StartInsert(o) \/ InsertDone(o) \/ InsertFails(o) \/ End(o) \/ Abort(o)

AuditNext == \E o \in Ops : AuditStep(o)

AuditSpec == AuditInit /\ [][AuditNext]_auditVars

-----------------------------------------------------------------------------
(* Properties.                                                             *)

\* Type invariant of the audit trail.
AuditTypeOK ==
  /\ \A o \in Ops :
       /\ ops[o].kind \in OpKinds \cup {"none"} /\ ops[o].at \in Stages
       /\ ops[o].actor \in Admins \cup {NoActor}
       /\ ops[o].wants \cup ops[o].holds \subseteq Admins \cup Docs
       /\ Len(ops[o].todo) <= Len(ops[o].plan)
  /\ alive \subseteq Admins /\ logs \subseteq LogRow /\ missed \subseteq Missed

Written(o, log) == \E l \in logs : l.op = o /\ l.log = log
Lost(o, log) == \E l \in missed : l.op = o /\ l.log = log

\* An operation that has answered left every log row of its hooks, unless the
\* insert failed; and nothing but an outage or the deletion of the actor makes
\* an insert fail.  ("Never lose the action.")
EndedIsLogged ==
  \A o \in Ops : ops[o].at = "ended" =>
    \A k \in 1..Len(ops[o].plan) :
      \/ Written(o, ops[o].plan[k])
      \/ \E l \in missed : /\ l.op = o /\ l.log = ops[o].plan[k]
                           /\ l.why = "actorGone" => ops[o].actor \notin alive

\* Full personal data, and any file of members or of the log about them, leaves
\* only with its log row, or a failed insert of it (the two read hooks "partition
\* every member read"; the exports record their purpose first).
DisclosureIsLogged ==
  \A o \in Ops : ops[o].at = "ended" /\ ops[o].answer \in Owing =>
    Written(o, "personal") \/ Lost(o, "personal")

\* A log row names an account that exists, or none.
NoDanglingActor == \A l \in logs : l.actor \in alive \cup {NoActor}

\* Log rows are never changed or removed by what happens to accounts and rows,
\* but for the link to a deleted account.
LogsOutliveAccounts ==
  [][\A l \in logs : l \in logs' \/ [l EXCEPT !.actor = NoActor] \in logs']_auditVars

\* The trail can be relied on: what ended was logged, full disclosures too, and
\* neither the deletion of an account nor anything else takes a row away or leaves
\* one naming nobody (src/audit).
TrailIsKept ==
  [](AuditTypeOK /\ EndedIsLogged /\ DisclosureIsLogged /\ NoDanglingActor) /\ LogsOutliveAccounts

\* Whether every way on of operation o waits for an operation of D: for the
\* holder of a row, or for a connection while D holds all of them.
Awaits(o, D) ==
  \/ /\ ops[o].at = "working" /\ ops[o].wants # {}
     /\ \A r \in Lockable(o) : Holders(r) \cap D # {}
  \/ ChecksActor(o) /\ Holders(ops[o].actor) \cap D # {}
  \/ /\ ops[o].at = "working" /\ ops[o].wants = {} /\ ops[o].todo # <<>>
     /\ Used(D) = Pool

\* A set of operations that wait for one another.  The database cannot see it:
\* one of the waits is a hook's await.
Stuck(D) == D # {} /\ \A o \in D : Awaits(o, D)

\* Deletion o meets two saves: its victim is saving a row, which p does, and a row
\* that names the victim is being saved, which q does; p may be q.
DeletesAuthor(o, p, q) ==
  /\ ops[o].kind = "deleteUser" /\ ops[p].kind = "saveRow" /\ ops[q].kind = "saveRow"
  /\ ops[p].actor = ops[o].target /\ Author[ops[q].target] = ops[o].target

\* With two connections for every operation, operations wait for one another
\* only where an account is deleted while it saves a row and a row that names it
\* is saved: nobody ever waits for the row of its own operation (why linkActor
\* is FALSE).  With fewer, an insert that waits for an account's row can hold
\* the connection the holder of that row needs for its own log.
StuckOnlyByDeletion ==
  \A D \in SUBSET Ops : Stuck(D) => \E o, p, q \in D : DeletesAuthor(o, p, q)
=============================================================================
