-------------------------- MODULE DisclosureProofs --------------------------
(***************************************************************************)
(* Proofs about who is shown what, and what is written down about it:      *)
(* Access, Reports, AuditTrail, BoardList and Questionnaire.  The modules  *)
(* share no state, so the parts below have nothing in common but lemmas.   *)
(***************************************************************************)
EXTENDS Access, Reports, AuditTrail, BoardList, Questionnaire, SequenceTheorems, SumTheorems, TLAPS

-----------------------------------------------------------------------------
(* Access decisions.  What carries them: a live menu has borne its key, a    *)
(* request decides with ids that have borne the keys they answer for, and    *)
(* what it returned is what its principal sees with those ids.               *)

\* A key resolved to nothing while no menu has been added: no menu has it.
FoundNothing(r) ==
  req[r].st \in {"begun", "open"} /\ ~req[r].young =>
    \A k \in Keys : req[r].ids[k].st = "done" /\ req[r].ids[k].id = NoMenu => Carries(k) = {}

AccessInv ==
  /\ AccessTypeOK /\ Grounded
  /\ \A i \in MenuIds : menus[i] \in Keys => <<i, menus[i]>> \in bore
  /\ \A i, j \in MenuIds : menus[i] \in Keys /\ menus[i] = menus[j] => i = j
  /\ \A r \in Requests :
       /\ Plausible(req[r].who)
       /\ req[r].confined => req[r].who.kind = "admin"
       /\ Done(r) => req[r].rows = Visible(req[r].helper, req[r].who, req[r].confined, Resolved(r))
       /\ FoundNothing(r)
       /\ \A k \in Keys : req[r].ids[k].st = "read" => req[r].ids[k].id # NoMenu

RequestRecord ==
  [st: {"idle", "begun", "open", "done"}, helper: Helpers, who: Principals,
   confined: BOOLEAN, ids: [Keys -> Lookup], young: BOOLEAN, rows: SUBSET TenantRow]

\* A filter depends on the ids of the keys its helper resolves, and on no other.
LEMMA VisibleByNeeded ==
  ASSUME NEW h \in Helpers, NEW p \in Principals, NEW c \in BOOLEAN, NEW a, NEW b,
         \A k \in Needed(h, p, c) : a[k] = b[k]
  PROVE  Visible(h, p, c, a) = Visible(h, p, c, b)
<1>. DEFINE open == p.kind # "anonymous" /\ ~c
            ga(k) == open /\ (p.super \/ GrantsMenu(p, a[k]))
            gb(k) == open /\ (p.super \/ GrantsMenu(p, b[k]))
<1>1. ASSUME NEW k, k \in Needed(h, p, c) \/ ~open \/ p.super PROVE ga(k) = gb(k)
  BY <1>1
<1>2. CASE ~open \/ p.super
  <2>1. \A k : ga(k) = gb(k)
    BY <1>1, <1>2
  <2>. QED
    BY <2>1 DEF Visible
<1>3. CASE open /\ ~p.super /\ h \in {"menu", "tenant"}
  <2>1. ga(Content) = gb(Content)
    BY <1>1, <1>3 DEF Needed
  <2>. QED
    BY <1>3, <2>1 DEF Visible
<1>4. CASE open /\ ~p.super /\ h = "securityDoc"
  <2>1. ga(Content) = gb(Content) /\ ga(Privacy) = gb(Privacy)
    BY <1>1, <1>4 DEF Needed
  <2>. QED
    BY <1>4, <2>1 DEF Visible
<1>5. CASE open /\ ~p.super /\ h = "membership"
  BY <1>5 DEF Visible
<1>6. CASE open /\ ~p.super /\ h = "attachmentRead"
  <2>1. CASE p.sites = {}
    <3>1. AssignedRows(p) = {}
      BY <2>1 DEF AssignedRows
    <3>. QED
      BY <1>6, <3>1 DEF Visible, SecurityDocAttachmentRead
  <2>2. CASE p.sites # {}
    <3>1. ga(Privacy) = gb(Privacy)
      BY <1>1, <1>6, <2>2 DEF Needed
    <3>. QED
      BY <1>6, <3>1 DEF Visible
  <2>. QED
    BY <2>1, <2>2
<1>7. CASE open /\ ~p.super /\ h = "users"
  <2>1. CASE p.kind # "admin"
    BY <1>7, <2>1 DEF Visible, SelfOrMenuAccess
  <2>2. CASE p.kind = "admin"
    <3>1. ga(Content) = gb(Content)
      BY <1>1, <1>7, <2>2 DEF Needed
    <3>. QED
      BY <1>7, <3>1 DEF Visible
  <2>. QED
    BY <2>1, <2>2
<1>8. CASE open /\ ~p.super /\ h = "members"
  <2>1. CASE p.kind = "member"
    BY <1>8, <2>1 DEF Visible, MemberSelfOrManageAccess
  <2>2. CASE p.kind # "member"
    <3>1. ga(Content) = gb(Content)
      BY <1>1, <1>8, <2>2 DEF Needed
    <3>. QED
      BY <1>8, <3>1 DEF Visible
  <2>. QED
    BY <2>1, <2>2
<1>. QED
  BY <1>2, <1>3, <1>4, <1>5, <1>6, <1>7, <1>8 DEF Helpers

\* A filter lets rows through, and to those who are confined the own account only.
LEMMA VisibleRows ==
  ASSUME NEW h \in Helpers, NEW p \in Principals, NEW c \in BOOLEAN, NEW a
  PROVE  /\ Visible(h, p, c, a) \subseteq TenantRow
         /\ c /\ p.kind = "admin" =>
              /\ Visible(h, p, c, a) \subseteq OwnTenantRows
              /\ Visible(h, p, c, a) # {} => h = "users"
<1>1. TenantScope(p) \subseteq TenantRow /\ AssignedRows(p) \subseteq TenantRow
      /\ OwnTenantRows \subseteq TenantRow
  BY DEF TenantScope, AssignedRows, OwnTenantRows
<1>2. Visible(h, p, c, a) \subseteq TenantRow
  BY <1>1 DEF Visible, Helpers, TenantScopedMenuAccess, TenantMembershipAccess,
              SecurityDocScopedAccess, SecurityDocAttachmentRead, SelfOrMenuAccess,
              MemberSelfOrManageAccess
<1>3. ASSUME c, p.kind = "admin"
      PROVE  Visible(h, p, c, a) = IF h = "users" THEN OwnTenantRows ELSE {}
  BY <1>3 DEF Visible, Helpers, TenantScopedMenuAccess, TenantMembershipAccess,
              SecurityDocScopedAccess, SecurityDocAttachmentRead, SelfOrMenuAccess,
              MemberSelfOrManageAccess
<1>. QED
  BY <1>2, <1>3

\* A row of the class, and one that is not, take a grant of the key's id.
LEMMA VisibleByClass ==
  ASSUME NEW h \in Helpers, NEW p \in Principals, NEW c \in BOOLEAN, NEW a, ~p.super,
         NEW w \in Visible(h, p, c, a)
  PROVE  /\ h \in {"securityDoc", "attachmentRead"} /\ w.secure => GrantsMenu(p, a[Privacy])
         /\ h = "securityDoc" /\ ~w.secure => GrantsMenu(p, a[Content])
<1>1. CASE h = "securityDoc"
  BY <1>1 DEF Visible, SecurityDocScopedAccess, AssignedRows
<1>2. CASE h = "attachmentRead"
  BY <1>2 DEF Visible, SecurityDocAttachmentRead, AssignedRows
<1>. QED
  BY <1>1, <1>2

\* A row of a tenant takes an assignment, or it is the member's own.
LEMMA VisibleBySite ==
  ASSUME NEW h \in {"tenant", "securityDoc", "membership", "attachmentRead", "members"},
         NEW p \in Principals, NEW c \in BOOLEAN, NEW a, ~p.super, NEW w \in Visible(h, p, c, a)
  PROVE  w.site \in p.sites \/ (w.own /\ p.kind = "member")
<1>1. CASE h = "tenant"
  BY <1>1 DEF Visible, TenantScopedMenuAccess, TenantScope, AssignedRows
<1>2. CASE h = "securityDoc"
  BY <1>2 DEF Visible, SecurityDocScopedAccess, AssignedRows
<1>3. CASE h = "membership"
  BY <1>3 DEF Visible, TenantMembershipAccess, TenantScope, AssignedRows
<1>4. CASE h = "attachmentRead"
  BY <1>4 DEF Visible, SecurityDocAttachmentRead, AssignedRows
<1>5. CASE h = "members"
  BY <1>5 DEF Visible, MemberSelfOrManageAccess, TenantScopedMenuAccess, TenantScope,
              AssignedRows, OwnTenantRows
<1>. QED
  BY <1>1, <1>2, <1>3, <1>4, <1>5

\* The invariant says what a caller may rely on.
LEMMA AccessInvSuffices == AccessInv => AnswersWithinRights
<1>. SUFFICES ASSUME AccessInv PROVE AnswersWithinRights
  OBVIOUS
<1>1. \A r \in Requests : /\ req[r].helper \in Helpers /\ req[r].who \in Principals
                          /\ req[r].confined \in BOOLEAN
  BY DEF AccessInv, AccessTypeOK
<1>2. ConfinedSeesOwnAccount
  BY <1>1, VisibleRows DEF AccessInv, ConfinedSeesOwnAccount
<1>3. ClassesStayApart
  <2>1. \A r \in Requests : Resolved(r)[Content] = req[r].ids[Content].id
                            /\ Resolved(r)[Privacy] = req[r].ids[Privacy].id
    BY AccessAssumption DEF Resolved
  <2>2. ASSUME NEW r \in Requests, NEW k \in Keys, GrantsMenu(req[r].who, req[r].ids[k].id)
        PROVE  \E i \in req[r].who.grants : <<i, k>> \in bore
    BY <2>2 DEF AccessInv, Grounded, GrantsMenu
  <2>3. ASSUME NEW r \in Requests, NEW w \in req[r].rows, Done(r), ~req[r].who.super
        PROVE  /\ req[r].helper \in {"securityDoc", "attachmentRead"} /\ w.secure =>
                    GrantsMenu(req[r].who, req[r].ids[Privacy].id)
               /\ req[r].helper = "securityDoc" /\ ~w.secure =>
                    GrantsMenu(req[r].who, req[r].ids[Content].id)
    BY <1>1, <2>1, <2>3, VisibleByClass DEF AccessInv
  <2>. QED
    BY <2>2, <2>3, AccessAssumption DEF ClassesStayApart
<1>4. SitesStayApart
  <2>. SUFFICES ASSUME NEW r \in Requests, Done(r), ~req[r].who.super,
                       req[r].helper \in {"tenant", "securityDoc", "membership",
                                          "attachmentRead", "members"},
                       NEW w \in req[r].rows
       PROVE  \/ w.site \in req[r].who.sites
                 /\ \A s \in Sites : GuardAccepts(req[r].who, s) => s \in req[r].who.sites
              \/ w.own /\ req[r].who.kind = "member"
    BY DEF SitesStayApart
  <2>1. w.site \in req[r].who.sites \/ (w.own /\ req[r].who.kind = "member")
    BY <1>1, VisibleBySite DEF AccessInv
  <2>2. w.site \in req[r].who.sites => req[r].who.kind = "admin"
    BY DEF AccessInv, Plausible
  <2>. QED
    BY <2>1, <2>2 DEF GuardAccepts
<1>. QED
  BY <1>2, <1>3, <1>4 DEF AccessInv, AnswersWithinRights

\* A step of requests only, each of which stays or follows the rules.
LEMMA RequestStep ==
  ASSUME AccessInv, UNCHANGED <<menus, bore>>,
         NEW r \in Requests, NEW x \in RequestRecord, req' = [req EXCEPT ![r] = x],
         cache' \in [Keys -> MenuIds \cup {NoMenu}],
         \A k \in Keys : cache'[k] # NoMenu => <<cache'[k], k>> \in bore,
         \A k \in Keys : x.ids[k].id # NoMenu => <<x.ids[k].id, k>> \in bore,
         \A k \in Keys : x.ids[k].st = "read" => x.ids[k].id # NoMenu,
         Plausible(x.who), x.confined => x.who.kind = "admin",
         x.st = "done" => x.rows = Visible(x.helper, x.who, x.confined, [k \in Keys |-> x.ids[k].id]),
         x.st \in {"begun", "open"} /\ ~x.young =>
           \A k \in Keys : x.ids[k].st = "done" /\ x.ids[k].id = NoMenu => Carries(k) = {}
  PROVE  AccessInv'
<1>1. req'[r] = x /\ \A q \in Requests : q # r => req'[q] = req[q]
  BY DEF AccessInv, AccessTypeOK
<1>2. \A k \in Keys : Carries(k)' = Carries(k)
  BY DEF Carries
<1>3. AccessTypeOK'
  BY DEF AccessInv, AccessTypeOK, RequestRecord
<1>4. Grounded'
  BY <1>1 DEF AccessInv, Grounded
<1>5. ASSUME NEW q \in Requests
      PROVE  /\ Plausible(req'[q].who)
             /\ req'[q].confined => req'[q].who.kind = "admin"
             /\ Done(q)' => req'[q].rows =
                  Visible(req'[q].helper, req'[q].who, req'[q].confined, Resolved(q)')
             /\ FoundNothing(q)'
             /\ \A k \in Keys : req'[q].ids[k].st = "read" => req'[q].ids[k].id # NoMenu
  <2>1. CASE q = r
    BY <1>1, <1>2, <2>1 DEF Done, Resolved, FoundNothing
  <2>2. CASE q # r
    <3>1. req'[q] = req[q]
      BY <1>1, <2>2
    <3>2. /\ Plausible(req[q].who)
          /\ req[q].confined => req[q].who.kind = "admin"
          /\ Done(q) => req[q].rows =
               Visible(req[q].helper, req[q].who, req[q].confined, Resolved(q))
          /\ FoundNothing(q)
          /\ \A k \in Keys : req[q].ids[k].st = "read" => req[q].ids[k].id # NoMenu
      BY DEF AccessInv
    <3>. QED
      BY <1>2, <3>1, <3>2 DEF Done, Resolved, FoundNothing
  <2>. QED
    BY <2>1, <2>2
<1>6. /\ \A i \in MenuIds : menus'[i] \in Keys => <<i, menus'[i]>> \in bore'
      /\ \A i, j \in MenuIds : menus'[i] \in Keys /\ menus'[i] = menus'[j] => i = j
  BY DEF AccessInv
<1>. QED
  BY <1>3, <1>4, <1>5, <1>6 DEF AccessInv

\* The fields of a request of which one is written, and of one of its keys.
LEMMA RequestFields ==
  ASSUME AccessInv, NEW r \in Requests
  PROVE  /\ req[r] \in RequestRecord /\ Plausible(req[r].who)
         /\ req[r].confined => req[r].who.kind = "admin"
         /\ FoundNothing(r)
         /\ \A k \in Keys : req[r].ids[k].id # NoMenu => <<req[r].ids[k].id, k>> \in bore
         /\ \A k \in Keys : req[r].ids[k].st = "read" => req[r].ids[k].id # NoMenu
BY DEF AccessInv, AccessTypeOK, RequestRecord, Grounded

\* The request with one key written.
WithKey(x, k, y) == [x EXCEPT !.ids[k] = y]

\* A request keeps everything else when the id of one key is resolved
\* (resolveMenuIds).
LEMMA WithKeyFields ==
  ASSUME NEW x \in RequestRecord, NEW k \in Keys, NEW y \in Lookup
  PROVE  /\ WithKey(x, k, y) \in RequestRecord
         /\ WithKey(x, k, y).ids = [x.ids EXCEPT ![k] = y]
         /\ WithKey(x, k, y).st = x.st /\ WithKey(x, k, y).who = x.who
         /\ WithKey(x, k, y).confined = x.confined /\ WithKey(x, k, y).young = x.young
BY DEF WithKey, RequestRecord

\* A key is resolved, found, or answered: with an id that has borne it, or with
\* nothing when no menu has it.
LEMMA ResolveStep ==
  ASSUME AccessInv, UNCHANGED <<menus, bore>>, NEW r \in Requests, NEW k \in Keys,
         NEW y \in Lookup, req' = [req EXCEPT ![r] = WithKey(req[r], k, y)],
         cache' \in [Keys -> MenuIds \cup {NoMenu}],
         \A q \in Keys : cache'[q] # NoMenu => <<cache'[q], q>> \in bore,
         req[r].st = "open", y.id # NoMenu => <<y.id, k>> \in bore,
         y.st = "done" /\ y.id = NoMenu => Carries(k) = {},
         y.st = "read" => y.id # NoMenu
  PROVE  AccessInv'
<1>. DEFINE x == WithKey(req[r], k, y)
<1>1. /\ x \in RequestRecord /\ x.ids = [req[r].ids EXCEPT ![k] = y]
      /\ x.st = "open" /\ x.who = req[r].who /\ x.confined = req[r].confined
      /\ x.young = req[r].young
  BY RequestFields, WithKeyFields
<1>2. \A q \in Keys : x.ids[q] = IF q = k THEN y ELSE req[r].ids[q]
  BY <1>1, RequestFields DEF RequestRecord
<1>. HIDE DEF x
<1>3. /\ \A q \in Keys : x.ids[q].id # NoMenu => <<x.ids[q].id, q>> \in bore
      /\ \A q \in Keys : x.ids[q].st = "read" => x.ids[q].id # NoMenu
  BY <1>2, RequestFields
<1>4. x.st \in {"begun", "open"} /\ ~x.young =>
        \A q \in Keys : x.ids[q].st = "done" /\ x.ids[q].id = NoMenu => Carries(q) = {}
  BY <1>1, <1>2, RequestFields DEF FoundNothing
<1>5. Plausible(x.who) /\ (x.confined => x.who.kind = "admin") /\ x.st # "done"
  BY <1>1, RequestFields
<1>6. req' = [req EXCEPT ![r] = x]
  BY DEF x
<1>. QED
  BY <1>1, <1>3, <1>4, <1>5, <1>6, RequestStep

\* A request that has not begun is nobody's and has resolved nothing.
LEMMA IdleRequestFields ==
  /\ IdleRequest \in RequestRecord /\ Plausible(Anonymous)
  /\ IdleRequest.st = "idle" /\ IdleRequest.who = Anonymous /\ ~IdleRequest.confined
  /\ \A k \in Keys : IdleRequest.ids[k] = Pending
  /\ Pending.st = "wait" /\ Pending.id = NoMenu
<1>1. Anonymous \in Principals /\ Pending \in Lookup
  BY DEF Anonymous, Principals, PrincipalKinds, Pending, Lookup
<1>. QED
  BY <1>1 DEF IdleRequest, RequestRecord, Helpers, Plausible, Anonymous, Pending

\* Beginning, answering and finishing a request, and the look at its enrolment.
LEMMA RequestKeeps ==
  ASSUME AccessInv, NEW r \in Requests,
         \/ Begin(r) \/ Answer(r) \/ Finish(r)
         \/ \E required \in BOOLEAN : Confine(r, required)
  PROVE  AccessInv'
<1>1. /\ cache' \in [Keys -> MenuIds \cup {NoMenu}]
      /\ \A k \in Keys : cache'[k] # NoMenu => <<cache'[k], k>> \in bore
      /\ UNCHANGED <<menus, bore>>
  BY DEF AccessInv, AccessTypeOK, Grounded, Begin, Answer, Finish, Confine
<1>2. /\ req[r] \in RequestRecord /\ Plausible(req[r].who)
      /\ req[r].confined => req[r].who.kind = "admin"
      /\ FoundNothing(r)
      /\ \A k \in Keys : req[r].ids[k].id # NoMenu => <<req[r].ids[k].id, k>> \in bore
      /\ \A k \in Keys : req[r].ids[k].st = "read" => req[r].ids[k].id # NoMenu
  BY RequestFields
<1>3. ASSUME Begin(r) PROVE AccessInv'
  <2>1. PICK p \in Principals, h \in Helpers :
          /\ Plausible(p)
          /\ req' = [req EXCEPT ![r] = [IdleRequest EXCEPT !.st = "begun", !.who = p, !.helper = h]]
    BY <1>3 DEF Begin
  <2>. DEFINE x == [IdleRequest EXCEPT !.st = "begun", !.who = p, !.helper = h]
  <2>2. /\ x \in RequestRecord /\ x.st = "begun" /\ x.who = p
        /\ x.confined = IdleRequest.confined /\ x.ids = IdleRequest.ids
    BY IdleRequestFields DEF RequestRecord
  <2>3. req' = [req EXCEPT ![r] = x]
    BY <2>1
  <2>. HIDE DEF x
  <2>4. /\ ~x.confined /\ Plausible(x.who)
        /\ \A k \in Keys : x.ids[k].st = "wait" /\ x.ids[k].id = NoMenu
    BY <2>1, <2>2, IdleRequestFields
  <2>5. x.st # "done"
    BY <2>2
  <2>. QED
    BY <1>1, <2>2, <2>3, <2>4, <2>5, RequestStep
<1>4. ASSUME NEW required \in BOOLEAN, Confine(r, required) PROVE AccessInv'
  <2>. DEFINE c == req[r].who.kind = "admin" /\ required /\ ~req[r].who.confirmed
              x == [req[r] EXCEPT !.st = "open", !.confined = c]
  <2>1. c \in BOOLEAN /\ req' = [req EXCEPT ![r] = x]
    BY <1>4, <1>2 DEF Confine, RequestRecord
  <2>2. c => req[r].who.kind = "admin"
    OBVIOUS
  <2>. HIDE DEF c
  <2>3. /\ x \in RequestRecord /\ x.st = "open" /\ x.who = req[r].who /\ x.confined = c
        /\ x.ids = req[r].ids /\ x.young = req[r].young
    BY <1>2, <2>1 DEF RequestRecord
  <2>4. req[r].st = "begun"
    BY <1>4 DEF Confine
  <2>5. x.st \in {"begun", "open"} /\ ~x.young =>
          \A k \in Keys : x.ids[k].st = "done" /\ x.ids[k].id = NoMenu => Carries(k) = {}
    BY <1>2, <2>3, <2>4 DEF FoundNothing
  <2>. HIDE DEF x
  <2>. QED
    BY <1>1, <1>2, <2>1, <2>2, <2>3, <2>5, RequestStep
<1>5. ASSUME Answer(r) PROVE AccessInv'
  <2>. DEFINE rs == Visible(req[r].helper, req[r].who, req[r].confined, Resolved(r))
              x == [req[r] EXCEPT !.st = "done", !.rows = rs]
  <2>1. rs \subseteq TenantRow
    BY <1>2, VisibleRows DEF RequestRecord
  <2>2. req' = [req EXCEPT ![r] = x]
    BY <1>5 DEF Answer
  <2>. HIDE DEF rs
  <2>3. /\ x \in RequestRecord /\ x.st = "done" /\ x.who = req[r].who /\ x.rows = rs
        /\ x.confined = req[r].confined /\ x.ids = req[r].ids /\ x.helper = req[r].helper
    BY <1>2, <2>1 DEF RequestRecord
  <2>4. x.rows = Visible(x.helper, x.who, x.confined, [k \in Keys |-> x.ids[k].id])
    BY <2>3 DEF rs, Resolved
  <2>. HIDE DEF x
  <2>. QED
    BY <1>1, <1>2, <2>2, <2>3, <2>4, RequestStep
<1>6. ASSUME Finish(r) PROVE AccessInv'
  <2>1. req' = [req EXCEPT ![r] = IdleRequest]
    BY <1>6 DEF Finish
  <2>. QED
    BY <1>1, <2>1, IdleRequestFields, RequestStep
<1>. QED
  BY <1>3, <1>4, <1>5, <1>6

\* The menus change: every request begun grows young, and a live menu has borne
\* its key.
LEMMA MenuStep ==
  ASSUME AccessInv, UNCHANGED cache, NEW i \in MenuIds, NEW k \in Keys,
         Carries(k) = {}, menus' = [menus EXCEPT ![i] = k],
         bore' = bore \cup {<<i, k>>}, req' = Age
  PROVE  AccessInv'
<1>1. \A j \in MenuIds : menus'[j] = IF j = i THEN k ELSE menus[j]
  BY DEF AccessInv, AccessTypeOK
<1>2. \A r \in Requests :
        /\ req'[r] \in RequestRecord
        /\ req'[r].st = req[r].st /\ req'[r].helper = req[r].helper
        /\ req'[r].who = req[r].who /\ req'[r].confined = req[r].confined
        /\ req'[r].ids = req[r].ids /\ req'[r].rows = req[r].rows
        /\ req'[r].st \in {"begun", "open"} => req'[r].young
  BY DEF Age, AccessInv, AccessTypeOK, RequestRecord
<1>3. AccessTypeOK'
  <2>1. req' \in [Requests -> RequestRecord]
    BY <1>2 DEF Age
  <2>. QED
    BY <1>1, <2>1 DEF AccessInv, AccessTypeOK, RequestRecord
<1>4. Grounded'
  BY <1>2 DEF AccessInv, Grounded
<1>5. \A j \in MenuIds : menus'[j] \in Keys => <<j, menus'[j]>> \in bore'
  BY <1>1 DEF AccessInv
<1>6. \A j, m \in MenuIds : menus'[j] \in Keys /\ menus'[j] = menus'[m] => j = m
  <2>1. \A j \in MenuIds : menus[j] # k
    BY DEF Carries
  <2>. QED
    BY <1>1, <2>1 DEF AccessInv
<1>7. ASSUME NEW r \in Requests
      PROVE  /\ Plausible(req'[r].who)
             /\ req'[r].confined => req'[r].who.kind = "admin"
             /\ Done(r)' => req'[r].rows =
                  Visible(req'[r].helper, req'[r].who, req'[r].confined, Resolved(r)')
             /\ FoundNothing(r)'
             /\ \A q \in Keys : req'[r].ids[q].st = "read" => req'[r].ids[q].id # NoMenu
  <2>1. Resolved(r)' = Resolved(r)
    BY <1>2 DEF Resolved
  <2>2. /\ Plausible(req[r].who)
        /\ req[r].confined => req[r].who.kind = "admin"
        /\ Done(r) => req[r].rows = Visible(req[r].helper, req[r].who, req[r].confined, Resolved(r))
        /\ \A q \in Keys : req[r].ids[q].st = "read" => req[r].ids[q].id # NoMenu
    BY DEF AccessInv
  <2>3. FoundNothing(r)'
    BY <1>2 DEF FoundNothing
  <2>. QED
    BY <1>2, <2>1, <2>2, <2>3 DEF Done
<1>. QED
  BY <1>3, <1>4, <1>5, <1>6, <1>7 DEF AccessInv

\* The deletion of a menu takes its key from nobody else.
LEMMA DeleteMenuKeeps ==
  ASSUME AccessInv, NEW i \in MenuIds, DeleteMenu(i)
  PROVE  AccessInv'
<1>1. /\ \A j \in MenuIds : menus'[j] = IF j = i THEN GoneMenu ELSE menus[j]
      /\ UNCHANGED <<cache, req, bore>>
  BY DEF DeleteMenu, AccessInv, AccessTypeOK
<1>2. \A k \in Keys : Carries(k)' \subseteq Carries(k)
  BY <1>1, AccessAssumption DEF Carries
<1>3. AccessTypeOK'
  BY <1>1 DEF DeleteMenu, AccessInv, AccessTypeOK
<1>4. Grounded'
  BY <1>1 DEF AccessInv, Grounded
<1>5. /\ \A j \in MenuIds : menus'[j] \in Keys => <<j, menus'[j]>> \in bore'
      /\ \A j, m \in MenuIds : menus'[j] \in Keys /\ menus'[j] = menus'[m] => j = m
  BY <1>1, AccessAssumption DEF AccessInv
<1>6. \A r \in Requests : FoundNothing(r)'
  BY <1>1, <1>2 DEF AccessInv, FoundNothing
<1>7. \A r \in Requests : Done(r)' = Done(r) /\ Resolved(r)' = Resolved(r)
  BY <1>1 DEF Done, Resolved
<1>. QED
  BY <1>1, <1>3, <1>4, <1>5, <1>6, <1>7 DEF AccessInv

\* What the cache is warmed with, and the rows as they are.
Warm == [k \in Keys |-> IF Carries(k) = {} THEN NoMenu ELSE CHOOSE i \in Carries(k) : TRUE]
BornNow == {w \in MenuIds \X Keys : menus[w[1]] = w[2]}

\* The warmed cache answers with rows that have the key (warmAdminMenuKeyCache).
LEMMA WarmCache ==
  ASSUME menus \in [MenuIds -> Keys \cup {UnbornMenu, GoneMenu}]
  PROVE  /\ Warm \in [Keys -> MenuIds \cup {NoMenu}]
         /\ \A k \in Keys : Warm[k] # NoMenu => <<Warm[k], k>> \in BornNow
         /\ \A i \in MenuIds : menus[i] \in Keys => <<i, menus[i]>> \in BornNow
         /\ BornNow \subseteq MenuIds \X Keys
<1>1. \A k \in Keys : Carries(k) # {} => (CHOOSE i \in Carries(k) : TRUE) \in Carries(k)
  OBVIOUS
<1>2. \A k \in Keys : Warm[k] = NoMenu \/ Warm[k] \in Carries(k)
  BY <1>1 DEF Warm
<1>3. \A k \in Keys : Carries(k) \subseteq MenuIds
  BY DEF Carries
<1>4. \A i \in MenuIds, k \in Keys : i \in Carries(k) => <<i, k>> \in BornNow
  BY DEF Carries, BornNow
<1>5. Warm \in [Keys -> MenuIds \cup {NoMenu}]
  BY <1>2, <1>3 DEF Warm
<1>6. \A k \in Keys : Warm[k] # NoMenu => <<Warm[k], k>> \in BornNow
  BY <1>2, <1>3, <1>4
<1>. QED
  BY <1>5, <1>6 DEF BornNow

\* A boot, the first or another one.
LEMMA BootHolds ==
  ASSUME menus \in [MenuIds -> Keys \cup {UnbornMenu, GoneMenu}],
         \A i, j \in MenuIds : menus[i] \in Keys /\ menus[i] = menus[j] => i = j,
         cache \in [Keys -> MenuIds \cup {NoMenu}],
         \A k \in Keys : cache[k] # NoMenu => <<cache[k], k>> \in bore,
         \A i \in MenuIds : menus[i] \in Keys => <<i, menus[i]>> \in bore,
         bore \subseteq MenuIds \X Keys,
         req = [r \in Requests |-> IdleRequest]
  PROVE  AccessInv
<1>1. \A r \in Requests : req[r] = IdleRequest
  OBVIOUS
<1>2. AccessTypeOK
  BY IdleRequestFields DEF AccessTypeOK, RequestRecord
<1>3. Grounded
  BY <1>1, IdleRequestFields DEF Grounded
<1>4. \A r \in Requests : ~Done(r) /\ FoundNothing(r)
  BY <1>1, IdleRequestFields DEF Done, FoundNothing
<1>. QED
  BY <1>1, <1>2, <1>3, <1>4, IdleRequestFields DEF AccessInv

\* The invariant of the access decisions holds when the process starts.
LEMMA AccessInitHolds == AccessInit => AccessInv
<1>. SUFFICES ASSUME AccessInit PROVE AccessInv
  OBVIOUS
<1>1. /\ menus \in [MenuIds -> Keys \cup {UnbornMenu, GoneMenu}]
      /\ \A i, j \in MenuIds : menus[i] \in Keys /\ menus[i] = menus[j] => i = j
      /\ req = [r \in Requests |-> IdleRequest]
  BY DEF AccessInit
<1>2. /\ cache \in [Keys -> MenuIds \cup {NoMenu}]
      /\ \A k \in Keys : cache[k] # NoMenu => <<cache[k], k>> \in bore
      /\ \A i \in MenuIds : menus[i] \in Keys => <<i, menus[i]>> \in bore
      /\ bore \subseteq MenuIds \X Keys
  <2>1. cache = Warm /\ bore = BornNow
    BY DEF AccessInit, Warm, BornNow
  <2>. QED
    BY <1>1, <2>1, WarmCache
<1>. QED
  BY <1>1, <1>2, BootHolds

\* A restart forgets the menu cache and the requests, and nothing else.
LEMMA RestartKeeps == AccessInv /\ Restart => AccessInv'
<1>. SUFFICES ASSUME AccessInv, Restart PROVE AccessInv'
  OBVIOUS
<1>1. /\ menus \in [MenuIds -> Keys \cup {UnbornMenu, GoneMenu}]
      /\ \A i, j \in MenuIds : menus[i] \in Keys /\ menus[i] = menus[j] => i = j
      /\ menus' = menus
      /\ req' = [r \in Requests |-> IdleRequest]
  BY DEF AccessInv, AccessTypeOK, Restart
<1>2. /\ cache' \in [Keys -> MenuIds \cup {NoMenu}]
      /\ \A k \in Keys : cache'[k] # NoMenu => <<cache'[k], k>> \in bore'
      /\ \A i \in MenuIds : menus'[i] \in Keys => <<i, menus'[i]>> \in bore'
      /\ bore' \subseteq MenuIds \X Keys
  <2>1. cache' = Warm /\ bore' = BornNow
    BY DEF Restart, Warm, BornNow
  <2>. QED
    BY <1>1, <2>1, WarmCache
<1>3. /\ AccessTypeOK'
      /\ Grounded'
      /\ \A r \in Requests : ~Done(r)' /\ FoundNothing(r)' /\ req'[r] = IdleRequest
  BY <1>1, <1>2, IdleRequestFields
  DEF AccessTypeOK, RequestRecord, Grounded, Done, FoundNothing
<1>. QED
  BY <1>1, <1>2, <1>3, IdleRequestFields DEF AccessInv

\* Resolving a menu key - from the cache, or by the lookup and its return - keeps
\* the invariant.
LEMMA ResolveKeeps ==
  ASSUME AccessInv, NEW r \in Requests, NEW k \in Keys,
         ResolveHit(r, k) \/ ResolveRead(r, k) \/ ResolveFill(r, k)
  PROVE  AccessInv'
<1>1. /\ \A q \in Keys : cache[q] # NoMenu => <<cache[q], q>> \in bore
      /\ cache \in [Keys -> MenuIds \cup {NoMenu}] /\ UNCHANGED <<menus, bore>>
  BY DEF AccessInv, AccessTypeOK, Grounded, ResolveHit, ResolveRead, ResolveFill
<1>2. req[r].st = "open"
  BY DEF ResolveHit, ResolveRead, ResolveFill, Wanted
<1>3. ASSUME ResolveHit(r, k) PROVE AccessInv'
  <2>. DEFINE y == [st |-> "done", id |-> cache[k]]
  <2>1. y \in Lookup /\ y.st # "read" /\ y.id = cache[k] /\ cache[k] # NoMenu /\ cache' = cache
    BY <1>1, <1>3 DEF Lookup, ResolveHit
  <2>2. req' = [req EXCEPT ![r] = WithKey(req[r], k, y)]
    BY <1>3 DEF ResolveHit, WithKey
  <2>. HIDE DEF y
  <2>. QED
    BY <1>1, <1>2, <2>1, <2>2, ResolveStep
<1>4. ASSUME ResolveRead(r, k), Carries(k) = {} PROVE AccessInv'
  <2>. DEFINE y == [st |-> "done", id |-> NoMenu]
  <2>1. y \in Lookup /\ y.id = NoMenu /\ y.st # "read" /\ cache' = cache
    BY <1>4 DEF Lookup, ResolveRead
  <2>2. req' = [req EXCEPT ![r] = WithKey(req[r], k, y)]
    BY <1>4 DEF ResolveRead, WithKey
  <2>. HIDE DEF y
  <2>. QED
    BY <1>1, <1>2, <1>4, <2>1, <2>2, ResolveStep
<1>5. ASSUME ResolveRead(r, k), Carries(k) # {} PROVE AccessInv'
  <2>1. PICK i \in Carries(k) : req' = [req EXCEPT ![r].ids[k] = [st |-> "read", id |-> i]]
    BY <1>5 DEF ResolveRead
  <2>. DEFINE y == [st |-> "read", id |-> i]
  <2>2. i \in MenuIds /\ i # NoMenu /\ <<i, k>> \in bore
    BY AccessAssumption DEF Carries, AccessInv
  <2>3. y \in Lookup /\ y.id = i /\ y.st # "done" /\ cache' = cache
    BY <1>5, <2>2 DEF Lookup, ResolveRead
  <2>4. req' = [req EXCEPT ![r] = WithKey(req[r], k, y)]
    BY <2>1 DEF WithKey
  <2>. HIDE DEF y
  <2>. QED
    BY <1>1, <1>2, <2>2, <2>3, <2>4, ResolveStep
<1>6. ASSUME ResolveFill(r, k) PROVE AccessInv'
  <2>. DEFINE i == req[r].ids[k].id
              y == [req[r].ids[k] EXCEPT !.st = "done"]
  <2>1. /\ req[r].ids[k] \in Lookup /\ i # NoMenu /\ <<i, k>> \in bore
        /\ cache' = [cache EXCEPT ![k] = i]
    BY <1>6, RequestFields DEF RequestRecord, ResolveFill
  <2>2. y \in Lookup /\ y.id = i /\ y.st # "read" /\ i \in MenuIds
    BY <2>1 DEF Lookup
  <2>3. req' = [req EXCEPT ![r] = WithKey(req[r], k, y)]
    BY <1>6 DEF ResolveFill, WithKey
  <2>. HIDE DEF y, i
  <2>4. \A q \in Keys : cache'[q] = IF q = k THEN i ELSE cache[q]
    BY <1>1, <2>1
  <2>5. cache' \in [Keys -> MenuIds \cup {NoMenu}]
    BY <1>1, <2>1, <2>2
  <2>6. \A q \in Keys : cache'[q] # NoMenu => <<cache'[q], q>> \in bore
    BY <1>1, <2>1, <2>4
  <2>. QED
    BY <1>1, <1>2, <2>1, <2>2, <2>3, <2>5, <2>6, ResolveStep
<1>. QED
  BY <1>3, <1>4, <1>5, <1>6

\* Every step of the back-office keeps what the decisions rest on.
LEMMA NextAccess == AccessInv /\ [AccessNext]_accessVars => AccessInv'
<1>. SUFFICES ASSUME AccessInv, [AccessNext]_accessVars PROVE AccessInv'
  OBVIOUS
<1>1. ASSUME NEW r \in Requests, Begin(r) \/ Answer(r) \/ Finish(r) PROVE AccessInv'
  BY <1>1, RequestKeeps
<1>2. ASSUME NEW r \in Requests, NEW required \in BOOLEAN, Confine(r, required)
      PROVE  AccessInv'
  BY <1>2, RequestKeeps
<1>3. ASSUME NEW r \in Requests, NEW k \in Keys,
             ResolveHit(r, k) \/ ResolveRead(r, k) \/ ResolveFill(r, k)
      PROVE  AccessInv'
  BY <1>3, ResolveKeeps
<1>4. ASSUME NEW i \in MenuIds, NEW k \in Keys, Rename(i, k) \/ CreateMenu(i, k)
      PROVE  AccessInv'
  BY <1>4, MenuStep DEF Rename, CreateMenu
<1>5. ASSUME NEW i \in MenuIds, DeleteMenu(i) PROVE AccessInv'
  BY <1>5, DeleteMenuKeeps
<1>6. CASE Restart
  BY <1>6, RestartKeeps
<1>7. CASE UNCHANGED accessVars
  <2>. SUFFICES ASSUME UNCHANGED <<menus, cache, req, bore>> PROVE AccessInv'
    BY <1>7 DEF accessVars
  <2>1. AccessTypeOK' /\ Grounded'
    BY DEF AccessInv, AccessTypeOK, Grounded
  <2>2. \A r \in Requests : /\ Done(r)' = Done(r) /\ Resolved(r)' = Resolved(r)
                            /\ FoundNothing(r)' = FoundNothing(r)
    BY DEF Done, Resolved, FoundNothing, Carries
  <2>. QED
    BY <2>1, <2>2 DEF AccessInv
<1>. QED
  BY <1>1, <1>2, <1>3, <1>4, <1>5, <1>6, <1>7 DEF AccessNext

\* Whatever access function answers, and however stale its menu ids: nobody gets a
\* row that neither a grant, a site, the class of the row nor the enrolment allows
\* (src/access).
THEOREM AnswersWithinRightsHolds == AccessSpec => []AnswersWithinRights
<1>1. AccessSpec => []AccessInv
  BY AccessInitHolds, NextAccess, PTL DEF AccessSpec
<1>. QED
  BY <1>1, AccessInvSuffices, PTL

\* While no menu has been renamed or deleted, a request no new menu overlaps has
\* resolved what the database says.
LEMMA ResolvedIsLive ==
  ASSUME AccessInv, ~Disturbed, NEW r \in Requests, req[r].st = "open", ~req[r].young,
         NEW k \in Keys, req[r].ids[k].st = "done"
  PROVE  req[r].ids[k].id = Warm[k]
<1>1. CASE req[r].ids[k].id = NoMenu
  <2>1. Carries(k) = {}
    BY <1>1 DEF AccessInv, FoundNothing
  <2>. QED
    BY <1>1, <2>1 DEF Warm
<1>2. CASE req[r].ids[k].id # NoMenu
  <2>. DEFINE i == req[r].ids[k].id
  <2>1. <<i, k>> \in bore /\ i \in MenuIds
    BY <1>2 DEF AccessInv, AccessTypeOK, Grounded
  <2>2. menus[i] = k
    BY <2>1 DEF Disturbed
  <2>3. Carries(k) = {i}
    BY <2>1, <2>2 DEF Carries, AccessInv
  <2>. HIDE DEF i
  <2>4. (CHOOSE j \in {i} : TRUE) = i
    OBVIOUS
  <2>. QED
    BY <2>3, <2>4 DEF Warm, i
<1>. QED
  BY <1>1, <1>2

\* Until a menu row is renamed or deleted, the cache is invisible: a request that
\* no new menu overlaps answers as if every key were looked up in the database
\* (hasMenuAccess, resolveAdminMenuId).
THEOREM AnswersAreLiveHolds == AccessSpec => AnswersAreLive
<1>. DEFINE Right(r) == (~Disturbed /\ req[r].st = "open" /\ ~req[r].young /\ req'[r].st = "done") =>
       req'[r].rows = Visible(req[r].helper, req[r].who, req[r].confined, Warm)
<1>1. AccessInv /\ [AccessNext]_accessVars => \A r \in Requests : Right(r)
  <2>. SUFFICES ASSUME AccessInv, [AccessNext]_accessVars, NEW r \in Requests,
                       ~Disturbed, req[r].st = "open", ~req[r].young, req'[r].st = "done"
       PROVE  req'[r].rows = Visible(req[r].helper, req[r].who, req[r].confined, Warm)
    OBVIOUS
  <2>1. req \in [Requests -> RequestRecord]
    BY DEF AccessInv, AccessTypeOK, RequestRecord
  <2>2. Answer(r)
    <3>1. ASSUME NEW q \in Requests, Begin(q) \/ Finish(q) PROVE FALSE
      <4>1. CASE Finish(q)
        BY <2>1, <4>1, IdleRequestFields DEF Finish
      <4>2. CASE Begin(q)
        <5>1. PICK p \in Principals, h \in Helpers : req' = [req EXCEPT ![q] =
                [IdleRequest EXCEPT !.st = "begun", !.who = p, !.helper = h]]
          BY <4>2 DEF Begin
        <5>. DEFINE x == [IdleRequest EXCEPT !.st = "begun", !.who = p, !.helper = h]
        <5>2. x.st = "begun"
          BY IdleRequestFields DEF RequestRecord
        <5>3. req' = [req EXCEPT ![q] = x]
          BY <5>1
        <5>. HIDE DEF x
        <5>. QED
          BY <2>1, <5>2, <5>3
      <4>. QED
        BY <3>1, <4>1, <4>2
    <3>2. ASSUME NEW q \in Requests, NEW required \in BOOLEAN, Confine(q, required) PROVE FALSE
      BY <2>1, <3>2 DEF Confine, RequestRecord
    <3>3. ASSUME NEW q \in Requests, NEW k \in Keys,
                 ResolveHit(q, k) \/ ResolveRead(q, k) \/ ResolveFill(q, k)
          PROVE  FALSE
      BY <2>1, <3>3 DEF ResolveHit, ResolveRead, ResolveFill, RequestRecord
    <3>4. ASSUME req' = Age PROVE FALSE
      BY <2>1, <3>4 DEF Age, RequestRecord
    <3>5. ASSUME UNCHANGED req PROVE FALSE
      BY <3>5
    <3>6. ASSUME Restart PROVE FALSE
      BY <3>6, IdleRequestFields DEF Restart
    <3>7. ASSUME NEW q \in Requests, Answer(q) PROVE q = r
      BY <2>1, <3>7 DEF Answer
    <3>. QED
      BY <3>1, <3>2, <3>3, <3>4, <3>5, <3>6, <3>7
      DEF AccessNext, accessVars, Rename, CreateMenu, DeleteMenu
  <2>3. req'[r].rows = Visible(req[r].helper, req[r].who, req[r].confined, Resolved(r))
    BY <2>1, <2>2 DEF Answer, RequestRecord
  <2>4. Needed(req[r].helper, req[r].who, req[r].confined) \subseteq Keys
    BY AccessAssumption DEF Needed
  <2>5. \A k \in Needed(req[r].helper, req[r].who, req[r].confined) : Resolved(r)[k] = Warm[k]
    BY <2>2, <2>4, ResolvedIsLive DEF Answer, Resolved
  <2>6. req[r].helper \in Helpers /\ req[r].who \in Principals /\ req[r].confined \in BOOLEAN
    BY <2>1 DEF RequestRecord
  <2>. QED
    BY <2>3, <2>5, <2>6, VisibleByNeeded
<1>2. AccessSpec => []AccessInv
  BY AccessInitHolds, NextAccess, PTL DEF AccessSpec
<1>. QED
  BY <1>1, <1>2, PTL DEF AccessSpec, AnswersAreLive, Warm

-----------------------------------------------------------------------------
(* The audit trail. An operation keeps to the plan of its logs: what it has  *)
(* behind it is written, or lost for a reason that holds.                     *)

OpRecord ==
  [kind: OpKinds \cup {"none"}, actor: Admins \cup {NoActor},
   target: Admins \cup Docs \cup {NoActor},
   wants: SUBSET (Admins \cup Docs), holds: SUBSET (Admins \cup Docs),
   plan: Seq(Logs), todo: Seq(Logs), at: Stages, answer: {"none", "full", "file", "masked"}]

AuditTyped ==
  /\ ops \in [Ops -> OpRecord]
  /\ alive \subseteq Admins /\ logs \subseteq LogRow /\ missed \subseteq Missed

\* How many of its logs an operation has done with.
Logged(o) == Len(ops[o].plan) - Len(ops[o].todo)

\* A log row was written, or lost for a reason that holds.
Accounted(o, log) ==
  \/ Written(o, log)
  \/ \E l \in missed :
       l.op = o /\ l.log = log /\ (l.why = "actorGone" => ops[o].actor \notin alive)

\* What is left to log is the end of the plan, and the part before it is accounted for.
PlanFollowed(o) ==
  /\ Len(ops[o].todo) <= Len(ops[o].plan)
  /\ \A i \in 1..Len(ops[o].todo) : ops[o].todo[i] = ops[o].plan[Logged(o) + i]
  /\ \A k \in 1..Logged(o) : Accounted(o, ops[o].plan[k])
  /\ ops[o].at = "inserting" => ops[o].todo # <<>>
  /\ ops[o].at = "ended" => ops[o].todo = <<>>

\* Whoever answers in full or with a file planned the log of personal data.
FullPlansLog(o) == ops[o].answer \in Owing => ops[o].plan = <<"personal">>

AuditInv ==
  /\ AuditTyped /\ NoDanglingActor
  /\ \A o \in Ops : PlanFollowed(o) /\ FullPlansLog(o)

\* Lemma: plans consist of log names; an answer that owes a log goes with one personal log.
LEMMA PlanTyped ==
  ASSUME NEW k \in OpKinds
  PROVE  Plan(k) \subseteq Seq(Logs) /\ (Disclosed(k) \cap Owing # {} => Plan(k) = {<<"personal">>})
<1>1. /\ <<>> \in Seq(Logs) /\ <<"access">> \in Seq(Logs) /\ <<"permission", "access">> \in Seq(Logs)
      /\ <<"menuPermission", "access">> \in Seq(Logs) /\ <<"access", "loginHistory">> \in Seq(Logs)
      /\ <<"loginHistory">> \in Seq(Logs) /\ <<"errors">> \in Seq(Logs)
      /\ <<"personal">> \in Seq(Logs)
  BY DEF Logs
<1>2. Plan(k) \subseteq Seq(Logs)
  BY <1>1 DEF Plan
<1>3. Disclosed(k) \cap Owing # {} => k \in {"viewMember", "exportMembers", "exportTrail"}
  BY DEF Disclosed, Owing
<1>4. k \in {"viewMember", "exportMembers", "exportTrail"} => Plan(k) = {<<"personal">>}
  BY DEF Plan
<1> QED BY <1>2, <1>3, <1>4

\* Lemma: the first of a nonempty list and what follows it.
LEMMA TailFacts ==
  ASSUME NEW s \in Seq(Logs), s # <<>>
  PROVE  /\ Head(s) = s[1] /\ Head(s) \in Logs /\ Len(s) \in Nat \ {0}
         /\ Tail(s) \in Seq(Logs) /\ Len(Tail(s)) = Len(s) - 1
         /\ \A i \in 1..Len(s) - 1 : Tail(s)[i] = s[i + 1]
BY HeadTailProperties, EmptySeq, LenProperties

\* The invariant of the trail holds before the first operation.
LEMMA AuditInitHolds == AuditInit => AuditInv
<1> SUFFICES ASSUME AuditInit PROVE AuditInv
  OBVIOUS
<1>1. <<>> \in Seq(Logs) /\ Len(<<>>) = 0
  BY EmptySeq
<1>2. IdleOp \in OpRecord
  BY <1>1 DEF IdleOp, OpRecord, Stages
<1>3. AuditTyped /\ NoDanglingActor
  BY <1>2 DEF AuditInit, AuditTyped, NoDanglingActor
<1>4. ASSUME NEW o \in Ops PROVE PlanFollowed(o) /\ FullPlansLog(o)
  <2>1. ops[o] = IdleOp
    BY DEF AuditInit
  <2>2. ops[o].todo = <<>> /\ ops[o].plan = <<>> /\ ops[o].at = "idle" /\ ops[o].answer = "none"
    BY <2>1 DEF IdleOp
  <2> QED BY <1>1, <2>2 DEF PlanFollowed, FullPlansLog, Logged, Owing
<1> QED BY <1>3, <1>4 DEF AuditInv

\* Lemma: an operation that a step leaves as it is keeps following its plan, as long
\* as no log row loses more than its link and no account comes back.
LEMMA OthersFollow ==
  ASSUME NEW o \in Ops, PlanFollowed(o), FullPlansLog(o),
         ops'[o].plan = ops[o].plan, ops'[o].todo = ops[o].todo,
         ops'[o].actor = ops[o].actor, ops'[o].answer = ops[o].answer,
         ops'[o].at = "inserting" => ops[o].todo # <<>>,
         ops'[o].at = "ended" => ops[o].todo = <<>>,
         alive' \subseteq alive, missed \subseteq missed',
         \A l \in logs : \E m \in logs' : m.op = l.op /\ m.log = l.log
  PROVE  PlanFollowed(o)' /\ FullPlansLog(o)'
<1>1. ASSUME NEW log, Accounted(o, log) PROVE Accounted(o, log)'
  BY <1>1 DEF Accounted, Written
<1>2. Logged(o)' = Logged(o)
  BY DEF Logged
<1> QED BY <1>1, <1>2 DEF PlanFollowed, FullPlansLog

\* Lemma: an insert that ends, in one way or the other, brings its operation one log
\* further.
LEMMA ResumedFollows ==
  ASSUME AuditInv, NEW o \in Ops, NEW log \in Logs, log = Head(ops[o].todo),
         ops[o].at = "inserting", ops' = Resumed(o),
         alive' = alive, logs \subseteq logs', missed \subseteq missed',
         logs' \subseteq LogRow, missed' \subseteq Missed, NoDanglingActor',
         Accounted(o, log)'
  PROVE  AuditInv'
<1>1. ops[o] \in OpRecord /\ PlanFollowed(o) /\ FullPlansLog(o) /\ ops[o].todo # <<>>
  BY DEF AuditInv, AuditTyped, PlanFollowed
<1> DEFINE old == ops[o]
           new == ops'[o]
<1>2. old.todo \in Seq(Logs) /\ old.plan \in Seq(Logs) /\ Len(old.plan) \in Nat
  BY <1>1, LenProperties DEF OpRecord
<1>3. /\ Head(old.todo) = old.todo[1] /\ Len(old.todo) \in Nat \ {0}
      /\ Tail(old.todo) \in Seq(Logs) /\ Len(Tail(old.todo)) = Len(old.todo) - 1
      /\ \A i \in 1..Len(old.todo) - 1 : Tail(old.todo)[i] = old.todo[i + 1]
  BY <1>1, <1>2, TailFacts
<1>4. new = [old EXCEPT !.at = "working", !.todo = Tail(@)]
      /\ \A x \in Ops \ {o} : ops'[x] = ops[x]
  BY DEF Resumed, AuditInv, AuditTyped
<1>5. /\ new.at = "working" /\ new.todo = Tail(old.todo) /\ new.plan = old.plan
      /\ new.actor = old.actor /\ new.answer = old.answer /\ new \in OpRecord
  BY <1>1, <1>3, <1>4 DEF OpRecord, Stages
<1>6. AuditTyped'
  BY <1>4, <1>5 DEF AuditInv, AuditTyped, Resumed
<1>7. PlanFollowed(o)'
  <2>0. Len(old.todo) <= Len(old.plan) /\ Len(new.todo) = Len(old.todo) - 1
    BY <1>1, <1>3, <1>5 DEF PlanFollowed
  <2>1. Logged(o)' = Logged(o) + 1 /\ Logged(o) \in Nat
    BY <2>0, <1>2, <1>3, <1>5 DEF Logged
  <2>2. log = old.plan[Logged(o) + 1]
    BY <1>1, <1>3 DEF PlanFollowed
  <2>3. ASSUME NEW k \in 1..Logged(o)', NEW l, l = old.plan[k] PROVE Accounted(o, l)'
    <3>1. CASE k = Logged(o) + 1
      BY <3>1, <2>2, <2>3
    <3>2. CASE k # Logged(o) + 1
      <4>1. k \in 1..Logged(o)
        BY <3>2, <2>1
      <4>2. Accounted(o, l)
        BY <2>3, <4>1, <1>1 DEF PlanFollowed
      <4> QED BY <4>2, <1>5 DEF Accounted, Written
    <3> QED BY <3>1, <3>2
  <2>4. ASSUME NEW i \in 1..Len(new.todo) PROVE new.todo[i] = new.plan[Logged(o)' + i]
    <3>1. i + 1 \in 1..Len(old.todo) /\ new.todo[i] = old.todo[i + 1]
      BY <1>3, <1>5
    <3>2. old.todo[i + 1] = old.plan[Logged(o) + (i + 1)]
      BY <3>1, <1>1 DEF PlanFollowed
    <3> QED BY <3>1, <3>2, <2>1, <1>5
  <2>5. Len(new.todo) <= Len(new.plan)
    BY <1>1, <1>2, <1>3, <1>5 DEF PlanFollowed
  <2>6. \A k \in 1..Logged(o)' : Accounted(o, ops[o].plan[k])'
    BY <2>3, <1>5
  <2> QED BY <2>4, <2>5, <2>6, <1>5 DEF PlanFollowed
<1>8. FullPlansLog(o)'
  BY <1>1, <1>5 DEF FullPlansLog
<1>9. ASSUME NEW x \in Ops \ {o} PROVE PlanFollowed(x)' /\ FullPlansLog(x)'
  BY <1>4, OthersFollow DEF AuditInv, PlanFollowed
<1> QED BY <1>6, <1>7, <1>8, <1>9 DEF AuditInv

\* Lemma: an insert that is stored, or refused because the actor is gone, keeps the
\* invariant.
LEMMA InsertDoneKeeps ==
  ASSUME AuditInv, NEW o \in Ops, InsertDone(o)
  PROVE  AuditInv'
<1> DEFINE log == Head(ops[o].todo)
           a == IF ChecksActor(o) THEN ops[o].actor ELSE NoActor
<1>1. /\ ops[o].at = "inserting" /\ ops' = Resumed(o) /\ alive' = alive
      /\ IF a \in Admins \ alive
         THEN missed' = missed \cup {[op |-> o, log |-> log, why |-> "actorGone"]} /\ UNCHANGED logs
         ELSE logs' = logs \cup {[op |-> o, log |-> log, actor |-> a]} /\ UNCHANGED missed
  BY DEF InsertDone
<1>2. ops[o] \in OpRecord /\ ops[o].todo # <<>>
  BY <1>1 DEF AuditInv, AuditTyped, PlanFollowed
<1>3. log \in Logs
  BY <1>2, TailFacts DEF OpRecord
<1>4. a \in Admins \cup {NoActor}
  BY <1>2 DEF OpRecord
<1>5. CASE a \in Admins \ alive
  <2>1. [op |-> o, log |-> log, why |-> "actorGone"] \in missed'
        /\ missed' \subseteq Missed /\ missed \subseteq missed' /\ logs' = logs
    BY <1>1, <1>3, <1>5 DEF Missed, AuditInv, AuditTyped
  <2>2. a = ops[o].actor
    BY <1>5, AuditAssumption
  <2>3. ops'[o].actor = ops[o].actor
    BY <1>1 DEF Resumed, AuditInv, AuditTyped, OpRecord
  <2>4. ops'[o].actor \notin alive'
    BY <1>1, <1>5, <2>2, <2>3
  <2>5. ASSUME NEW l, l = log PROVE Accounted(o, l)'
    BY <2>1, <2>4, <2>5 DEF Accounted
  <2>6. NoDanglingActor'
    BY <1>1, <2>1 DEF NoDanglingActor, AuditInv
  <2> QED BY <1>1, <1>3, <2>1, <2>5, <2>6, ResumedFollows DEF AuditInv, AuditTyped
<1>6. CASE a \notin Admins \ alive
  <2>1. [op |-> o, log |-> log, actor |-> a] \in logs'
        /\ logs' \subseteq LogRow /\ logs \subseteq logs' /\ missed' = missed
    BY <1>1, <1>3, <1>4, <1>6 DEF LogRow, AuditInv, AuditTyped
  <2>2. ASSUME NEW l, l = log PROVE Accounted(o, l)'
    BY <2>1, <2>2 DEF Accounted, Written
  <2>3. NoDanglingActor'
    BY <1>1, <1>4, <1>6 DEF NoDanglingActor, AuditInv
  <2> QED BY <1>1, <1>3, <2>1, <2>2, <2>3, ResumedFollows DEF AuditInv, AuditTyped
<1> QED BY <1>5, <1>6

\* Lemma: an insert that fails keeps the invariant.
LEMMA InsertFailsKeeps ==
  ASSUME AuditInv, NEW o \in Ops, InsertFails(o)
  PROVE  AuditInv'
<1> DEFINE log == Head(ops[o].todo)
<1>1. /\ ops[o].at = "inserting" /\ ops' = Resumed(o) /\ alive' = alive /\ logs' = logs
      /\ missed' = missed \cup {[op |-> o, log |-> log, why |-> "outage"]}
  BY DEF InsertFails
<1>2. ops[o] \in OpRecord /\ ops[o].todo # <<>>
  BY <1>1 DEF AuditInv, AuditTyped, PlanFollowed
<1>3. log \in Logs
  BY <1>2, TailFacts DEF OpRecord
<1>4. [op |-> o, log |-> log, why |-> "outage"] \in missed'
      /\ missed' \subseteq Missed /\ missed \subseteq missed'
  BY <1>1, <1>3 DEF Missed, AuditInv, AuditTyped
<1>5. ASSUME NEW l, l = log PROVE Accounted(o, l)'
  BY <1>4, <1>5 DEF Accounted
<1>6. NoDanglingActor'
  BY <1>1 DEF NoDanglingActor, AuditInv
<1> QED BY <1>1, <1>3, <1>4, <1>5, <1>6, ResumedFollows DEF AuditInv, AuditTyped

\* Lemma: a step of an operation that logs nothing keeps the invariant, if it gives
\* the operation a plan of its own or leaves it the one it has.
LEMMA QuietKeeps ==
  ASSUME AuditInv, NEW o \in Ops, NEW new \in OpRecord, ops' = [ops EXCEPT ![o] = new],
         \/ new.todo = new.plan /\ new.at = "working"
         \/ /\ new.plan = ops[o].plan /\ new.todo = ops[o].todo
            /\ new.actor = ops[o].actor /\ new.answer = ops[o].answer
            /\ new.at = "inserting" => ops[o].todo # <<>>
            /\ new.at = "ended" => ops[o].todo = <<>>,
         new.answer \in Owing => new.plan = <<"personal">>,
         alive' \subseteq alive, missed' = missed, logs' \subseteq LogRow, NoDanglingActor',
         \A l \in logs : \E m \in logs' : m.op = l.op /\ m.log = l.log
  PROVE  AuditInv'
<1>1. ops' \in [Ops -> OpRecord] /\ ops'[o] = new /\ \A x \in Ops \ {o} : ops'[x] = ops[x]
  BY DEF AuditInv, AuditTyped
<1>2. AuditTyped'
  BY <1>1 DEF AuditInv, AuditTyped
<1>3. ASSUME NEW x \in Ops \ {o} PROVE PlanFollowed(x)' /\ FullPlansLog(x)'
  BY <1>1, OthersFollow DEF AuditInv, PlanFollowed
<1>4. FullPlansLog(o)'
  BY <1>1 DEF FullPlansLog
<1>5. PlanFollowed(o)'
  <2>1. CASE new.todo = new.plan /\ new.at = "working"
    <3>1. new.plan \in Seq(Logs) /\ Len(new.plan) \in Nat
      BY LenProperties DEF OpRecord
    <3>2. Logged(o)' = 0
      BY <1>1, <2>1, <3>1 DEF Logged
    <3> QED BY <1>1, <2>1, <3>1, <3>2 DEF PlanFollowed
  <2>2. CASE ~(new.todo = new.plan /\ new.at = "working")
    BY <1>1, <2>2, OthersFollow DEF AuditInv
  <2> QED BY <2>1, <2>2
<1> QED BY <1>2, <1>3, <1>4, <1>5 DEF AuditInv

\* Lemma: a request that begins keeps the invariant.
LEMMA BeginKeeps ==
  ASSUME AuditInv, NEW o \in Ops, NEW k \in OpKinds, NEW a \in alive, NEW t \in Targets(k, a),
         NEW plan \in Plan(k), NEW answer \in Disclosed(k), BeginOp(o, k, a, t, plan, answer)
  PROVE  AuditInv'
<1> DEFINE new == [kind |-> k, actor |-> a, target |-> t, wants |-> Footprint(k, t), holds |-> {},
                   plan |-> plan, todo |-> plan, at |-> "working", answer |-> answer]
<1>1. a \in Admins /\ t \in Admins \cup Docs
  BY DEF AuditInv, AuditTyped, Targets
<1>2. Footprint(k, t) \subseteq Admins \cup Docs
  BY <1>1 DEF Footprint
<1>3. plan \in Seq(Logs) /\ (answer \in Owing => plan = <<"personal">>)
  BY PlanTyped
<1>4. answer \in {"none", "full", "file", "masked"}
  BY DEF Disclosed, Trail
<1>5. new \in OpRecord
  BY <1>1, <1>2, <1>3, <1>4 DEF OpRecord, Stages
<1>6. ops' = [ops EXCEPT ![o] = new] /\ UNCHANGED <<alive, logs, missed>>
  BY DEF BeginOp
<1>7. logs' \subseteq LogRow /\ NoDanglingActor'
  BY <1>6 DEF AuditInv, AuditTyped, NoDanglingActor
<1> QED BY <1>3, <1>5, <1>6, <1>7, QuietKeeps

\* Lemma: a row lock, the start of an insert and a roll-back keep the invariant.
LEMMA WaitingKeeps ==
  ASSUME AuditInv, NEW o \in Ops,
         (\E r \in ops[o].wants : LockRow(o, r)) \/ StartInsert(o) \/ Abort(o)
  PROVE  AuditInv'
<1>1. ops[o] \in OpRecord /\ PlanFollowed(o) /\ FullPlansLog(o)
  BY DEF AuditInv, AuditTyped
<1>2. UNCHANGED <<alive, logs, missed>>
  BY DEF LockRow, StartInsert, Abort
<1>3. logs' \subseteq LogRow /\ NoDanglingActor'
  BY <1>2 DEF AuditInv, AuditTyped, NoDanglingActor
<1>4. ASSUME NEW new \in OpRecord, ops' = [ops EXCEPT ![o] = new],
             new.plan = ops[o].plan, new.todo = ops[o].todo, new.actor = ops[o].actor,
             new.answer = ops[o].answer, new.at = "inserting" => ops[o].todo # <<>>,
             new.at # "ended"
      PROVE  AuditInv'
  BY <1>1, <1>2, <1>3, <1>4, QuietKeeps DEF FullPlansLog
<1>5. ASSUME NEW r \in ops[o].wants, LockRow(o, r) PROVE AuditInv'
  <2> DEFINE new == [ops[o] EXCEPT !.wants = @ \ {r}, !.holds = @ \cup {r}]
  <2>1. new \in OpRecord /\ new.plan = ops[o].plan /\ new.todo = ops[o].todo
        /\ new.actor = ops[o].actor /\ new.answer = ops[o].answer /\ new.at = ops[o].at
    BY <1>1 DEF OpRecord
  <2>2. ops' = [ops EXCEPT ![o] = new] /\ ops[o].at = "working"
    BY <1>5 DEF LockRow
  <2> QED BY <2>1, <2>2, <1>4
<1>6. ASSUME StartInsert(o) PROVE AuditInv'
  <2> DEFINE new == [ops[o] EXCEPT !.at = "inserting"]
  <2>1. new \in OpRecord /\ new.plan = ops[o].plan /\ new.todo = ops[o].todo
        /\ new.actor = ops[o].actor /\ new.answer = ops[o].answer /\ new.at = "inserting"
    BY <1>1 DEF OpRecord, Stages
  <2>2. ops' = [ops EXCEPT ![o] = new] /\ ops[o].todo # <<>>
    BY <1>6 DEF StartInsert
  <2> QED BY <2>1, <2>2, <1>4
<1>7. ASSUME Abort(o) PROVE AuditInv'
  <2> DEFINE new == [ops[o] EXCEPT !.at = "aborted", !.holds = {}]
  <2>1. new \in OpRecord /\ new.plan = ops[o].plan /\ new.todo = ops[o].todo
        /\ new.actor = ops[o].actor /\ new.answer = ops[o].answer /\ new.at = "aborted"
    BY <1>1 DEF OpRecord, Stages
  <2>2. ops' = [ops EXCEPT ![o] = new]
    BY <1>7 DEF Abort
  <2> QED BY <2>1, <2>2, <1>4
<1> QED BY <1>5, <1>6, <1>7

\* Lemma: emptying a link leaves the rest of every log row.
LEMMA UnlinkedRows ==
  ASSUME logs \subseteq LogRow, NEW a
  PROVE  /\ Unlinked(a) \subseteq LogRow
         /\ \A l \in logs : IF l.actor = a THEN [l EXCEPT !.actor = NoActor] \in Unlinked(a)
                            ELSE l \in Unlinked(a)
         /\ \A l \in logs : \E m \in Unlinked(a) : m.op = l.op /\ m.log = l.log
         /\ \A m \in Unlinked(a) : \E l \in logs : \/ l.actor # a /\ m.actor = l.actor
                                            \/ m.actor = NoActor
<1> DEFINE Cut(l) == [l EXCEPT !.actor = IF @ = a THEN NoActor ELSE @]
<1>1. ASSUME NEW l \in logs
      PROVE  /\ Cut(l) \in LogRow /\ Cut(l).op = l.op /\ Cut(l).log = l.log
             /\ l.actor = a => Cut(l) = [l EXCEPT !.actor = NoActor] /\ Cut(l).actor = NoActor
             /\ l.actor # a => Cut(l) = l
  BY DEF LogRow
<1>2. Unlinked(a) = {Cut(l) : l \in logs}
  BY DEF Unlinked
<1>3. \A l \in logs : Cut(l) \in Unlinked(a)
  BY <1>2
<1> HIDE DEF Cut
<1> QED BY <1>1, <1>2, <1>3

\* Lemma: the end of an operation keeps the invariant.
LEMMA EndKeeps ==
  ASSUME AuditInv, NEW o \in Ops, End(o)
  PROVE  AuditInv'
<1> DEFINE new == [ops[o] EXCEPT !.at = "ended", !.holds = {}]
<1>1. ops[o] \in OpRecord /\ FullPlansLog(o) /\ ops[o].todo = <<>>
  BY DEF AuditInv, AuditTyped, End, Settled
<1>2. new \in OpRecord /\ new.plan = ops[o].plan /\ new.todo = ops[o].todo
      /\ new.actor = ops[o].actor /\ new.answer = ops[o].answer /\ new.at = "ended"
  BY <1>1 DEF OpRecord, Stages
<1>3. ops' = [ops EXCEPT ![o] = new] /\ missed' = missed
  BY DEF End
<1>4. /\ alive' \subseteq alive /\ logs' \subseteq LogRow /\ NoDanglingActor'
      /\ \A l \in logs : \E m \in logs' : m.op = l.op /\ m.log = l.log
  <2>1. CASE ops[o].kind = "deleteUser"
    <3>1. alive' = alive \ {ops[o].target} /\ logs' = Unlinked(ops[o].target)
      BY <2>1 DEF End
    <3> QED BY <3>1, UnlinkedRows DEF AuditInv, AuditTyped, NoDanglingActor
  <2>2. CASE ops[o].kind # "deleteUser"
    BY <2>2 DEF End, AuditInv, AuditTyped, NoDanglingActor
  <2> QED BY <2>1, <2>2
<1> QED BY <1>1, <1>2, <1>3, <1>4, QuietKeeps DEF FullPlansLog

\* Lemma: the invariant is inductive.
LEMMA AuditStepKeeps == AuditInv /\ [AuditNext]_auditVars => AuditInv'
<1> SUFFICES ASSUME AuditInv, [AuditNext]_auditVars PROVE AuditInv'
  OBVIOUS
<1>1. ASSUME NEW o \in Ops, AuditStep(o) PROVE AuditInv'
  <2>1. ASSUME NEW k \in OpKinds, NEW a \in alive, NEW t \in Targets(k, a), NEW plan \in Plan(k),
               NEW answer \in Disclosed(k), BeginOp(o, k, a, t, plan, answer)
        PROVE  AuditInv'
    BY <2>1, BeginKeeps
  <2>2. ASSUME (\E r \in ops[o].wants : LockRow(o, r)) \/ StartInsert(o) \/ Abort(o) PROVE AuditInv'
    BY <2>2, WaitingKeeps
  <2>3. ASSUME InsertDone(o) PROVE AuditInv'
    BY <2>3, InsertDoneKeeps
  <2>4. ASSUME InsertFails(o) PROVE AuditInv'
    BY <2>4, InsertFailsKeeps
  <2>5. ASSUME End(o) PROVE AuditInv'
    BY <2>5, EndKeeps
  <2> QED BY <1>1, <2>1, <2>2, <2>3, <2>4, <2>5 DEF AuditStep
<1>2. CASE UNCHANGED auditVars
  <2>1. UNCHANGED <<ops, alive, logs, missed>>
    BY <1>2 DEF auditVars
  <2>2. AuditTyped' /\ NoDanglingActor'
    BY <2>1 DEF AuditInv, AuditTyped, NoDanglingActor
  <2>3. \A o \in Ops : PlanFollowed(o)' /\ FullPlansLog(o)'
    BY <2>1, OthersFollow DEF AuditInv, PlanFollowed
  <2> QED BY <2>2, <2>3 DEF AuditInv
<1> QED BY <1>1, <1>2 DEF AuditNext

\* The invariant of the trail holds in every state.
LEMMA AuditInductive == AuditSpec => []AuditInv
BY AuditInitHolds, AuditStepKeeps, PTL DEF AuditSpec

\* Theorem: operations, accounts and log rows have their types.
THEOREM AuditIsTyped == AuditSpec => []AuditTypeOK
<1>1. AuditInv => AuditTypeOK
  BY DEF AuditInv, AuditTyped, AuditTypeOK, OpRecord, PlanFollowed
<1> QED BY AuditInductive, <1>1, PTL

\* Theorem: an operation that answered left every log row of its plan, or the insert
\* failed, and for want of the actor only where the actor was deleted.
THEOREM EndedLogs == AuditSpec => []EndedIsLogged
<1>1. AuditInv => EndedIsLogged
  <2> SUFFICES ASSUME AuditInv, NEW o \in Ops, ops[o].at = "ended",
                      NEW k \in 1..Len(ops[o].plan)
               PROVE  Accounted(o, ops[o].plan[k])
    BY DEF EndedIsLogged, Accounted
  <2>1. PlanFollowed(o) /\ ops[o].todo = <<>> /\ ops[o].plan \in Seq(Logs)
    BY DEF AuditInv, PlanFollowed, AuditTyped, OpRecord
  <2>2. Logged(o) = Len(ops[o].plan)
    BY <2>1, LenProperties, EmptySeq DEF Logged
  <2> QED BY <2>1, <2>2 DEF PlanFollowed
<1> QED BY AuditInductive, <1>1, PTL

\* Theorem: full personal data leaves only with its log row, or a failed insert of it.
THEOREM FullDisclosuresLog == AuditSpec => []DisclosureIsLogged
<1>1. AuditInv => DisclosureIsLogged
  <2> SUFFICES ASSUME AuditInv, NEW o \in Ops, ops[o].at = "ended", ops[o].answer \in Owing
               PROVE  Written(o, "personal") \/ Lost(o, "personal")
    BY DEF DisclosureIsLogged
  <2>1. PlanFollowed(o) /\ ops[o].todo = <<>> /\ ops[o].plan = <<"personal">>
    BY DEF AuditInv, PlanFollowed, FullPlansLog
  <2>2. Logged(o) = 1
    BY <2>1 DEF Logged
  <2>3. Accounted(o, "personal")
    BY <2>1, <2>2 DEF PlanFollowed
  <2> QED BY <2>3 DEF Accounted, Lost
<1> QED BY AuditInductive, <1>1, PTL

\* Theorem: a log row names an account that exists, or none.
THEOREM NoActorDangles == AuditSpec => []NoDanglingActor
<1>1. AuditInv => NoDanglingActor
  BY DEF AuditInv
<1> QED BY AuditInductive, <1>1, PTL

\* Theorem: no step removes or changes a log row, but for the link to an account.
THEOREM LogsStay == AuditSpec => LogsOutliveAccounts
<1>1. AuditInv /\ [AuditNext]_auditVars
        => [\A l \in logs : l \in logs' \/ [l EXCEPT !.actor = NoActor] \in logs']_auditVars
  <2> SUFFICES ASSUME AuditInv, NEW o \in Ops, AuditStep(o), NEW l \in logs
               PROVE  l \in logs' \/ [l EXCEPT !.actor = NoActor] \in logs'
    BY DEF AuditNext
  <2>1. CASE logs \subseteq logs'
    BY <2>1
  <2>2. CASE End(o) /\ ops[o].kind = "deleteUser"
    <3>1. logs' = Unlinked(ops[o].target)
      BY <2>2 DEF End
    <3> QED BY <3>1, UnlinkedRows DEF AuditInv, AuditTyped
  <2>3. CASE ~(logs \subseteq logs') /\ ~(End(o) /\ ops[o].kind = "deleteUser")
    BY <2>3 DEF AuditStep, BeginOp, LockRow, StartInsert, InsertDone, InsertFails, End, Abort
  <2> QED BY <2>1, <2>2, <2>3
<1> QED BY AuditInductive, <1>1, PTL DEF AuditSpec, LogsOutliveAccounts

\* Theorem: the trail is kept: every part of the promise holds of every behaviour.
THEOREM TrailIsKeptHolds == AuditSpec => TrailIsKept
<1> QED BY AuditIsTyped, EndedLogs, FullDisclosuresLog, NoActorDangles, LogsStay, PTL DEF TrailIsKept

\* The rows an operation needs are those it wants and those it holds; it gets the
\* account before the rows that name it, has them all before it logs, and holds
\* none when it is over.
LocksInOrder(o) ==
  /\ ops[o].at \in {"working", "inserting"} =>
       /\ ops[o].kind \in OpKinds /\ ops[o].actor \in Admins
       /\ ops[o].wants \cup ops[o].holds = Footprint(ops[o].kind, ops[o].target)
       /\ ops[o].wants \cap ops[o].holds = {}
       /\ ops[o].holds # {} => ops[o].wants \cap Admins = {}
       /\ ops[o].plan \in Plan(ops[o].kind)
       /\ ops[o].kind = "saveRow" => ops[o].target \in Docs
       /\ ops[o].kind \in {"saveUser", "deleteUser", "login", "logout"} => ops[o].target \in Admins
  /\ ops[o].at \notin {"working", "inserting"} => ops[o].holds = {}
  /\ ops[o].at = "inserting" => ops[o].wants = {}

\* No two operations hold a row.
LocksExclude == \A o, p \in Ops : o # p => ops[o].holds \cap ops[p].holds = {}

LockInv == LocksExclude /\ \A o \in Ops : LocksInOrder(o)

\* What one operation makes of itself keeps the locks, if it takes none but a free one.
LEMMA LocksKeep ==
  ASSUME AuditTyped, LockInv, NEW o \in Ops, NEW new, ops' = [ops EXCEPT ![o] = new],
         LocksInOrder(o)', \A p \in Ops \ {o} : new.holds \cap ops[p].holds = {}
  PROVE  LockInv'
<1>1. ops'[o] = new /\ \A p \in Ops \ {o} : ops'[p] = ops[p]
  BY DEF AuditTyped
<1>2. ASSUME NEW p \in Ops \ {o} PROVE LocksInOrder(p)'
  BY <1>1 DEF LockInv, LocksInOrder
<1>3. LocksExclude'
  BY <1>1 DEF LockInv, LocksExclude
<1> QED
  BY <1>2, <1>3 DEF LockInv

\* Locks stay exclusive and are taken in order: the account first, then rows
\* (recordAccess.ts, the saves of Payload).
LEMMA LockInvStep == AuditInv /\ LockInv /\ [AuditNext]_auditVars => LockInv'
<1> SUFFICES ASSUME AuditInv, LockInv, [AuditNext]_auditVars PROVE LockInv'
  OBVIOUS
<1>0. AuditTyped /\ alive \subseteq Admins
  BY DEF AuditInv, AuditTyped
<1>1. ASSUME NEW o \in Ops, NEW k \in OpKinds, NEW a \in alive, NEW t \in Targets(k, a),
             NEW plan \in Plan(k), NEW answer \in Disclosed(k), BeginOp(o, k, a, t, plan, answer)
      PROVE  LockInv'
  <2>. DEFINE new == [kind |-> k, actor |-> a, target |-> t, wants |-> Footprint(k, t), holds |-> {},
                   plan |-> plan, todo |-> plan, at |-> "working", answer |-> answer]
  <2>1. ops' = [ops EXCEPT ![o] = new]
    BY <1>1 DEF BeginOp
  <2>2. ops'[o] = new
    BY <1>0, <2>1 DEF AuditTyped
  <2>3. /\ k = "saveRow" => t \in Docs
        /\ k \in {"saveUser", "deleteUser", "login", "logout"} => t \in Admins
    BY <1>0 DEF Targets
  <2>4. LocksInOrder(o)'
    BY <1>0, <2>2, <2>3 DEF LocksInOrder
  <2>5. new.holds = {}
    OBVIOUS
  <2>. HIDE DEF new
  <2>. QED
    BY <1>0, <2>1, <2>4, <2>5, LocksKeep
<1>2. ASSUME NEW o \in Ops, NEW r \in ops[o].wants, LockRow(o, r) PROVE LockInv'
  <2>. DEFINE new == [ops[o] EXCEPT !.wants = @ \ {r}, !.holds = @ \cup {r}]
  <2>1. ops' = [ops EXCEPT ![o] = new]
    BY <1>2 DEF LockRow
  <2>2. ops'[o] = new /\ ops[o] \in OpRecord
    BY <1>0, <2>1 DEF AuditTyped
  <2>3. /\ new.wants = ops[o].wants \ {r} /\ new.holds = ops[o].holds \cup {r}
        /\ new.kind = ops[o].kind /\ new.actor = ops[o].actor
        /\ new.target = ops[o].target /\ new.plan = ops[o].plan
        /\ new.at = "working" /\ ops[o].at = "working"
    BY <1>2, <2>2 DEF LockRow, OpRecord
  <2>4. r \in Lockable(o) /\ Holders(r) = {}
    BY <1>2 DEF LockRow
  <2>5. LocksInOrder(o)
    BY DEF LockInv
  <2>6. new.wants \cap Admins = {}
    <3>1. r \notin Admins => ops[o].wants \cap Admins = {}
      BY <2>4 DEF Lockable
    <3>2. ASSUME r \in Admins PROVE \A x \in Footprint(ops[o].kind, ops[o].target) \cap Admins : x = r
      <4>1. r \in Footprint(ops[o].kind, ops[o].target)
        BY <2>3, <2>5 DEF LocksInOrder
      <4>. QED
        BY <4>1, <3>2, AuditAssumption DEF Footprint
    <3>3. ops[o].wants \subseteq Footprint(ops[o].kind, ops[o].target)
      BY <2>3, <2>5 DEF LocksInOrder
    <3>. QED
      BY <2>3, <3>1, <3>2, <3>3
  <2>7. /\ new.wants \cup new.holds = Footprint(ops[o].kind, ops[o].target)
        /\ new.wants \cap new.holds = {}
    BY <1>2, <2>3, <2>5 DEF LocksInOrder
  <2>8. \A p \in Ops \ {o} : new.holds \cap ops[p].holds = {}
    BY <2>3, <2>4 DEF Holders, LockInv, LocksExclude
  <2>. HIDE DEF new
  <2>9. LocksInOrder(o)'
    BY <2>2, <2>3, <2>5, <2>6, <2>7 DEF LocksInOrder
  <2>. QED
    BY <1>0, <2>1, <2>8, <2>9, LocksKeep
<1>3. ASSUME NEW o \in Ops, NEW new \in OpRecord, ops' = [ops EXCEPT ![o] = new],
             new.kind = ops[o].kind, new.actor = ops[o].actor, new.target = ops[o].target, new.plan = ops[o].plan,
             new.wants = ops[o].wants,
             \/ /\ ops[o].at \in {"working", "inserting"} /\ new.holds = ops[o].holds
                /\ \/ new.at = "working"
                   \/ new.at = "inserting" /\ ops[o].wants = {}
             \/ new.at \in {"ended", "aborted"} /\ new.holds = {}
      PROVE  LockInv'
  <2>1. ops'[o] = new
    BY <1>0, <1>3 DEF AuditTyped
  <2>2. LocksInOrder(o)
    BY DEF LockInv
  <2>3. LocksInOrder(o)'
    BY <1>3, <2>1, <2>2 DEF LocksInOrder
  <2>4. \A p \in Ops \ {o} : new.holds \cap ops[p].holds = {}
    BY <1>3 DEF LockInv, LocksExclude
  <2>. QED
    BY <1>0, <1>3, <2>3, <2>4, LocksKeep
<1>4. ASSUME NEW o \in Ops, StartInsert(o) PROVE LockInv'
  <2>. DEFINE new == [ops[o] EXCEPT !.at = "inserting"]
  <2>1. ops[o] \in OpRecord /\ ops' = [ops EXCEPT ![o] = new] /\ ops[o].at = "working" /\ ops[o].wants = {}
    BY <1>0, <1>4 DEF StartInsert, AuditTyped
  <2>2. new \in OpRecord /\ new.kind = ops[o].kind /\ new.actor = ops[o].actor
        /\ new.target = ops[o].target /\ new.plan = ops[o].plan
        /\ new.wants = ops[o].wants /\ new.holds = ops[o].holds /\ new.at = "inserting"
    BY <2>1 DEF OpRecord, Stages
  <2>. HIDE DEF new
  <2>. QED
    BY <1>3, <2>1, <2>2
<1>5. ASSUME NEW o \in Ops, InsertDone(o) \/ InsertFails(o) PROVE LockInv'
  <2>. DEFINE new == [ops[o] EXCEPT !.at = "working", !.todo = Tail(@)]
  <2>1. ops[o] \in OpRecord /\ ops' = [ops EXCEPT ![o] = new] /\ ops[o].at = "inserting"
    BY <1>0, <1>5 DEF InsertDone, InsertFails, Resumed, AuditTyped
  <2>2. ops[o].todo # <<>>
    BY <2>1 DEF AuditInv, PlanFollowed
  <2>3. Tail(ops[o].todo) \in Seq(Logs)
    BY <2>1, <2>2, TailFacts DEF OpRecord
  <2>4. new \in OpRecord /\ new.kind = ops[o].kind /\ new.actor = ops[o].actor
        /\ new.target = ops[o].target /\ new.plan = ops[o].plan
        /\ new.wants = ops[o].wants /\ new.holds = ops[o].holds /\ new.at = "working"
    BY <2>1, <2>3 DEF OpRecord, Stages
  <2>. HIDE DEF new
  <2>. QED
    BY <1>3, <2>1, <2>4
<1>6. ASSUME NEW o \in Ops, End(o) \/ Abort(o) PROVE LockInv'
  <2>1. PICK at \in {"ended", "aborted"} : ops' = [ops EXCEPT ![o].at = at, ![o].holds = {}]
    BY <1>6 DEF End, Abort
  <2>. DEFINE new == [ops[o] EXCEPT !.at = at, !.holds = {}]
  <2>2. ops[o] \in OpRecord /\ ops' = [ops EXCEPT ![o] = new]
    BY <1>0, <2>1 DEF AuditTyped
  <2>3. new \in OpRecord /\ new.kind = ops[o].kind /\ new.actor = ops[o].actor
        /\ new.target = ops[o].target /\ new.plan = ops[o].plan
        /\ new.wants = ops[o].wants /\ new.holds = {} /\ new.at = at
    BY <2>2 DEF OpRecord, Stages
  <2>. HIDE DEF new
  <2>. QED
    BY <1>3, <2>2, <2>3
<1>7. CASE UNCHANGED auditVars
  BY <1>7 DEF auditVars, LockInv, LocksInOrder, LocksExclude
<1>. QED
  BY <1>1, <1>2, <1>4, <1>5, <1>6, <1>7 DEF AuditNext, AuditStep

\* Two connections for every operation are never all taken by operations one of
\* which has one or none.
LEMMA PoolIsLarge ==
  ASSUME NEW D \in SUBSET Ops, IsFiniteSet(Ops), Pool >= 2 * Cardinality(Ops),
         NEW o \in D, Connections[o] <= 1
  PROVE  Used(D) # Pool
<1>0. /\ IsFiniteSet(D) /\ \A T \in SUBSET D : IsFiniteSet(T) /\ Cardinality(T) \in Nat
      /\ Cardinality(D) <= Cardinality(Ops) /\ Cardinality(Ops) \in Nat /\ Pool \in Nat
  BY FS_Subset, FS_CardinalityType, AuditAssumption
<1>1. \A x \in D : Connections[x] \in Nat /\ Connections[x] <= 2
  BY DEF Connections
<1>2. \A T \in SUBSET D : SumOf(Connections, T) \in Nat
  BY <1>0, <1>1, SumAdds
<1>. DEFINE bad == {T \in SUBSET D : ~(SumOf(Connections, T) <= 2 * Cardinality(T))}
<1>3. bad = {}
  <2>. SUFFICES ASSUME bad # {} PROVE FALSE
    OBVIOUS
  <2>0. bad \in SUBSET (SUBSET D)
    OBVIOUS
  <2>1. PICK T \in bad : \A x \in T : T \ {x} \notin bad
    <3>. HIDE DEF bad
    <3>. QED
      BY <1>0, <2>0, SmallestBad
  <2>2. T \in SUBSET D /\ ~(SumOf(Connections, T) <= 2 * Cardinality(T)) /\ IsFiniteSet(T)
    BY <1>0
  <2>3. \A x \in T : Connections[x] \in Nat
    BY <1>1, <2>2
  <2>4. T # {}
    <3>1. T = {} => SumOf(Connections, T) = 0
      BY <2>2, <2>3, SumAdds
    <3>. QED
      BY <1>0, <2>2, <3>1
  <2>5. PICK x \in T : TRUE
    BY <2>4
  <2>6. SumOf(Connections, T) = Connections[x] + SumOf(Connections, T \ {x})
    BY <2>2, <2>3, SumAdds
  <2>7. Cardinality(T \ {x}) = Cardinality(T) - 1
    BY <2>2, FS_RemoveElement
  <2>8. SumOf(Connections, T \ {x}) <= 2 * Cardinality(T \ {x})
    BY <2>1, <2>2
  <2>9. T \ {x} \in SUBSET D /\ x \in D
    BY <2>2
  <2>. HIDE DEF bad
  <2>. QED
    BY <1>0, <1>1, <1>2, <2>2, <2>6, <2>7, <2>8, <2>9
<1>4. SumOf(Connections, D) = Connections[o] + SumOf(Connections, D \ {o})
  BY <1>0, <1>1, SumAdds
<1>5. SumOf(Connections, D \ {o}) <= 2 * Cardinality(D \ {o})
  BY <1>3
<1>6. Cardinality(D \ {o}) = Cardinality(D) - 1
  BY <1>0, FS_RemoveElement
<1>7. Used(D) = SumOf(Connections, D)
  BY DEF Used, SumOf
<1>. HIDE DEF bad
<1>8. D \ {o} \in SUBSET D
  OBVIOUS
<1>. QED
  BY <1>0, <1>1, <1>2, <1>4, <1>5, <1>6, <1>7, <1>8

\* Only the insert of an access log of a saved row checks its actor (linkActor).
LEMMA ChecksWhileSaving ==
  ASSUME AuditInv, LockInv, NEW o \in Ops, ChecksActor(o)
  PROVE  ops[o].kind = "saveRow"
<1>1. /\ ops[o].at = "inserting" /\ Linked(ops[o].kind) /\ Head(ops[o].todo) = "access"
      /\ ops[o].kind \in OpKinds /\ ops[o].plan \in Plan(ops[o].kind) /\ PlanFollowed(o)
      /\ ops[o] \in OpRecord
  BY DEF ChecksActor, LockInv, LocksInOrder, AuditInv, AuditTyped
<1>2. ops[o].todo # <<>> /\ ops[o].todo \in Seq(Logs) /\ ops[o].plan \in Seq(Logs)
  BY <1>1 DEF PlanFollowed, OpRecord
<1>3. Head(ops[o].todo) = ops[o].todo[1] /\ Len(ops[o].todo) \in Nat \ {0} /\ Len(ops[o].plan) \in Nat
  BY <1>2, TailFacts, LenProperties
<1>4. ops[o].todo[1] = ops[o].plan[Logged(o) + 1] /\ Logged(o) + 1 \in 1..Len(ops[o].plan)
  <2>1. 1 \in 1..Len(ops[o].todo) /\ Len(ops[o].todo) <= Len(ops[o].plan)
    BY <1>1, <1>3 DEF PlanFollowed
  <2>2. ops[o].todo[1] = ops[o].plan[Logged(o) + 1]
    BY <1>1, <2>1 DEF PlanFollowed
  <2>3. Logged(o) + 1 \in 1..Len(ops[o].plan)
    <3>. DEFINE whole == Len(ops[o].plan)
                rest == Len(ops[o].todo)
    <3>1. whole \in Nat /\ rest \in Nat \ {0} /\ rest <= whole /\ Logged(o) = whole - rest
      BY <1>3, <2>1 DEF Logged
    <3>. HIDE DEF whole, rest
    <3>2. Logged(o) + 1 \in 1..whole
      BY <3>1
    <3>. QED
      BY <3>2 DEF whole
  <2>. QED
    BY <2>2, <2>3
<1>5. \E i \in 1..Len(ops[o].plan) : ops[o].plan[i] = "access"
  BY <1>1, <1>3, <1>4
<1>6. ASSUME NEW s, s \in {<<>>, <<"loginHistory">>, <<"errors">>, <<"personal">>}
      PROVE  ~\E i \in 1..Len(s) : s[i] = "access"
  BY <1>6
<1>7. ops[o].plan \notin {<<>>, <<"loginHistory">>, <<"errors">>, <<"personal">>}
  BY <1>5, <1>6
<1>8. ASSUME ops[o].kind # "saveRow"
      PROVE  ops[o].plan \in {<<>>, <<"loginHistory">>, <<"errors">>, <<"personal">>}
  <2>1. ops[o].kind \in OpKinds \ {"saveRow", "saveUser", "deleteUser", "login", "logout"}
    BY <1>1, <1>8 DEF Linked
  <2>. QED
    BY <1>1, <2>1, Zenon DEF Plan, OpKinds
<1>. QED
  BY <1>7, <1>8

\* Whoever holds the row of an account and waits is a deletion that waits for a row
\* which names the account.
LEMMA WaitingHolder ==
  ASSUME AuditInv, LockInv, NEW D \in SUBSET Ops, NEW h \in D, Awaits(h, D),
         ops[h].at = "working" => Used(D) # Pool, NEW u \in Admins, u \in ops[h].holds
  PROVE  /\ ops[h].kind = "deleteUser" /\ ops[h].target = u
         /\ ops[h].at = "working" /\ ops[h].wants # {}
<1>1. LocksInOrder(h) /\ ops[h] \in OpRecord
  BY DEF LockInv, AuditInv, AuditTyped
<1>2. ops[h].at \in {"working", "inserting"} /\ u \in Footprint(ops[h].kind, ops[h].target)
      /\ ops[h].kind \in OpKinds
  BY <1>1 DEF LocksInOrder
<1>3. ops[h].kind # "saveRow"
  BY <1>1, <1>2, AuditAssumption DEF LocksInOrder, Footprint
<1>4. ~ChecksActor(h)
  BY <1>3, ChecksWhileSaving
<1>5. ops[h].at = "working" /\ ops[h].wants # {}
  BY <1>4 DEF Awaits
<1>6. ops[h].kind = "deleteUser" /\ ops[h].target = u
  <2>1. ASSUME ops[h].kind # "deleteUser" PROVE FALSE
    <3>1. Footprint(ops[h].kind, ops[h].target) \subseteq {ops[h].target}
      BY <2>1, Zenon DEF Footprint
    <3>2. ops[h].wants \subseteq {u} /\ ops[h].wants \cap ops[h].holds = {}
      BY <1>1, <1>2, <3>1 DEF LocksInOrder
    <3>. QED
      BY <1>5, <3>2
  <2>2. Footprint("deleteUser", ops[h].target) \cap Admins \subseteq {ops[h].target}
    BY AuditAssumption DEF Footprint
  <2>. QED
    BY <1>2, <2>1, <2>2
<1>. QED
  BY <1>5, <1>6

\* A deletion that waits for rows, once it holds the account, waits for a save.
LEMMA DeletionWaitsForSave ==
  ASSUME AuditInv, LockInv, NEW D \in SUBSET Ops, \A x \in D : Awaits(x, D),
         \A x \in D : ops[x].at = "working" => Used(D) # Pool,
         NEW h \in D, ops[h].kind = "deleteUser", ops[h].target \in ops[h].holds,
         ops[h].at = "working", ops[h].wants # {}
  PROVE  \E q \in D : /\ ops[q].kind = "saveRow" /\ Author[ops[q].target] = ops[h].target
                      /\ ChecksActor(q)
<1>. DEFINE u == ops[h].target
<1>1. LocksInOrder(h) /\ u \in Admins /\ ops[h].wants \subseteq Footprint("deleteUser", u)
  BY DEF LockInv, LocksInOrder
<1>2. ops[h].wants \cap Admins = {} /\ ops[h].wants \cap ops[h].holds = {}
  BY <1>1 DEF LocksInOrder
<1>3. \A r \in ops[h].wants : Holders(r) \cap D # {}
  BY <1>2 DEF Awaits, Lockable, ChecksActor
<1>4. PICK r \in ops[h].wants, q \in D : r \in ops[q].holds
  BY <1>3 DEF Holders
<1>5. r \in Docs /\ Author[r] = u /\ r \notin Admins
  BY <1>1, <1>2, <1>4 DEF Footprint
<1>6. LocksInOrder(q) /\ q # h
  BY <1>2, <1>4 DEF LockInv
<1>7. /\ ops[q].at \in {"working", "inserting"} /\ ops[q].kind \in OpKinds
      /\ r \in Footprint(ops[q].kind, ops[q].target) /\ ops[q].wants \cap Admins = {}
      /\ ops[q].wants \cup ops[q].holds = Footprint(ops[q].kind, ops[q].target)
  BY <1>4, <1>6 DEF LocksInOrder
<1>8. ops[q].kind # "deleteUser"
  <2>. SUFFICES ASSUME ops[q].kind = "deleteUser" PROVE FALSE
    OBVIOUS
  <2>1. ops[q].target \in Admins
    BY <1>6, <1>7 DEF LocksInOrder
  <2>2. Footprint("deleteUser", ops[q].target) = {ops[q].target} \cup {d \in Docs : Author[d] = ops[q].target}
    BY DEF Footprint
  <2>3. Author[r] = ops[q].target
    BY <1>5, <1>7, <2>1, <2>2
  <2>4. u \in ops[q].holds
    BY <1>5, <1>7, <2>1, <2>2, <2>3
  <2>. QED
    BY <1>6, <2>4 DEF LockInv, LocksExclude
<1>9. ops[q].kind = "saveRow" /\ ops[q].target = r
  <2>1. ops[q].kind \in {"saveUser", "login", "logout"} => ops[q].target \in Admins
    BY <1>6, <1>7 DEF LocksInOrder
  <2>2. ops[q].kind \in {"saveRow", "saveUser", "login", "logout"} /\ r = ops[q].target
    BY <1>7, <1>8, Zenon DEF Footprint, OpKinds
  <2>. QED
    BY <1>5, <2>1, <2>2
<1>10. ops[q].wants = {}
  <2>1. Footprint("saveRow", ops[q].target) = {r}
    BY <1>9 DEF Footprint
  <2>2. ops[q].wants \cap ops[q].holds = {}
    BY <1>6, <1>7 DEF LocksInOrder
  <2>. QED
    BY <1>4, <1>7, <1>9, <2>1, <2>2
<1>11. ChecksActor(q)
  BY <1>10 DEF Awaits
<1>. QED
  BY <1>5, <1>9, <1>11

\* Operations that wait for one another wait, in the end, for the deletion of an
\* account that is saving a row; a pool that is large enough is never what they
\* wait for.
LEMMA StuckMeetsDeletion ==
  ASSUME AuditInv, LockInv, IsFiniteSet(Ops), Pool >= 2 * Cardinality(Ops),
         NEW D \in SUBSET Ops, Stuck(D)
  PROVE  \E o, p, q \in D : DeletesAuthor(o, p, q)
<1>1. D # {} /\ \A o \in D : Awaits(o, D)
  BY DEF Stuck
<1>2. \A o \in D : ops[o].at = "working" => Connections[o] <= 1
  BY DEF Connections
<1>3. \A o \in D : ops[o].at = "working" => Used(D) # Pool
  <2>. SUFFICES ASSUME NEW o \in D, ops[o].at = "working" PROVE Used(D) # Pool
    OBVIOUS
  <2>1. Connections[o] <= 1
    BY <1>2
  <2>. QED
    BY <2>1, PoolIsLarge
<1>4. ASSUME NEW h \in D, NEW u \in Admins, u \in ops[h].holds
      PROVE  /\ ops[h].kind = "deleteUser" /\ ops[h].target = u
             /\ ops[h].at = "working" /\ ops[h].wants # {}
  <2>1. Awaits(h, D) /\ (ops[h].at = "working" => Used(D) # Pool)
    BY <1>1, <1>3
  <2>. QED
    BY <1>4, <2>1, WaitingHolder
<1>5. ASSUME NEW o \in D, ops[o].kind = "deleteUser", ops[o].target \in ops[o].holds,
             ops[o].at = "working", ops[o].wants # {}
      PROVE  \E q \in D : /\ ops[q].kind = "saveRow" /\ Author[ops[q].target] = ops[o].target
                          /\ ChecksActor(q)
  BY <1>1, <1>3, <1>5, DeletionWaitsForSave
<1>6. ASSUME NEW p \in D, ChecksActor(p) PROVE \E o, q \in D : DeletesAuthor(o, p, q)
  <2>1. ops[p].kind = "saveRow" /\ ops[p].at = "inserting" /\ LocksInOrder(p)
    BY <1>6, ChecksWhileSaving DEF ChecksActor, LockInv
  <2>2. PICK o \in D : ops[p].actor \in ops[o].holds
    BY <1>1, <2>1 DEF Awaits, Holders
  <2>3. ops[p].actor \in Admins
    BY <2>1 DEF LocksInOrder
  <2>4. /\ ops[o].kind = "deleteUser" /\ ops[o].target = ops[p].actor
        /\ ops[o].at = "working" /\ ops[o].wants # {}
    BY <1>4, <2>2, <2>3
  <2>5. PICK q \in D : ops[q].kind = "saveRow" /\ Author[ops[q].target] = ops[o].target
    BY <1>5, <2>2, <2>4
  <2>. QED
    BY <2>1, <2>4, <2>5 DEF DeletesAuthor
<1>7. ASSUME NEW h \in D, NEW u \in Admins, u \in ops[h].holds PROVE \E p \in D : ChecksActor(p)
  BY <1>4, <1>5, <1>7
<1>8. ASSUME NEW h \in D, NEW d \in Docs, d \in ops[h].holds PROVE \E p \in D : ChecksActor(p)
  <2>1. LocksInOrder(h)
    BY DEF LockInv
  <2>2. /\ ops[h].kind \in OpKinds /\ d \in Footprint(ops[h].kind, ops[h].target) /\ d \notin Admins
        /\ ops[h].wants \cap Admins = {} /\ ops[h].at \in {"working", "inserting"}
        /\ ops[h].wants \cup ops[h].holds = Footprint(ops[h].kind, ops[h].target)
        /\ ops[h].wants \cap ops[h].holds = {}
    BY <1>8, <2>1, AuditAssumption DEF LocksInOrder
  <2>3. CASE ops[h].kind = "deleteUser"
    <3>1. ops[h].target \in Admins /\ ops[h].target \in Footprint("deleteUser", ops[h].target)
      BY <2>1, <2>2, <2>3 DEF LocksInOrder, Footprint
    <3>2. ops[h].target \in ops[h].holds
      BY <2>2, <2>3, <3>1
    <3>. QED
      BY <1>7, <3>1, <3>2
  <2>4. CASE ops[h].kind # "deleteUser"
    <3>1. ops[h].kind \in {"saveRow", "saveUser", "login", "logout"}
          /\ Footprint(ops[h].kind, ops[h].target) = {d}
      BY <2>2, <2>4, Zenon DEF Footprint, OpKinds
    <3>2. ops[h].wants = {}
      BY <1>8, <2>2, <3>1
    <3>3. ChecksActor(h)
      BY <1>1, <1>3, <3>2 DEF Awaits
    <3>. QED
      BY <3>3
  <2>. QED
    BY <2>3, <2>4
<1>9. \E p \in D : ChecksActor(p)
  <2>1. PICK o \in D : Awaits(o, D)
    BY <1>1
  <2>2. CASE ChecksActor(o)
    BY <2>2
  <2>3. CASE ~ChecksActor(o)
    <3>1. ops[o].at = "working" /\ ops[o].wants # {} /\ \A r \in Lockable(o) : Holders(r) \cap D # {}
      BY <1>3, <2>1, <2>3 DEF Awaits
    <3>2. ops[o].wants \subseteq Admins \cup Docs
      BY DEF AuditInv, AuditTyped, OpRecord
    <3>3. PICK r \in Lockable(o) : r \in Admins \cup Docs
      BY <3>1, <3>2 DEF Lockable
    <3>4. PICK h \in D : r \in ops[h].holds
      BY <3>1, <3>3 DEF Holders
    <3>. QED
      BY <1>7, <1>8, <3>3, <3>4
  <2>. QED
    BY <2>2, <2>3
<1>. QED
  BY <1>6, <1>9

\* Operations wait for one another only where an account is deleted while it saves a
\* row and a row that names it is saved: linkActor spares the operations that lock an
\* account's row themselves the wait for it (recordAccess).  Two connections an
\* operation are what an operation ever takes.
THEOREM StuckOnlyByDeletionHolds ==
  ASSUME IsFiniteSet(Ops), Pool >= 2 * Cardinality(Ops)
  PROVE  AuditSpec => []StuckOnlyByDeletion
<1>1. AuditInit => LockInv
  BY DEF AuditInit, IdleOp, LockInv, LocksExclude, LocksInOrder
<1>2. AuditSpec => []LockInv
  BY <1>1, AuditInductive, LockInvStep, PTL DEF AuditSpec
<1>3. AuditInv /\ LockInv => StuckOnlyByDeletion
  BY StuckMeetsDeletion DEF StuckOnlyByDeletion
<1>. QED
  BY <1>2, <1>3, AuditInductive, PTL

-----------------------------------------------------------------------------
(* The screens.  Rows have numbers of their own, without gaps; the rest is   *)
(* that a picked site is one of the caller's, and that a view and its export *)
(* are set up alike.                                                         *)

RowsNumbered ==
  /\ IsFiniteSet(rows) /\ {w.n : w \in rows} = 1..Cardinality(rows)
  /\ \A w, x \in rows : w.n = x.n => w = x

ReportInv == ReportTypeOK /\ RowsNumbered

\* The rows are numbered in the order they were written, and the newest goes first.
LEMMA ReportInvHolds == ReportSpec => []ReportInv
<1>1. ReportInit => ReportInv
  <2>. SUFFICES ASSUME ReportInit PROVE ReportInv
    OBVIOUS
  <2>1. IsFiniteSet({}) /\ Cardinality({}) = 0
    BY FS_EmptySet
  <2>. QED
    BY <2>1 DEF ReportInit, ReportInv, ReportTypeOK, RowsNumbered, Viewers
<1>2. ReportInv /\ [ReportNext]_reportVars => ReportInv'
  <2>. SUFFICES ASSUME ReportInv, [ReportNext]_reportVars PROVE ReportInv'
    OBVIOUS
  <2>0. Cardinality(rows) \in Nat /\ rows \subseteq Row /\ IsFiniteSet(rows)
    BY FS_CardinalityType DEF ReportInv, RowsNumbered, ReportTypeOK
  <2>1. CASE EditViewer \/ UNCHANGED reportVars
    <3>1. rows' = rows /\ screen' = screen /\ viewer' \in Viewers
      BY <2>1 DEF EditViewer, reportVars, ReportInv, ReportTypeOK
    <3>. QED
      BY <3>1 DEF ReportInv, ReportTypeOK, RowsNumbered
  <2>2. ASSUME NEW site \in Tenants, NEW secret \in BOOLEAN, NEW tag \in Tags,
               AddRow(site, secret, tag)
        PROVE  ReportInv'
    <3>. DEFINE c == Cardinality(rows)
                new == [n |-> c + 1, site |-> site, secret |-> secret, tag |-> tag]
    <3>1. c < MaxRows /\ rows' = rows \cup {new} /\ UNCHANGED <<screen, viewer>>
      BY <2>2 DEF AddRow, NextNumber
    <3>2. new \in Row /\ new.n = c + 1
      BY <2>0, <3>1, ReportsAssumption DEF Row, Numbers
    <3>3. \A w \in rows : w.n \in 1..c
      BY DEF ReportInv, RowsNumbered
    <3>4. new \notin rows
      BY <2>0, <3>2, <3>3
    <3>. HIDE DEF new
    <3>5. IsFiniteSet(rows') /\ Cardinality(rows') = c + 1
      BY <2>0, <3>1, <3>4, FS_AddElement
    <3>6. {w.n : w \in rows'} = {w.n : w \in rows} \cup {c + 1}
      BY <3>1, <3>2
    <3>7. {w.n : w \in rows'} = 1..Cardinality(rows')
      <4>1. {w.n : w \in rows} = 1..c
        BY DEF ReportInv, RowsNumbered
      <4>. QED
        BY <2>0, <3>5, <3>6, <4>1
    <3>8. \A w, x \in rows' : w.n = x.n => w = x
      BY <2>0, <3>1, <3>2, <3>3 DEF ReportInv, RowsNumbered
    <3>. QED
      BY <2>0, <3>1, <3>2, <3>5, <3>7, <3>8 DEF ReportInv, ReportTypeOK, RowsNumbered
  <2>3. CASE DropNewest
    <3>. DEFINE c == Cardinality(rows)
    <3>1. rows # {} /\ rows' = {w \in rows : w.n < c} /\ UNCHANGED <<screen, viewer>>
      BY <2>3 DEF DropNewest
    <3>2. c # 0
      BY <2>0, <3>1, FS_EmptySet
    <3>3. {w.n : w \in rows} = 1..c
      BY DEF ReportInv, RowsNumbered
    <3>4. PICK top \in rows : top.n = c
      <4>1. c \in 1..c
        BY <2>0, <3>2
      <4>2. c \in {w.n : w \in rows}
        BY <3>3, <4>1
      <4>. QED
        BY <4>2
    <3>. HIDE DEF c
    <3>5. rows' = rows \ {top}
      <4>1. \A w \in rows : w.n \in 1..c /\ (w.n = c => w = top)
        BY <3>3, <3>4 DEF ReportInv, RowsNumbered
      <4>2. \A w \in rows : w.n < c <=> w # top
        BY <2>0, <3>4, <4>1 DEF c
      <4>. QED
        BY <3>1, <4>2
    <3>6. IsFiniteSet(rows') /\ Cardinality(rows') = c - 1
      BY <2>0, <3>4, <3>5, FS_RemoveElement DEF c
    <3>7. {w.n : w \in rows'} = 1..Cardinality(rows')
      <4>1. \A k \in 1..c - 1 : k \in {w.n : w \in rows'}
        <5>. SUFFICES ASSUME NEW k \in 1..c - 1 PROVE k \in {w.n : w \in rows'}
          OBVIOUS
        <5>1. k \in 1..c /\ k < c
          BY <2>0 DEF c
        <5>2. PICK w \in rows : w.n = k
          BY <3>3, <5>1
        <5>. QED
          BY <3>1, <5>1, <5>2
      <4>2. \A w \in rows' : w.n \in 1..c - 1
        <5>. SUFFICES ASSUME NEW w \in rows' PROVE w.n \in 1..c - 1
          OBVIOUS
        <5>1. w \in rows /\ w.n < c
          BY <3>1
        <5>2. w.n \in 1..c
          BY <3>3, <5>1
        <5>. QED
          BY <2>0, <5>1, <5>2 DEF c
      <4>. QED
        BY <3>6, <4>1, <4>2
    <3>. QED
      BY <3>1, <3>6, <3>7 DEF ReportInv, ReportTypeOK, RowsNumbered
  <2>. QED
    BY <2>1, <2>2, <2>3 DEF ReportNext
<1>. QED
  BY <1>1, <1>2, PTL DEF ReportSpec

\* A view or a widget picks a site its caller was offered.
LEMMA PickedSite ==
  ASSUME NEW v \in Viewers, SiteOptions(v) # {}
  PROVE  /\ SiteOptions(v) \subseteq Tenants
         /\ \A x : SelectedSite(v, x) \in SiteOptions(v)
         /\ \A x, y, z : DashboardSite(v, x, y, z) \in SiteOptions(v)
<1>1. SiteOptions(v) \subseteq Tenants
  BY DEF SiteOptions, Viewers
<1>2. PICK least \in SiteOptions(v) : \A y \in SiteOptions(v) : ~(y < least)
  <2>1. SiteOptions(v) \in SUBSET Nat
    BY <1>1, ReportsAssumption
  <2>. QED
    BY <2>1, SmallestNat
<1>3. Min(SiteOptions(v)) \in SiteOptions(v)
  <2>0. least \in Nat /\ \A y \in SiteOptions(v) : y \in Nat
    BY <1>1, ReportsAssumption
  <2>1. \A y \in SiteOptions(v) : least <= y
    BY <1>2, <2>0
  <2>2. \E x \in SiteOptions(v) : \A y \in SiteOptions(v) : x <= y
    BY <2>1
  <2>. QED
    BY <2>2, Zenon DEF Min
<1>. QED
  BY <1>1, <1>3 DEF SelectedSite, DashboardSite

\* What is due was loaded, and all of it that was loaded if the rows have no site.
LEMMA DueRows ==
  ASSUME NEW s \in Screens, NEW v \in Viewers, NEW due, due = Due(s, v),
         Gate(v) \/ (s \in Widgets /\ v.super)
  PROVE  /\ Loaded(s, due) = due
         /\ ~IsSited(s) => due = Loaded(s, rows)
         /\ IsSited(s) => \A site \in SiteOptions(v) :
              OfSite(due, site) = OfSite(Loaded(s, rows), site)
<1>1. due = {w \in Loaded(s, rows) : IsSited(s) => v.super \/ w.site \in v.sites}
  BY DEF Due, Loaded
<1>2. Loaded(s, due) = due
  BY <1>1 DEF Loaded
<1>3. ~IsSited(s) => due = Loaded(s, rows)
  BY <1>1
<1>4. ASSUME NEW site \in SiteOptions(v)
      PROVE  OfSite(due, site) = OfSite(Loaded(s, rows), site)
  BY <1>1, <1>4 DEF SiteOptions, OfSite
<1>. QED
  BY <1>2, <1>3, <1>4

\* How the screens and their exports are set up.
LEMMA SetUpAlike ==
  ASSUME NEW s \in DOMAIN Exports
  PROVE  /\ s \in DOMAIN Views /\ s \notin Widgets /\ s \in Screens
         /\ Exports[s].own \in {"any", "caller", "assigned"}
         /\ Exports[s].own = "any" <=> ~Views[s].sited
         /\ Views[s].odd = "none" <=> Exports[s].odd = "none"
         /\ Views[s].odd = "kept" => Exports[s].odd = "kept"
         /\ Exports[s].odd = "refused" => Views[s].odd = "dropped"
         /\ Exports[s].bounded => Views[s].part
         /\ Views[s].odd \in {"none", "dropped", "kept"}
<1>. USE DEF TrafficView, SatisfactionView, DownloadView, AccessibilityView, DiagnosisView,
       ErrorView, AccessHistoryView, CodeSpecView, MetaView, CheckStatsView, SelfCheckView,
       TableView, OrgChartView, PolicyView, TrafficExport, SatisfactionExport, DownloadExport,
       AccessibilityExport, DiagnosisExport, ErrorExport, AccessHistoryExport, CodeSpecExport,
       MetaExport, CheckStatsExport, SelfCheckExport, TableExport
<1>1. s \in {"traffic", "satisfaction", "downloads", "accessibility", "diagnosis", "errors",
             "accessHistory", "codeSpec", "meta", "checkStats", "selfCheck", "tables"}
  BY DEF Exports
<1>2. s \in DOMAIN Views /\ s \notin Widgets /\ s \in Screens
  BY <1>1 DEF Views, Widgets, Screens
<1>3. Exports[s].own \in {"any", "caller", "assigned"}
  BY <1>1 DEF Exports
<1>7. Exports[s].own = "any" <=> ~Views[s].sited
  BY <1>1 DEF Views, Exports
<1>4. /\ Views[s].odd = "none" <=> Exports[s].odd = "none"
      /\ Views[s].odd = "kept" => Exports[s].odd = "kept"
      /\ Exports[s].odd = "refused" => Views[s].odd = "dropped"
  BY <1>1 DEF Views, Exports
<1>5. Exports[s].bounded => Views[s].part
  BY <1>1 DEF Views, Exports
<1>6. Views[s].odd \in {"none", "dropped", "kept"}
  BY <1>1 DEF Views
<1>. QED
  BY <1>2, <1>3, <1>4, <1>5, <1>6, <1>7

\* The rows of a view and of an export are the same when only those due exist.
LEMMA ViewIsBlind ==
  ASSUME ReportInv, NEW s \in DOMAIN Views, NEW v \in Viewers, NEW a \in Asked
  PROVE  View(s, v, rows, a) = View(s, v, Due(s, v), a)
<1>. DEFINE due == Due(s, v)
<1>1. IsSited(s) = Views[s].sited /\ s \in Screens
  BY DEF IsSited, Screens
<1>2. CASE ~Gate(v) \/ (Views[s].sited /\ SiteOptions(v) = {})
  BY <1>2 DEF View
<1>3. CASE Gate(v) /\ ~(Views[s].sited /\ SiteOptions(v) = {})
  <2>1. ViewRows(s, v, rows, a) = ViewRows(s, v, due, a)
    <3>1. CASE Views[s].sited
      <4>1. SelectedSite(v, a.site) \in SiteOptions(v)
        BY <1>3, <3>1, PickedSite
      <4>2. OfSite(Loaded(s, due), SelectedSite(v, a.site))
              = OfSite(Loaded(s, rows), SelectedSite(v, a.site))
        BY <1>1, <1>3, <3>1, <4>1, DueRows
      <4>. QED
        BY <3>1, <4>2 DEF ViewRows
    <3>2. CASE ~Views[s].sited
      <4>1. Loaded(s, due) = Loaded(s, rows)
        BY <1>1, <1>3, <3>2, DueRows
      <4>. QED
        BY <3>2, <4>1 DEF ViewRows
    <3>. QED
      BY <3>1, <3>2
  <2>. QED
    BY <2>1 DEF View
<1>. QED
  BY <1>2, <1>3

\* An export says the same of all rows as of the rows its viewer may be told of
\* (exportStats).
LEMMA ExportIsBlind ==
  ASSUME ReportInv, NEW s \in DOMAIN Exports, NEW v \in Viewers, NEW a \in Asked
  PROVE  Export(s, v, rows, a) = Export(s, v, Due(s, v), a)
<1>. DEFINE due == Due(s, v)
<1>1. IsSited(s) = Views[s].sited /\ s \in Screens
  BY SetUpAlike DEF IsSited
<1>2. CASE ~Gate(v)
  BY <1>2 DEF Export
<1>3. CASE Gate(v)
  <2>1. OwnRows(s, v, a.site, Loaded(s, rows)) = OwnRows(s, v, a.site, Loaded(s, due))
    <3>0. Loaded(s, due) = due /\ (~IsSited(s) => due = Loaded(s, rows))
          /\ (IsSited(s) => \A site \in SiteOptions(v) :
                OfSite(due, site) = OfSite(Loaded(s, rows), site))
      BY <1>1, <1>3, DueRows
    <3>1. CASE Exports[s].own = "any"
      <4>1. ~IsSited(s)
        BY <1>1, <3>1, SetUpAlike
      <4>. QED
        BY <3>0, <3>1, <4>1 DEF OwnRows
    <3>2. CASE Exports[s].own # "any" /\ a.site \in SiteOptions(v)
      <4>1. OfSite(due, a.site) = OfSite(Loaded(s, rows), a.site)
        BY <1>1, <3>0, <3>2, SetUpAlike
      <4>. QED
        BY <3>0, <3>2, <4>1 DEF OwnRows
    <3>3. CASE Exports[s].own # "any" /\ a.site \notin SiteOptions(v)
      <4>1. ASSUME NEW d \in SUBSET rows PROVE OwnRows(s, v, a.site, d) = {}
        <5>1. \A w \in d : w.site \in Tenants
          BY DEF ReportInv, ReportTypeOK, Row
        <5>2. OfSite(d, a.site) = {} \/ (~v.super /\ a.site \notin v.sites)
          <6>1. CASE v.super
            <7>1. a.site \notin Tenants
              BY <3>3, <6>1 DEF SiteOptions
            <7>2. \A w \in d : w.site # a.site
              BY <5>1, <7>1
            <7>. QED
              BY <7>2 DEF OfSite
          <6>2. CASE ~v.super
            BY <3>3, <6>2 DEF SiteOptions
          <6>. QED
            BY <6>1, <6>2
        <5>3. \A w \in OfSite(d, a.site) : w.site = a.site
          BY DEF OfSite
        <5>. QED
          BY <3>3, <5>2, <5>3 DEF OwnRows
      <4>2. Loaded(s, rows) \subseteq rows /\ due \subseteq rows
        BY DEF Loaded, Due
      <4>. QED
        BY <3>0, <4>1, <4>2
    <3>. QED
      BY <3>1, <3>2, <3>3, SetUpAlike
  <2>. QED
    BY <2>1 DEF Export
<1>. QED
  BY <1>2, <1>3

\* A widget picks a site of its caller, or shows rows that have none.
LEMMA WidgetIsBlind ==
  ASSUME ReportInv, NEW s \in Widgets, NEW v \in Viewers, NEW a \in Asked
  PROVE  Widget(s, v, rows, a) = Widget(s, v, Due(s, v), a)
<1>. DEFINE due == Due(s, v)
            site == DashboardSite(v, a.site, NoSite, Max(Tenants))
<1>1. s \in Screens /\ s \notin DOMAIN Views
  BY DEF Screens, Widgets, Views
<1>2. IsSited(s) = (s # "errorsWidget")
  BY <1>1 DEF IsSited
<1>3. CASE SiteOptions(v) = {} \/ ~WidgetVisible(v)
  BY <1>3 DEF Widget
<1>4. CASE SiteOptions(v) # {} /\ WidgetVisible(v)
  <2>1. /\ Loaded(s, due) = due
        /\ ~IsSited(s) => due = Loaded(s, rows)
        /\ IsSited(s) => \A x \in SiteOptions(v) : OfSite(due, x) = OfSite(Loaded(s, rows), x)
    BY <1>1, <1>4, DueRows DEF WidgetVisible
  <2>2. site \in SiteOptions(v)
    BY <1>4, PickedSite
  <2>. HIDE DEF site
  <2>3. (IF s = "errorsWidget" THEN Loaded(s, rows) ELSE OfSite(Loaded(s, rows), site))
          = (IF s = "errorsWidget" THEN Loaded(s, due) ELSE OfSite(Loaded(s, due), site))
    BY <1>2, <2>1, <2>2
  <2>. QED
    BY <1>4, <2>3 DEF Widget, site
<1>. QED
  BY <1>3, <1>4

\* A document that its reader may not see cannot be told from one that is not there.
LEMMA DocumentIsBlind ==
  ASSUME ReportInv, NEW s \in Documents, NEW v \in Viewers, NEW n
  PROVE  Document(v, rows, n) = Document(v, Due(s, v), n)
<1>. DEFINE due == Due(s, v)
            mine(d) == \E w \in d : w.n = n /\ Readable(v, w)
<1>1. s \notin DOMAIN Views /\ s \notin Widgets /\ s # "errorsWidget"
      /\ s \notin {"downloads", "postsWidget"}
  BY DEF Documents, Widgets, Views
<1>2. due = {w \in rows : Readable(v, w)}
  BY <1>1 DEF Due, IsSited, Loaded, Readable
<1>. HIDE DEF due
<1>3. mine(rows) <=> mine(due)
  BY <1>2
<1>4. CASE ~mine(rows)
  BY <1>3, <1>4 DEF Document, FindAccessibleDoc, due
<1>5. CASE mine(rows)
  <2>1. PICK w \in rows : w.n = n /\ Readable(v, w)
    BY <1>5
  <2>2. {x \in rows : x.n = n} = {w} /\ {x \in due : x.n = n} = {w}
    BY <1>2, <2>1 DEF ReportInv, RowsNumbered
  <2>3. (CHOOSE x \in rows : x.n = n) = w /\ (CHOOSE x \in due : x.n = n) = w
    BY <2>2
  <2>4. FindAccessibleDoc(v, rows, n) = w /\ FindAccessibleDoc(v, due, n) = w
    BY <1>3, <1>5, <2>3 DEF FindAccessibleDoc
  <2>. QED
    BY <2>4 DEF Document, due
<1>. QED
  BY <1>4, <1>5

\* No screen, export or document tells its caller anything about rows beyond the
\* caller's grant and sites: every answer is the one that would be given if those
\* rows did not exist (the site checks of the loads and exports).
THEOREM BlindToTheRestHolds == ReportSpec => []BlindToTheRest
<1>1. ReportInv => BlindToTheRest
  <2>. SUFFICES ASSUME ReportInv PROVE BlindToTheRest
    OBVIOUS
  <2>1. screen \in Screens /\ viewer \in Viewers
    BY DEF ReportInv, ReportTypeOK
  <2>. QED
    BY <2>1, ViewIsBlind, ExportIsBlind, WidgetIsBlind, DocumentIsBlind DEF BlindToTheRest
<1>. QED
  BY <1>1, ReportInvHolds, PTL

\* What the link of a page asks for lets through what the page's own filter does.
LEMMA LinkFilters ==
  ASSUME NEW s \in DOMAIN Exports, NEW f \in Filters, NEW d
  PROVE  /\ Exports[s].odd = "refused" => LinkFilter(s, f) # Odd
         /\ Through(LinkFilter(s, f), Exports[s].odd, d) = Through(LinkFilter(s, f), Views[s].odd, d)
<1>1. /\ Views[s].odd = "none" <=> Exports[s].odd = "none"
      /\ Views[s].odd = "kept" => Exports[s].odd = "kept"
      /\ Exports[s].odd = "refused" => Views[s].odd = "dropped"
      /\ Views[s].odd \in {"none", "dropped", "kept"}
  BY SetUpAlike
<1>2. All # Odd
  BY ReportsAssumption
<1>3. CASE Views[s].odd = "none"
  BY <1>1, <1>2, <1>3 DEF LinkFilter, Through
<1>4. CASE Views[s].odd = "dropped"
  <2>1. LinkFilter(s, f) # Odd
    BY <1>2, <1>4 DEF LinkFilter
  <2>. QED
    BY <1>1, <1>4, <2>1 DEF Through
<1>5. CASE Views[s].odd = "kept"
  BY <1>1, <1>5 DEF Through
<1>. QED
  BY <1>1, <1>3, <1>4, <1>5

\* The file behind a page's link has the rows of the page: all of them for a screen
\* that shows everything it loads, and at least the rows of every page a bounded
\* file reaches ("so the view and CSV never diverge").
THEOREM LinkAnswersAlikeHolds == ReportSpec => []LinkAnswersAlike
<1>1. ASSUME ReportInv, NEW s \in DOMAIN Exports, NEW v \in Viewers, NEW a \in Asked,
             View(s, v, rows, a).kind = "ok"
      PROVE  LET shown == View(s, v, rows, a)
                 file == Export(s, v, rows, Link(s, v, a))
             IN  /\ file.kind = "ok"
                 /\ IF ~Views[s].part THEN file.rows = shown.rows
                    ELSE a.page * PageSize <= FileSize => shown.rows \subseteq file.rows
  <2>. DEFINE seen == ViewRows(s, v, rows, a)
              link == Link(s, v, a)
              site == SelectedSite(v, a.site)
              own == OwnRows(s, v, link.site, Loaded(s, rows))
  <2>1. Gate(v) /\ ~(Views[s].sited /\ SiteOptions(v) = {})
    BY <1>1 DEF View, Refused
  <2>2. a.filter \in Filters /\ a.page \in 1..MaxRows
    BY DEF Asked
  <2>3. link.filter = LinkFilter(s, a.filter)
        /\ link.site = IF Views[s].sited THEN site ELSE NoSite
    BY DEF Link
  <2>4. Views[s].sited => site \in SiteOptions(v) /\ site \in Tenants /\ site # NoSite
    BY <2>1, PickedSite, ReportsAssumption
  <2>5. own = IF Views[s].sited THEN OfSite(Loaded(s, rows), site) ELSE Loaded(s, rows)
    <3>1. CASE ~Views[s].sited
      BY <3>1, SetUpAlike DEF OwnRows
    <3>2. CASE Views[s].sited
      <4>1. link.site = site /\ (v.super \/ site \in v.sites)
            /\ Exports[s].own \in {"caller", "assigned"}
        BY <2>3, <2>4, <3>2, SetUpAlike DEF SiteOptions
      <4>. HIDE DEF site, link
      <4>2. {w \in OfSite(Loaded(s, rows), site) : v.super \/ w.site \in v.sites}
              = OfSite(Loaded(s, rows), site)
        BY <4>1 DEF OfSite
      <4>. QED
        BY <3>2, <4>1, <4>2 DEF OwnRows
    <3>. QED
      BY <3>1, <3>2
  <2>6. Through(link.filter, Exports[s].odd, own) = seen
    BY <2>2, <2>3, <2>5, LinkFilters DEF ViewRows
  <2>7. ~(Exports[s].own # "any" /\ link.site = NoSite)
        /\ ~(Exports[s].odd = "refused" /\ link.filter = Odd)
    BY <2>2, <2>3, <2>4, SetUpAlike, LinkFilters
  <2>8. Export(s, v, rows, link) =
          IF Exports[s].bounded THEN Shown(NewestOf(seen, FileSize)) ELSE Shown(seen)
    BY <2>1, <2>6, <2>7 DEF Export
  <2>9. View(s, v, rows, a) = IF Views[s].part THEN Shown(PageOf(seen, a.page)) ELSE Shown(seen)
    BY <2>1 DEF View
  <2>10. PageOf(seen, a.page) \subseteq seen
    BY DEF PageOf
  <2>11. a.page * PageSize <= FileSize => PageOf(seen, a.page) \subseteq NewestOf(seen, FileSize)
    <3>1. a.page * PageSize \in Nat /\ (a.page - 1) * PageSize \in Int /\ FileSize \in Nat
      BY <2>2, ReportsAssumption
    <3>. DEFINE last == a.page * PageSize
                first == (a.page - 1) * PageSize + 1
    <3>2. \A k \in first..last : last <= FileSize => k <= FileSize
      <4>1. last \in Int /\ first \in Int /\ FileSize \in Int
        BY <3>1
      <4>. HIDE DEF first, last
      <4>. QED
        BY <4>1
    <3>. QED
      BY <3>2 DEF PageOf, NewestOf
  <2>. HIDE DEF seen, link, own, site
  <2>12. Exports[s].bounded => Views[s].part
    BY SetUpAlike
  <2>. QED
    BY <2>8, <2>9, <2>10, <2>11, <2>12 DEF Shown, link
<1>2. ReportInv => LinkAnswersAlike
  <2>1. ReportInv => viewer \in Viewers
    BY DEF ReportInv, ReportTypeOK
  <2>. QED
    BY <1>1, <2>1 DEF LinkAnswersAlike
<1>. QED
  BY <1>2, ReportInvHolds, PTL

-----------------------------------------------------------------------------
(* The lists of a board.  A page is a stretch of places, and a post moves to *)
(* a later place or stays as long as none leaves the list: what a reader has *)
(* still to see lies behind the page under view.                             *)

\* The counts of a board, for the arithmetic below.
LEMMA ListCounts == ListCount \in Nat /\ ListCount # 0 /\ LastPost \in Nat
<1>1. ListCount \in Nat \ {0} /\ LastPost \in Nat
  BY ListAssumption, Zenon
<1>. QED
  BY <1>1

\* Two numbers, and one within bounds.
LEMMA MinOfTwo ==
  ASSUME NEW a \in Nat, NEW b \in Nat
  PROVE  Min({a, b}) = IF a <= b THEN a ELSE b
<1>. DEFINE m == IF a <= b THEN a ELSE b
<1>1. m \in {a, b} /\ \A y \in {a, b} : m <= y
  OBVIOUS
<1>2. \A x \in {a, b} : (\A y \in {a, b} : x <= y) => x = m
  OBVIOUS
<1>. HIDE DEF m
<1>3. (CHOOSE x \in {a, b} : \A y \in {a, b} : x <= y) = m
  BY <1>1, <1>2
<1>4. Min({a, b}) = m
  BY <1>3, Zenon DEF Min
<1>. QED
  BY <1>4 DEF m

\* Products, for places and pages.
LEMMA Products ==
  ASSUME NEW a \in Nat, NEW b \in Nat, NEW c \in Nat \ {0}
  PROVE  /\ a * c \in Nat /\ (a + 1) * c = a * c + c /\ a <= a * c
         /\ a < b => a * c + c <= b * c
         /\ a * c < b * c => a < b
OBVIOUS

\* The places of a finite set are the numbers up to its size, each of one element.
LEMMA PlacesAre ==
  ASSUME NEW S \in SUBSET Nat, IsFiniteSet(S)
  PROVE  /\ Cardinality(S) \in Nat
         /\ \A n \in S : Place(S, n) \in 1..Cardinality(S)
         /\ \A m, n \in S : Place(S, m) = Place(S, n) => m = n
         /\ \A i \in 1..Cardinality(S) : \E n \in S : Place(S, n) = i
<1>. DEFINE upTo(n) == {k \in S : IF oldestFirst THEN k <= n ELSE k >= n}
<1>0. Cardinality(S) \in Nat
  BY FS_CardinalityType
<1>1. \A n \in S : /\ IsFiniteSet(upTo(n)) /\ Place(S, n) = Cardinality(upTo(n))
                   /\ Cardinality(upTo(n)) \in Nat /\ Cardinality(upTo(n)) <= Cardinality(S)
  BY FS_Subset, FS_CardinalityType DEF Place
<1>2. ASSUME NEW n \in S PROVE Place(S, n) \in 1..Cardinality(S)
  <2>1. n \in upTo(n)
    OBVIOUS
  <2>2. Cardinality(upTo(n)) # 0
    BY <1>1, <2>1, FS_EmptySet
  <2>. QED
    BY <1>0, <1>1, <2>2
<1>3. ASSUME NEW m \in S, NEW n \in S, Place(S, m) = Place(S, n) PROVE m = n
  <2>1. upTo(m) \subseteq upTo(n) \/ upTo(n) \subseteq upTo(m)
    <3>1. ASSUME NEW x \in S, NEW y \in S, IF oldestFirst THEN x <= y ELSE x >= y
          PROVE  upTo(x) \subseteq upTo(y)
      <4>. SUFFICES ASSUME NEW k \in upTo(x) PROVE k \in upTo(y)
        OBVIOUS
      <4>1. k \in Nat /\ x \in Nat /\ y \in Nat /\ k \in S
        OBVIOUS
      <4>. QED
        BY <3>1, <4>1
    <3>2. m <= n \/ n <= m
      OBVIOUS
    <3>. QED
      BY <3>1, <3>2
  <2>2. upTo(m) = upTo(n)
    BY <1>1, <1>3, <2>1, FS_Subset
  <2>3. m \in upTo(n) /\ n \in upTo(m)
    BY <2>2
  <2>. QED
    BY <2>3
<1>4. ASSUME NEW i \in 1..Cardinality(S) PROVE \E n \in S : Place(S, n) = i
  <2>. DEFINE f == [n \in S |-> Place(S, n)]
              T == 1..Cardinality(S)
  <2>1. f \in [S -> T]
    BY <1>2
  <2>2. IsInjective(f)
    BY <1>3 DEF IsInjective
  <2>3. f \in Injection(S, T)
    BY <2>1, <2>2 DEF Injection
  <2>4. IsFiniteSet(T) /\ Cardinality(T) = Cardinality(S)
    BY <1>0, FS_Interval
  <2>. HIDE DEF f, T
  <2>5. f \in Surjection(S, T)
    BY <2>3, <2>4, FS_Injection
  <2>6. \A t \in T : \E n \in S : f[n] = t
    BY <2>5 DEF Surjection
  <2>. QED
    BY <2>6 DEF f, T
<1>. QED
  BY <1>0, <1>2, <1>3, <1>4

\* A post does not move up as long as no other leaves.
LEMMA PlaceGrows ==
  ASSUME NEW S, NEW T, S \subseteq T, IsFiniteSet(T), NEW n
  PROVE  Place(S, n) \in Nat /\ Place(T, n) \in Nat /\ Place(S, n) <= Place(T, n)
<1>. DEFINE s == {k \in S : IF oldestFirst THEN k <= n ELSE k >= n}
            t == {k \in T : IF oldestFirst THEN k <= n ELSE k >= n}
<1>1. s \subseteq t /\ t \subseteq T
  OBVIOUS
<1>2. IsFiniteSet(t) /\ IsFiniteSet(s) /\ Cardinality(s) <= Cardinality(t)
      /\ Cardinality(s) \in Nat /\ Cardinality(t) \in Nat
  BY <1>1, FS_Subset, FS_CardinalityType
<1>. QED
  BY <1>2 DEF Place

\* A slice has the posts at its places.
LEMMA SliceIs ==
  ASSUME NEW table, NEW q, Hits(table, q) \subseteq Nat, IsFiniteSet(Hits(table, q)),
         NEW nth \in Nat \ {0}
  PROVE  /\ Len(Listing(table, q)) = Cardinality(Hits(table, q))
         /\ ToSet(Slice(Listing(table, q), nth)) =
              {n \in Hits(table, q) :
                 Place(Hits(table, q), n) \in ((nth - 1) * ListCount + 1)..(nth * ListCount)}
<1>. DEFINE S == Hits(table, q)
            list == Listing(table, q)
            size == Cardinality(S)
            low == (nth - 1) * ListCount + 1
            high == nth * ListCount
            cut == Slice(list, nth)
<1>1. /\ size \in Nat
      /\ \A n \in S : Place(S, n) \in 1..size
      /\ \A m, n \in S : Place(S, m) = Place(S, n) => m = n
      /\ \A i \in 1..size : \E n \in S : Place(S, n) = i
  BY PlacesAre
<1>2. list = [i \in 1..size |-> CHOOSE n \in S : Place(S, n) = i]
  BY DEF Listing
<1>3. low \in Nat \ {0} /\ high \in Nat
  <2>1. nth - 1 \in Nat /\ ListCount \in Nat \ {0}
    BY ListCounts
  <2>2. (nth - 1) * ListCount \in Nat /\ nth * ListCount \in Nat
    BY <2>1, Products
  <2>. QED
    BY <2>2
<1>. HIDE DEF S, size, low, high, list
<1>4. \A i \in 1..size : list[i] \in S /\ Place(S, list[i]) = i
  BY <1>1, <1>2
<1>5. list \in Seq(S) /\ Len(list) = size
  BY <1>1, <1>2, <1>4
<1>6. Min({high, size}) = IF high <= size THEN high ELSE size
  BY <1>1, <1>3, MinOfTwo
<1>. DEFINE end == IF high <= size THEN high ELSE size
<1>7. cut = SubSeq(list, low, end)
  BY <1>5, <1>6 DEF Slice, low, high
<1>8. end \in Nat /\ end <= size /\ end <= high /\ (end = high \/ end = size)
  BY <1>1, <1>3
<1>. HIDE DEF end, cut
<1>9. /\ DOMAIN cut = 1..(IF low <= end THEN end - low + 1 ELSE 0)
      /\ \A i \in 1..(end - low + 1) : cut[i] = list[low + i - 1]
  BY <1>3, <1>5, <1>7, <1>8
<1>10. ToSet(cut) = {cut[i] : i \in DOMAIN cut}
  BY DEF ToSet
<1>11. ASSUME NEW i \in DOMAIN cut
       PROVE  cut[i] \in S /\ Place(S, cut[i]) \in low..high
  <2>1. i \in 1..(end - low + 1) /\ low + i - 1 \in low..end /\ low + i - 1 \in 1..size
    BY <1>1, <1>3, <1>8, <1>9
  <2>2. cut[i] = list[low + i - 1]
    BY <1>9, <2>1
  <2>. QED
    BY <1>3, <1>4, <1>8, <2>1, <2>2
<1>12. ASSUME NEW n \in S, Place(S, n) \in low..high PROVE n \in ToSet(cut)
  <2>. DEFINE i == Place(S, n) - low + 1
  <2>1. Place(S, n) \in low..end /\ Place(S, n) \in 1..size
    BY <1>1, <1>3, <1>8, <1>12
  <2>2. i \in DOMAIN cut /\ i \in 1..(end - low + 1) /\ low + i - 1 = Place(S, n)
    BY <1>3, <1>8, <1>9, <2>1
  <2>3. list[Place(S, n)] = n
    BY <1>1, <1>4, <2>1
  <2>4. cut[i] = n
    BY <1>9, <2>2, <2>3
  <2>. QED
    BY <1>10, <2>2, <2>4
<1>13. ToSet(cut) = {n \in S : Place(S, n) \in low..high}
  BY <1>10, <1>11, <1>12
<1>. QED
  BY <1>5, <1>13 DEF S, size, low, high, list, cut

\* The page of a place, and the number of pages.
LEMMA PagesAre ==
  ASSUME NEW total \in 0..LastPost
  PROVE  /\ TotalPages(total) \in 1..(LastPost + 1)
         /\ total <= TotalPages(total) * ListCount
         /\ \A x \in 1..total : \E p \in 1..TotalPages(total) :
              /\ x \in ((p - 1) * ListCount + 1)..(p * ListCount)
         /\ \A k \in 1..LastPost : k < TotalPages(total) => k * ListCount < total
<1>0. ListCount \in Nat \ {0} /\ LastPost \in Nat /\ total \in Nat /\ total <= LastPost
  BY ListCounts
<1>. DEFINE c == (total + ListCount - 1) \div ListCount
<1>1. c \in Nat /\ c * ListCount <= total + ListCount - 1
      /\ total + ListCount - 1 < c * ListCount + ListCount
  <2>1. total + ListCount - 1 \in Nat
    BY <1>0
  <2>. QED
    BY <1>0, <2>1
<1>. HIDE DEF c
<1>2. total <= c * ListCount /\ c * ListCount \in Nat
  BY <1>0, <1>1
<1>3. c <= LastPost + 1
  <2>1. c = 0 \/ \E d \in Nat : c = d + 1
    BY <1>1
  <2>2. ASSUME NEW d \in Nat, c = d + 1 PROVE d <= total
    <3>1. d * ListCount \in Nat /\ c * ListCount = d * ListCount + ListCount /\ d <= d * ListCount
      BY <1>0, <2>2, Products
    <3>. QED
      BY <1>0, <1>1, <3>1
  <2>. QED
    BY <1>0, <2>1, <2>2
<1>4. TotalPages(total) = IF c < 1 THEN 1 ELSE c
  BY <1>0, <1>1, <1>3 DEF TotalPages, Clamped, c
<1>5. TotalPages(total) \in 1..(LastPost + 1)
  BY <1>0, <1>1, <1>3, <1>4
<1>6. total <= TotalPages(total) * ListCount
  <2>1. CASE c < 1
    BY <1>0, <1>1, <1>2, <1>4, <2>1
  <2>2. CASE ~(c < 1)
    BY <1>2, <1>4, <2>2
  <2>. QED
    BY <2>1, <2>2
<1>7. ASSUME NEW k \in 1..LastPost, k < TotalPages(total) PROVE k * ListCount < total
  <2>1. k < c /\ k \in Nat
    BY <1>0, <1>1, <1>4, <1>7
  <2>2. k * ListCount + ListCount <= c * ListCount /\ k * ListCount \in Nat
    BY <1>0, <1>1, <2>1, Products
  <2>. QED
    BY <1>0, <1>1, <1>2, <2>2
<1>8. ASSUME NEW x \in 1..total
      PROVE  \E p \in 1..TotalPages(total) : x \in ((p - 1) * ListCount + 1)..(p * ListCount)
  <2>. DEFINE e == (x - 1) \div ListCount
  <2>1. e \in Nat /\ e * ListCount <= x - 1 /\ x - 1 < e * ListCount + ListCount
    <3>1. x - 1 \in Nat
      BY <1>0
    <3>. QED
      BY <1>0, <3>1
  <2>. HIDE DEF e
  <2>2. e < TotalPages(total)
    <3>1. e * ListCount \in Nat /\ e * ListCount < TotalPages(total) * ListCount
      BY <1>0, <1>6, <2>1, <1>5, Products
    <3>. QED
      BY <1>0, <1>5, <2>1, <3>1, Products
  <2>3. (e + 1) * ListCount = e * ListCount + ListCount /\ e * ListCount \in Nat
    BY <1>0, <2>1, Products
  <2>4. e + 1 \in 1..TotalPages(total) /\ (e + 1) - 1 = e
    BY <1>5, <2>1, <2>2
  <2>5. x \in (((e + 1) - 1) * ListCount + 1)..((e + 1) * ListCount)
    BY <1>0, <2>1, <2>3, <2>4
  <2>. QED
    BY <2>4, <2>5
<1>. QED
  BY <1>5, <1>6, <1>7, <1>8

ReaderRecord ==
  [query: Queries \cup {NoSearch}, page: Nat, seen: SUBSET Nat, all: SUBSET Nat, end: BOOLEAN]

\* Posts are numbered as they are written.
PostsTyped == newest \in 0..LastPost /\ DOMAIN posts \subseteq 1..newest /\ \A n \in DOMAIN posts : posts[n] \in Post

\* What is in the list and not seen lies behind the page under view, and there is
\* a page behind it unless the reader is at the end.
StillToSee ==
  /\ \A n \in reader.all :
       \/ n \in reader.seen
       \/ ~reader.end /\ reader.page * ListCount < Place(Matching(posts), n)
  /\ ~reader.end => reader.page < TotalPages(Cardinality(Matching(posts)))

ListInv ==
  /\ PostsTyped /\ reader \in ReaderRecord
  /\ reader.all \subseteq Matching(posts)
  /\ reader.page \in 0..TotalPages(LastPost)
  /\ reader.page = 0 => ~reader.end
  /\ reader.page > 0 /\ ~left => StillToSee

\* The posts found are finitely many.
LEMMA HitsAre ==
  ASSUME NEW table, NEW q, NEW m \in 0..LastPost, DOMAIN table \subseteq 1..m
  PROVE  /\ Hits(table, q) \subseteq 1..m /\ Hits(table, q) \in SUBSET Nat
         /\ IsFiniteSet(Hits(table, q)) /\ Cardinality(Hits(table, q)) \in 0..LastPost
<1>1. Hits(table, q) \subseteq 1..m
  BY DEF Hits
<1>2. m \in Nat /\ m <= LastPost /\ IsFiniteSet(1..m) /\ Cardinality(1..m) = m
  BY ListCounts, FS_Interval
<1>3. IsFiniteSet(Hits(table, q)) /\ Cardinality(Hits(table, q)) <= m
  BY <1>1, <1>2, FS_Subset
<1>4. Cardinality(Hits(table, q)) \in Nat
  BY <1>3, FS_CardinalityType
<1>. QED
  BY <1>1, <1>2, <1>3, <1>4, ListCounts

\* More posts have no fewer pages.
LEMMA PagesGrow ==
  ASSUME NEW a \in 0..LastPost, NEW b \in 0..LastPost, a <= b
  PROVE  TotalPages(a) <= TotalPages(b)
<1>0. /\ TotalPages(a) \in 1..(LastPost + 1) /\ TotalPages(b) \in 1..(LastPost + 1)
      /\ b <= TotalPages(b) * ListCount
      /\ \A k \in 1..LastPost : k < TotalPages(a) => k * ListCount < a
      /\ ListCount \in Nat \ {0} /\ LastPost \in Nat
  BY PagesAre, ListCounts
<1>. DEFINE k == TotalPages(b)
<1>1. ASSUME k < TotalPages(a) PROVE FALSE
  <2>1. k \in 1..LastPost
    BY <1>0, <1>1
  <2>2. k * ListCount < a /\ k * ListCount \in Nat
    BY <1>0, <1>1, <2>1, Products
  <2>. HIDE DEF k
  <2>. QED
    BY <1>0, <2>2 DEF k
<1>. QED
  BY <1>0, <1>1

\* A change of the posts: what is still to see stays so, unless a post left.
LEMMA ChangedKeeps ==
  ASSUME ListInv, NEW table, Changed(table), newest' \in 0..LastPost,
         DOMAIN table \subseteq 1..newest', \A n \in DOMAIN table : table[n] \in Post,
         UNCHANGED oldestFirst
  PROVE  ListInv'
<1>. DEFINE old == Matching(posts)
            new == Matching(table)
<1>1. posts' = table /\ reader' = [reader EXCEPT !.all = reader.all \cap new]
      /\ left' = (left \/ (reader.page > 0 /\ ~(old \subseteq new)))
  BY DEF Changed
<1>2. /\ reader' \in ReaderRecord /\ reader'.query = reader.query /\ reader'.page = reader.page
      /\ reader'.seen = reader.seen /\ reader'.end = reader.end
      /\ reader'.all = reader.all \cap new
  BY <1>1 DEF ListInv, ReaderRecord
<1>3. PostsTyped'
  BY <1>1 DEF PostsTyped
<1>4. Matching(posts)' = new
  BY <1>1, <1>2 DEF Matching
<1>5. reader'.page = 0 => ~reader'.end
  BY <1>2 DEF ListInv
<1>6. ASSUME reader.page > 0, ~left, old \subseteq new PROVE StillToSee'
  <2>0. new \in SUBSET Nat /\ IsFiniteSet(new) /\ Cardinality(new) \in 0..LastPost
        /\ old \in SUBSET Nat /\ IsFiniteSet(old) /\ Cardinality(old) \in 0..LastPost
    BY HitsAre DEF Matching, ListInv, PostsTyped
  <2>1. StillToSee
    BY <1>6 DEF ListInv
  <2>2. Cardinality(old) <= Cardinality(new)
    BY <1>6, <2>0, FS_Subset
  <2>3. /\ TotalPages(Cardinality(old)) <= TotalPages(Cardinality(new))
        /\ TotalPages(Cardinality(old)) \in Nat /\ TotalPages(Cardinality(new)) \in Nat
    BY <2>0, <2>2, PagesGrow, PagesAre
  <2>4. reader.page \in Nat /\ reader.page * ListCount \in Nat
    BY ListCounts, Products DEF ListInv, ReaderRecord
  <2>5. \A n : Place(old, n) \in Nat /\ Place(new, n) \in Nat /\ Place(old, n) <= Place(new, n)
    BY <1>6, <2>0, PlaceGrows
  <2>6. \A n : Place(Matching(posts), n)' = Place(new, n)
    BY <1>4 DEF Place
  <2>. HIDE DEF old, new
  <2>7. /\ \A n \in reader'.all :
             \/ n \in reader'.seen
             \/ ~reader'.end /\ reader'.page * ListCount < Place(Matching(posts), n)'
        /\ ~reader'.end => reader'.page < TotalPages(Cardinality(new))
    BY <1>2, <2>1, <2>3, <2>4, <2>5, <2>6 DEF StillToSee, old
  <2>8. TotalPages(Cardinality(Matching(posts)))' = TotalPages(Cardinality(new))
    BY <1>4 DEF TotalPages, Clamped
  <2>. QED
    BY <2>7, <2>8 DEF StillToSee
<1>7. reader'.all \subseteq Matching(posts)'
  BY <1>2, <1>4
<1>8. reader'.page \in 0..TotalPages(LastPost) /\ (reader'.page > 0 /\ ~left' => StillToSee')
  BY <1>1, <1>2, <1>6 DEF ListInv
<1>. QED
  BY <1>2, <1>3, <1>5, <1>7, <1>8 DEF ListInv, TotalPages, Clamped

\* A text of a post is one word a field.
LEMMA WritePostKeeps == ListInv /\ WritePost => ListInv'
<1>. SUFFICES ASSUME ListInv, WritePost PROVE ListInv'
  OBVIOUS
<1>1. PICK v \in Words, w \in Words, f \in Searchable \cap TextColumns :
        Changed([n \in DOMAIN posts \cup {newest + 1} |-> IF n \in DOMAIN posts THEN posts[n]
          ELSE [hidden |-> FALSE, notice |-> "no", text |-> [g \in Fields |-> IF g = f THEN w ELSE v]]])
  BY DEF WritePost
<1>. DEFINE post == [hidden |-> FALSE, notice |-> "no", text |-> [g \in Fields |-> IF g = f THEN w ELSE v]]
            table == [n \in DOMAIN posts \cup {newest + 1} |-> IF n \in DOMAIN posts THEN posts[n] ELSE post]
<1>2. newest' = newest + 1 /\ newest < LastPost /\ UNCHANGED oldestFirst /\ LastPost \in Nat
  BY ListCounts DEF WritePost
<1>3. newest' \in 0..LastPost /\ DOMAIN table \subseteq 1..newest'
  BY <1>2 DEF ListInv, PostsTyped
<1>4. post \in Post
  BY DEF Post
<1>. HIDE DEF post
<1>5. \A n \in DOMAIN table : table[n] \in Post
  BY <1>4 DEF ListInv, PostsTyped
<1>6. Changed(table)
  BY <1>1 DEF post
<1>. HIDE DEF table
<1>. QED
  BY <1>2, <1>3, <1>5, <1>6, ChangedKeeps

\* A post removed, edited or turned by the clock keeps the numbers of the others.
LEMMA PostChangesKeep ==
  ListInv /\ (\E n \in 1..LastPost : RemovePost(n) \/ EditPost(n) \/ WindowTurns(n)) => ListInv'
<1>. SUFFICES ASSUME ListInv, NEW n \in 1..LastPost, RemovePost(n) \/ EditPost(n) \/ WindowTurns(n)
              PROVE  ListInv'
  OBVIOUS
<1>1. newest' = newest /\ UNCHANGED oldestFirst /\ newest \in 0..LastPost /\ n \in DOMAIN posts
      /\ DOMAIN posts \subseteq 1..newest /\ \A k \in DOMAIN posts : posts[k] \in Post
  BY DEF RemovePost, EditPost, WindowTurns, ListInv, PostsTyped
<1>2. CASE RemovePost(n)
  <2>. DEFINE table == [k \in DOMAIN posts \ {n} |-> posts[k]]
  <2>1. Changed(table)
    BY <1>2 DEF RemovePost
  <2>2. newest' \in 0..LastPost /\ DOMAIN table \subseteq 1..newest'
    BY <1>1
  <2>3. \A k \in DOMAIN table : table[k] \in Post
    BY <1>1
  <2>. HIDE DEF table
  <2>. QED
    BY <1>1, <2>1, <2>2, <2>3, ChangedKeeps
<1>3. ASSUME NEW p \in Post, Changed([posts EXCEPT ![n] = p]) PROVE ListInv'
  <2>. DEFINE table == [posts EXCEPT ![n] = p]
  <2>1. newest' \in 0..LastPost /\ DOMAIN table \subseteq 1..newest'
    BY <1>1
  <2>2. \A k \in DOMAIN table : table[k] \in Post
    BY <1>1
  <2>3. Changed(table)
    BY <1>3
  <2>. HIDE DEF table
  <2>. QED
    BY <1>1, <2>1, <2>2, <2>3, ChangedKeeps
<1>4. posts[n] \in Post
  BY <1>1
<1>5. CASE EditPost(n)
  <2>1. PICK p \in {[posts[n] EXCEPT !.hidden = ~@]}
                   \cup {[posts[n] EXCEPT !.notice = w] : w \in {"no", "open", "shut"}} :
          Changed([posts EXCEPT ![n] = p])
    BY <1>5 DEF EditPost
  <2>2. p \in Post
    BY <1>4 DEF Post
  <2>. QED
    BY <1>3, <2>1, <2>2
<1>6. CASE WindowTurns(n)
  <2>. DEFINE p == [posts[n] EXCEPT !.notice = IF posts[n].notice = "open" THEN "shut" ELSE "open"]
  <2>1. [posts EXCEPT ![n].notice = IF @ = "open" THEN "shut" ELSE "open"] = [posts EXCEPT ![n] = p]
    BY <1>1
  <2>2. p \in Post
    BY <1>4 DEF Post
  <2>. QED
    BY <1>3, <1>6, <2>1, <2>2 DEF WindowTurns
<1>. QED
  BY <1>2, <1>5, <1>6

\* A reader opens a page no further than the one behind the last.
LEMMA SeeKeeps ==
  ASSUME ListInv, NEW query \in Queries \cup {NoSearch}, NEW nth \in Nat \ {0},
         NEW seen \in SUBSET Nat, NEW all \in SUBSET Nat, See(query, nth, seen, all),
         UNCHANGED <<posts, newest, oldestFirst, left>>, all \subseteq Hits(posts, query),
         ~left => /\ nth <= TotalPages(Cardinality(Hits(posts, query)))
                  /\ \A n \in all : \/ n \in seen
                                    \/ (nth - 1) * ListCount < Place(Hits(posts, query), n)
  PROVE  ListInv'
<1>. DEFINE hits == Hits(posts, query)
            total == Cardinality(hits)
            pages == TotalPages(total)
            cut == Clamped(nth, 1, LastPost + 1)
            shown == ListPage(posts, query, nth)
            at == Clamped(nth, 1, pages)
<1>0. ListCount \in Nat \ {0} /\ LastPost \in Nat
  BY ListCounts
<1>1. /\ hits \in SUBSET Nat /\ IsFiniteSet(hits) /\ total \in 0..LastPost
  BY HitsAre DEF ListInv, PostsTyped
<1>2. pages \in 1..(LastPost + 1) /\ total <= pages * ListCount
  BY <1>1, PagesAre
<1>3. pages <= TotalPages(LastPost) /\ TotalPages(LastPost) \in Nat
  <2>1. LastPost \in 0..LastPost /\ total <= LastPost
    BY <1>0, <1>1
  <2>. QED
    BY <1>1, <2>1, PagesGrow, PagesAre
<1>5. cut \in Nat \ {0} /\ (nth <= LastPost + 1 => cut = nth)
  BY <1>0 DEF Clamped
<1>. HIDE DEF cut
<1>4. Len(Listing(posts, query)) = total
      /\ ToSet(Slice(Listing(posts, query), cut)) =
           {n \in hits : Place(hits, n) \in ((cut - 1) * ListCount + 1)..(cut * ListCount)}
  BY <1>1, <1>5, SliceIs
<1>. DEFINE slice == {n \in hits : Place(hits, n) \in ((cut - 1) * ListCount + 1)..(cut * ListCount)}
<1>6. shown.pager.page = at /\ shown.pager.next = (at < pages) /\ shown.posts = slice
  BY <1>4 DEF ListPage, Pager, cut
<1>7. /\ reader' = [query |-> query, page |-> at, seen |-> seen \cup slice, all |-> all, end |-> ~(at < pages)]
      /\ posts' = posts /\ newest' = newest /\ oldestFirst' = oldestFirst /\ left' = left
  BY <1>6 DEF See
<1>8. at \in 1..pages /\ (nth <= pages => at = nth)
  BY <1>0, <1>2 DEF Clamped
<1>. HIDE DEF slice, at, pages, shown
<1>9. /\ reader'.query = query /\ reader'.page = at /\ reader'.seen = seen \cup slice
      /\ reader'.all = all /\ reader'.end = ~(at < pages)
  BY <1>7
<1>10. reader' \in ReaderRecord
  <2>. DEFINE last == ~(at < pages)
  <2>1. slice \in SUBSET Nat /\ at \in Nat
    BY <1>1, <1>2, <1>8 DEF slice
  <2>2. last \in BOOLEAN
    OBVIOUS
  <2>3. reader' = [query |-> query, page |-> at, seen |-> seen \cup slice, all |-> all, end |-> last]
    BY <1>7
  <2>. HIDE DEF last
  <2>. QED
    BY <2>1, <2>2, <2>3 DEF ReaderRecord
<1>11. Matching(posts)' = hits
  BY <1>7, <1>9 DEF Matching
<1>12. \A n : Place(Matching(posts), n)' = Place(hits, n)
  BY <1>7, <1>11 DEF Place
<1>13. TotalPages(Cardinality(Matching(posts)))' = pages
  BY <1>11 DEF TotalPages, Clamped, pages
<1>14. ASSUME ~left PROVE StillToSee'
  <2>1. nth <= pages /\ at = nth /\ cut = nth
    BY <1>0, <1>2, <1>5, <1>8, <1>14 DEF pages
  <2>2. ASSUME NEW n \in all, n \notin seen \cup slice
        PROVE  at < pages /\ at * ListCount < Place(hits, n)
    <3>1. n \in hits /\ (nth - 1) * ListCount < Place(hits, n)
      BY <1>14, <2>2
    <3>2. Place(hits, n) \in 1..total
      BY <1>1, <3>1, PlacesAre
    <3>3. (nth - 1) * ListCount \in Nat /\ nth * ListCount \in Nat
      <4>1. nth - 1 \in Nat /\ nth \in Nat
        OBVIOUS
      <4>. QED
        BY <1>0, <4>1, Products
    <3>4. nth * ListCount < Place(hits, n)
      BY <1>1, <2>1, <2>2, <3>1, <3>2, <3>3 DEF slice
    <3>5. nth * ListCount < pages * ListCount
      <4>1. pages * ListCount \in Nat
        BY <1>0, <1>2, Products
      <4>2. Place(hits, n) \in Nat /\ total \in Nat /\ Place(hits, n) <= total
        BY <1>1, <3>2
      <4>. HIDE DEF total
      <4>. QED
        BY <1>2, <3>3, <3>4, <4>1, <4>2
    <3>6. nth < pages
      BY <1>0, <1>2, <3>5, Products
    <3>. QED
      BY <2>1, <3>4, <3>6
  <2>. HIDE DEF hits
  <2>3. /\ \A n \in reader'.all :
             \/ n \in reader'.seen
             \/ ~reader'.end /\ reader'.page * ListCount < Place(Matching(posts), n)'
        /\ ~reader'.end => reader'.page < TotalPages(Cardinality(Matching(posts)))'
    BY <1>9, <1>12, <1>13, <2>2
  <2>. QED
    BY <2>3 DEF StillToSee
<1>15. PostsTyped'
  BY <1>7 DEF ListInv, PostsTyped
<1>16. reader'.page \in 0..TotalPages(LastPost) /\ reader'.page # 0
  BY <1>2, <1>3, <1>8, <1>9
<1>17. TotalPages(LastPost)' = TotalPages(LastPost)
  BY DEF TotalPages, Clamped
<1>. HIDE DEF hits
<1>18. reader'.all \subseteq Matching(posts)'
  BY <1>9, <1>11 DEF hits
<1>. QED
  BY <1>7, <1>10, <1>14, <1>15, <1>16, <1>17, <1>18 DEF ListInv

\* The first page, and the next.
LEMMA ReadingKeeps == ListInv /\ (StartReading \/ ReadOn) => ListInv'
<1>. SUFFICES ASSUME ListInv, StartReading \/ ReadOn PROVE ListInv'
  OBVIOUS
<1>0. ListCount \in Nat \ {0} /\ LastPost \in Nat
  BY ListCounts
<1>1. CASE StartReading
  <2>1. PICK q \in Queries : See(q, 1, {}, Hits(posts, q))
    BY <1>1 DEF StartReading
  <2>2. /\ Hits(posts, q) \in SUBSET Nat /\ IsFiniteSet(Hits(posts, q))
        /\ Cardinality(Hits(posts, q)) \in 0..LastPost
    BY HitsAre DEF ListInv, PostsTyped
  <2>3. 1 <= TotalPages(Cardinality(Hits(posts, q)))
    BY <2>2, PagesAre
  <2>4. \A n \in Hits(posts, q) : (1 - 1) * ListCount < Place(Hits(posts, q), n)
    <3>1. (1 - 1) * ListCount = 0
      BY <1>0
    <3>2. \A n \in Hits(posts, q) : Place(Hits(posts, q), n) \in 1..Cardinality(Hits(posts, q))
      BY <2>2, PlacesAre
    <3>. QED
      BY <2>2, <3>1, <3>2
  <2>5. 1 \in Nat \ {0} /\ {} \in SUBSET Nat
    OBVIOUS
  <2>6. UNCHANGED <<posts, newest, oldestFirst, left>>
    BY <1>1 DEF StartReading
  <2>. QED
    BY <2>1, <2>2, <2>3, <2>4, <2>5, <2>6, SeeKeeps
<1>2. CASE ReadOn
  <2>1. /\ reader.page > 0 /\ ~reader.end
        /\ See(reader.query, reader.page + 1, reader.seen, reader.all)
        /\ UNCHANGED <<posts, newest, oldestFirst, left>>
    BY <1>2 DEF ReadOn
  <2>2. /\ reader.query \in Queries \cup {NoSearch} /\ reader.page \in Nat
        /\ reader.seen \in SUBSET Nat /\ reader.all \in SUBSET Nat
        /\ reader.all \subseteq Hits(posts, reader.query)
    BY DEF ListInv, ReaderRecord, Matching
  <2>3. ~left => StillToSee
    BY <2>1, <2>2 DEF ListInv
  <2>4. (reader.page + 1) - 1 = reader.page /\ reader.page + 1 \in Nat \ {0}
    BY <2>2
  <2>5. ~left => /\ reader.page + 1 <= TotalPages(Cardinality(Hits(posts, reader.query)))
                 /\ \A n \in reader.all :
                      \/ n \in reader.seen
                      \/ ((reader.page + 1) - 1) * ListCount < Place(Hits(posts, reader.query), n)
    <3>1. TotalPages(Cardinality(Hits(posts, reader.query))) \in Nat
      BY HitsAre, PagesAre DEF ListInv, PostsTyped
    <3>. QED
      BY <2>1, <2>2, <2>3, <2>4, <3>1 DEF StillToSee, Matching
  <2>. QED
    BY <2>1, <2>2, <2>4, <2>5, SeeKeeps
<1>. QED
  BY <1>1, <1>2

\* The inductive invariant of the lists and their reader.
LEMMA ListInvHolds == ListSpec => []ListInv
<1>1. ListInit => ListInv
  <2>. SUFFICES ASSUME ListInit PROVE ListInv
    OBVIOUS
  <2>1. posts = <<>> /\ DOMAIN posts = {} /\ newest = 0 /\ reader = NoReader
    BY DEF ListInit
  <2>2. PostsTyped
    BY <2>1, ListCounts DEF PostsTyped
  <2>3. reader \in ReaderRecord /\ reader.all = {} /\ reader.page = 0 /\ ~reader.end
    BY <2>1 DEF NoReader, ReaderRecord
  <2>4. TotalPages(LastPost) \in Nat
    <3>1. LastPost \in 0..LastPost
      BY ListCounts
    <3>. QED
      BY <3>1, ListCounts, PagesAre
  <2>. QED
    BY <2>2, <2>3, <2>4 DEF ListInv
<1>2. ListInv /\ [ListNext]_listVars => ListInv'
  <2>. SUFFICES ASSUME ListInv, [ListNext]_listVars PROVE ListInv'
    OBVIOUS
  <2>1. CASE UNCHANGED listVars
    BY <2>1 DEF listVars, ListInv, PostsTyped, StillToSee, Matching, Place, TotalPages, Clamped
  <2>. QED
    BY <2>1, WritePostKeeps, PostChangesKeep, ReadingKeeps DEF ListNext
<1>. QED
  BY <1>1, <1>2, PTL DEF ListSpec

\* A page of the list: the posts at its places, the notices on the first.
LEMMA PageIs ==
  ASSUME ListInv, NEW q \in Queries \cup {NoSearch}, NEW p \in 1..(LastPost + 1)
  PROVE  /\ \A n : n \in ListPage(posts, q, p).posts <=>
                     /\ n \in Hits(posts, q)
                     /\ Place(Hits(posts, q), n) \in ((p - 1) * ListCount + 1)..(p * ListCount)
         /\ p <= TotalPages(Cardinality(Hits(posts, q))) =>
              \A n : n \in ListPage(posts, q, p).notices <=>
                       p = 1 /\ n \in DOMAIN posts /\ Pinned(posts[n])
         /\ ListPage(posts, q, p).notices \subseteq DOMAIN posts
<1>. DEFINE hits == Hits(posts, q)
            total == Cardinality(hits)
            pages == TotalPages(total)
            nth == ListPage(posts, q, p)
<1>0. ListCount \in Nat \ {0} /\ LastPost \in Nat /\ p \in Nat \ {0}
  BY ListCounts
<1>1. /\ hits \in SUBSET Nat /\ IsFiniteSet(hits) /\ total \in 0..LastPost
  BY HitsAre DEF ListInv, PostsTyped
<1>2. pages \in 1..(LastPost + 1)
  BY <1>1, PagesAre
<1>3. Clamped(p, 1, LastPost + 1) = p
  BY <1>0 DEF Clamped
<1>4. Len(Listing(posts, q)) = total
      /\ ToSet(Slice(Listing(posts, q), p)) =
           {n \in hits : Place(hits, n) \in ((p - 1) * ListCount + 1)..(p * ListCount)}
  BY <1>0, <1>1, SliceIs
<1>5. /\ nth.posts = ToSet(Slice(Listing(posts, q), p))
      /\ nth.notices = IF Clamped(p, 1, pages) = 1 THEN {n \in DOMAIN posts : Pinned(posts[n])} ELSE {}
  BY <1>3, <1>4 DEF ListPage, Pager
<1>6. p <= pages => Clamped(p, 1, pages) = p
  BY <1>0, <1>2 DEF Clamped
<1>7. nth.posts = {n \in hits : Place(hits, n) \in ((p - 1) * ListCount + 1)..(p * ListCount)}
  BY <1>4, <1>5
<1>. HIDE DEF hits, total, nth, pages
<1>8. /\ p <= pages => \A n : n \in nth.notices <=> p = 1 /\ n \in DOMAIN posts /\ Pinned(posts[n])
      /\ nth.notices \subseteq DOMAIN posts
  BY <1>5, <1>6
<1>. QED
  BY <1>7, <1>8 DEF hits, total, nth, pages

\* buildPostSearchWhere: a search looks only at the text fields the board marks
\* searchable, so what another field holds makes no difference to it.
LEMMA SearchIsBlind == ListInv => SearchNeverProbes
<1>. SUFFICES ASSUME ListInv, NEW q \in Queries, NEW n \in DOMAIN posts,
                     NEW f \in Fields \ (Searchable \cap TextColumns), NEW w \in Words
              PROVE  /\ Hits([posts EXCEPT ![n].text[f] = w], q) = Hits(posts, q)
                     /\ Exported([posts EXCEPT ![n].text[f] = w], q) = Exported(posts, q)
  BY DEF SearchNeverProbes
<1>. DEFINE other == [posts EXCEPT ![n].text[f] = w]
<1>1. \A k \in DOMAIN posts : posts[k] \in Post
  BY DEF ListInv, PostsTyped
<1>2. f \notin SearchedFields(q) /\ SearchedFields(q) \subseteq Searchable \cap TextColumns
  BY DEF SearchedFields
<1>3. DOMAIN other = DOMAIN posts
  OBVIOUS
<1>4. ASSUME NEW k \in DOMAIN posts
      PROVE  /\ other[k].hidden = posts[k].hidden /\ other[k].notice = posts[k].notice
             /\ \A g \in SearchedFields(q) : other[k].text[g] = posts[k].text[g]
  <2>1. k # n => other[k] = posts[k]
    OBVIOUS
  <2>2. k = n => /\ other[k].hidden = posts[k].hidden /\ other[k].notice = posts[k].notice
                 /\ other[k].text = [posts[k].text EXCEPT ![f] = w]
    BY <1>1 DEF Post
  <2>3. ASSUME NEW g \in SearchedFields(q)
        PROVE  [posts[k].text EXCEPT ![f] = w][g] = posts[k].text[g]
    BY <1>2, <2>3
  <2>. HIDE DEF other
  <2>. QED
    BY <2>1, <2>2, <2>3
<1>. HIDE DEF other
<1>5. \A k \in DOMAIN posts : Regular(other[k]) <=> Regular(posts[k])
  BY <1>4 DEF Regular, Public
<1>6. \A k \in DOMAIN posts : Found(other[k], q) <=> Found(posts[k], q)
  BY <1>4 DEF Found
<1>7. Hits(other, q) = Hits(posts, q) /\ Exported(other, q) = Exported(posts, q)
  BY <1>3, <1>5, <1>6 DEF Hits, Exported
<1>. QED
  BY <1>7 DEF other

\* handleBoardExport takes every post of the board the search finds, so also what
\* a page of the list has.
LEMMA ExportHasThePages == ListInv => ExportCoversList
<1>. SUFFICES ASSUME ListInv, NEW q \in Queries, NEW p \in 1..(LastPost + 1)
              PROVE  /\ ListPage(posts, q, p).posts \subseteq Exported(posts, q)
                     /\ q.word = "" => ListPage(posts, q, p).notices \subseteq Exported(posts, q)
  BY DEF ExportCoversList
<1>1. /\ ListPage(posts, q, p).posts \subseteq Hits(posts, q)
      /\ ListPage(posts, q, p).notices \subseteq DOMAIN posts
  BY PageIs
<1>2. Hits(posts, q) \subseteq Exported(posts, q)
  BY DEF Hits, Exported
<1>3. q.word = "" => Exported(posts, q) = DOMAIN posts
  BY DEF Exported, Found
<1>. QED
  BY <1>1, <1>2, <1>3

\* A place is on one page: the pages are stretches of ListCount places.
LEMMA OnePage ==
  ASSUME NEW a \in Nat \ {0}, NEW b \in Nat \ {0}, NEW x \in Nat,
         x \in ((a - 1) * ListCount + 1)..(a * ListCount),
         x \in ((b - 1) * ListCount + 1)..(b * ListCount)
  PROVE  a = b
<1>0. ListCount \in Nat \ {0}
  BY ListCounts
<1>1. ASSUME NEW c \in Nat \ {0}, NEW d \in Nat \ {0}, c < d,
             x <= c * ListCount, (d - 1) * ListCount + 1 <= x
      PROVE  FALSE
  <2>1. d - 1 \in Nat /\ c \in Nat
    OBVIOUS
  <2>2. c = d - 1 \/ c < d - 1
    BY <1>1
  <2>3. c * ListCount \in Nat /\ (d - 1) * ListCount \in Nat
        /\ (c < d - 1 => c * ListCount + ListCount <= (d - 1) * ListCount)
    BY <1>0, <2>1, Products
  <2>4. c * ListCount <= (d - 1) * ListCount
    BY <1>0, <2>2, <2>3
  <2>. QED
    BY <1>1, <2>3, <2>4
<1>2. (a - 1) * ListCount \in Nat /\ a * ListCount \in Nat
      /\ (b - 1) * ListCount \in Nat /\ b * ListCount \in Nat
  <2>1. a - 1 \in Nat /\ b - 1 \in Nat /\ a \in Nat /\ b \in Nat
    OBVIOUS
  <2>. QED
    BY <1>0, <2>1, Products
<1>3. x <= a * ListCount /\ (a - 1) * ListCount + 1 <= x
      /\ x <= b * ListCount /\ (b - 1) * ListCount + 1 <= x
  BY <1>2
<1>4. ~(a < b) /\ ~(b < a)
  BY <1>1, <1>3
<1>. QED
  BY <1>4

\* loadBoardListPage shows a post on the page of its place and on no other.
LEMMA PostsHaveAPage == ListInv => EveryPostInItsPlace
<1>. SUFFICES ASSUME ListInv PROVE EveryPostInItsPlace
  OBVIOUS
<1>. DEFINE hits == Hits(posts, NoSearch)
            last == TotalPages(Cardinality(hits))
            pages == 1..last
            FirstList(p) == ListPage(posts, NoSearch, p)
            slice(p) == {n \in hits : Place(hits, n) \in ((p - 1) * ListCount + 1)..(p * ListCount)}
            places == UNION {LET nth == ListPage(posts, NoSearch, p) IN
                               (nth.posts \cup nth.notices) \X {p} : p \in pages}
            showing(n) == {p \in pages : <<n, p>> \in places}
            gallery == UNION {GalleryPage(posts, p) : p \in pages}
<1>0. ListCount \in Nat \ {0} /\ LastPost \in Nat
  BY ListCounts
<1>1. hits = {n \in DOMAIN posts : Regular(posts[n])}
  BY DEF Hits, Found, NoSearch
<1>2. hits \in SUBSET Nat /\ IsFiniteSet(hits) /\ Cardinality(hits) \in 0..LastPost
  BY HitsAre DEF ListInv, PostsTyped
<1>3. last \in 1..(LastPost + 1) /\ pages \subseteq 1..(LastPost + 1) /\ 1 \in pages
  <2>1. last \in 1..(LastPost + 1)
    BY <1>2, PagesAre
  <2>. HIDE DEF last
  <2>. QED
    BY <1>0, <2>1
<1>4. \A p \in pages : \A n : /\ n \in FirstList(p).posts <=> n \in slice(p)
                              /\ n \in FirstList(p).notices <=> p = 1 /\ n \in DOMAIN posts /\ Pinned(posts[n])
  <2>. SUFFICES ASSUME NEW p \in pages
                PROVE  \A n : /\ n \in FirstList(p).posts <=> n \in slice(p)
                              /\ n \in FirstList(p).notices <=> p = 1 /\ n \in DOMAIN posts /\ Pinned(posts[n])
    OBVIOUS
  <2>1. p \in 1..(LastPost + 1) /\ p <= TotalPages(Cardinality(Hits(posts, NoSearch)))
    BY <1>3
  <2>. QED
    BY <2>1, PageIs
<1>. HIDE DEF slice, hits, last, pages
<1>5. \A n : \A p \in pages : <<n, p>> \in places <=> n \in FirstList(p).posts \cup FirstList(p).notices
  OBVIOUS
<1>6. \A p \in pages : \A n : n \in GalleryPage(posts, p) <=> n \in slice(p)
  <2>1. \A p : GalleryPage(posts, p) = FirstList(p).posts
    BY DEF GalleryPage
  <2>. HIDE DEF FirstList
  <2>. QED
    BY <1>4, <2>1
<1>. HIDE DEF places, FirstList
<1>7. \A n \in DOMAIN posts : \A p \in pages :
        p \in showing(n) <=> n \in slice(p) \/ (p = 1 /\ Pinned(posts[n]))
  BY <1>4, <1>5
<1>8. \A n : showing(n) \subseteq pages
  OBVIOUS
<1>9. \A p : slice(p) \subseteq hits
  BY DEF slice
<1>. HIDE DEF showing
<1>10. ASSUME NEW n \in DOMAIN posts, ~Public(posts[n])
       PROVE  showing(n) = {} /\ n \notin AllPosts(posts)
  <2>1. n \notin hits /\ ~Pinned(posts[n])
    BY <1>1, <1>10 DEF Regular, Pinned
  <2>. QED
    BY <1>7, <1>8, <1>9, <1>10, <2>1 DEF AllPosts
<1>11. ASSUME NEW n \in DOMAIN posts, Regular(posts[n])
       PROVE  Cardinality(showing(n)) = 1 /\ n \in gallery
  <2>1. n \in hits /\ ~Pinned(posts[n])
    BY <1>1, <1>11 DEF Regular, Pinned
  <2>2. Place(hits, n) \in 1..Cardinality(hits)
    BY <1>2, <2>1, PlacesAre
  <2>3. PICK p \in pages : Place(hits, n) \in ((p - 1) * ListCount + 1)..(p * ListCount)
    BY <1>2, <2>2, PagesAre DEF pages, last
  <2>4. n \in slice(p)
    BY <2>1, <2>3 DEF slice
  <2>5. ASSUME NEW r \in pages, n \in slice(r) PROVE r = p
    <3>1. Place(hits, n) \in ((r - 1) * ListCount + 1)..(r * ListCount)
      BY <2>5 DEF slice
    <3>2. r \in Nat \ {0} /\ p \in Nat \ {0} /\ Place(hits, n) \in Nat
      BY <1>0, <1>2, <1>3, <2>2
    <3>. QED
      BY <2>3, <3>1, <3>2, OnePage
  <2>6. showing(n) = {p}
    BY <1>7, <1>8, <2>1, <2>4, <2>5
  <2>7. Cardinality(showing(n)) = 1
    BY <2>6, FS_Singleton
  <2>. QED
    BY <1>6, <2>4, <2>7
<1>12. ASSUME NEW n \in DOMAIN posts, Public(posts[n]) /\ posts[n].notice # "no"
       PROVE  showing(n) = IF posts[n].notice = "open" THEN {1} ELSE {}
  <2>1. n \notin hits /\ (Pinned(posts[n]) <=> posts[n].notice = "open")
    BY <1>1, <1>12 DEF Regular, Pinned
  <2>. QED
    BY <1>3, <1>7, <1>8, <1>9, <2>1
<1>13. \A n \in DOMAIN posts :
         /\ ~Public(posts[n]) => showing(n) = {} /\ n \notin AllPosts(posts)
         /\ Regular(posts[n]) => Cardinality(showing(n)) = 1 /\ n \in gallery
         /\ Public(posts[n]) /\ posts[n].notice # "no" =>
              showing(n) = IF posts[n].notice = "open" THEN {1} ELSE {}
  BY <1>10, <1>11, <1>12
<1>. QED
  BY <1>13, Zenon DEF EveryPostInItsPlace, showing, gallery, places, pages, last, hits, FirstList

\* List, gallery, search and export of a board agree on its posts, and a reader
\* who follows the pager misses none (loadBoardListPage, paginate, Pager.tsx,
\* buildPostSearchWhere, handleBoardExport).
THEOREM ListsAreWholeHolds == ListSpec => []ListsAreWhole
<1>1. ListInv => ListTypeOK
  BY DEF ListInv, ListTypeOK, PostsTyped
<1>2. ListInv => ReaderMissesNothing
  BY DEF ListInv, ReaderMissesNothing, StillToSee, ReaderRecord
<1>3. ListInv => ListsAreWhole
  BY <1>1, <1>2, SearchIsBlind, ExportHasThePages, PostsHaveAPage DEF ListsAreWhole
<1>. QED
  BY <1>3, ListInvHolds, PTL

-----------------------------------------------------------------------------
(* The questions of a survey and its results.  What a walk meets is what     *)
(* its skips lead to; what is stored says the same as the sheet did; and a   *)
(* response that no change of a question overlapped freezes the questions it *)
(* was checked against.                                                      *)

\* Numbers of which there are finitely many have a smallest and a largest.
LEMMA MinMaxAreIn ==
  ASSUME NEW S \in SUBSET Int, IsFiniteSet(S), S # {}
  PROVE  Min(S) \in S /\ Max(S) \in S
<1>. DEFINE HasMin(T) == \E x \in T : \A y \in T : x <= y
            HasMax(T) == \E x \in T : \A y \in T : y <= x
            bad == {T \in SUBSET S : T # {} /\ ~(HasMin(T) /\ HasMax(T))}
<1>1. bad = {}
  <2>. SUFFICES ASSUME bad # {} PROVE FALSE
    OBVIOUS
  <2>0. bad \in SUBSET (SUBSET S)
    OBVIOUS
  <2>1. PICK T \in bad : \A x \in T : T \ {x} \notin bad
    <3>. HIDE DEF bad
    <3>. QED
      BY <2>0, SmallestBad
  <2>2. T \in SUBSET Int /\ T \in SUBSET S /\ T # {} /\ ~(HasMin(T) /\ HasMax(T))
    OBVIOUS
  <2>3. PICK x \in T : TRUE
    BY <2>2
  <2>4. CASE T \ {x} = {}
    <3>1. \A y \in T : y = x
      BY <2>4
    <3>. QED
      BY <2>2, <2>3, <3>1
  <2>5. CASE T \ {x} # {}
    <3>1. HasMin(T \ {x}) /\ HasMax(T \ {x})
      BY <2>1, <2>2, <2>3, <2>5
    <3>2. PICK a \in T \ {x} : \A y \in T \ {x} : a <= y
      BY <3>1
    <3>3. PICK b \in T \ {x} : \A y \in T \ {x} : y <= b
      BY <3>1
    <3>4. HasMin(T)
      <4>1. a \in Int /\ x \in Int /\ a \in T
        BY <2>2, <2>3
      <4>2. CASE a <= x
        <5>1. \A y \in T : a <= y
          BY <3>2, <4>2
        <5>. QED
          BY <4>1, <5>1
      <4>3. CASE ~(a <= x)
        <5>1. \A y \in T : x <= y
          BY <2>2, <3>2, <4>1, <4>3
        <5>. QED
          BY <2>3, <5>1
      <4>. QED
        BY <4>2, <4>3
    <3>5. HasMax(T)
      <4>1. b \in Int /\ x \in Int /\ b \in T
        BY <2>2, <2>3
      <4>2. CASE x <= b
        <5>1. \A y \in T : y <= b
          BY <3>3, <4>2
        <5>. QED
          BY <4>1, <5>1
      <4>3. CASE ~(x <= b)
        <5>1. \A y \in T : y <= x
          BY <2>2, <3>3, <4>1, <4>3
        <5>. QED
          BY <2>3, <5>1
      <4>. QED
        BY <4>2, <4>3
    <3>. QED
      BY <2>2, <3>4, <3>5
  <2>. QED
    BY <2>4, <2>5
<1>2. (\E x \in S : \A y \in S : x <= y) /\ (\E x \in S : \A y \in S : y <= x)
  <2>1. HasMin(S) /\ HasMax(S)
    <3>. HIDE DEF HasMin, HasMax
    <3>. QED
      BY <1>1
  <2>. QED
    BY <2>1
<1>3. \E x \in S : \A y \in S : x >= y
  BY <1>2
<1>4. Min(S) \in S
  BY <1>2, Zenon DEF Min
<1>5. Max(S) \in S
  BY <1>3, Zenon DEF Max
<1>. QED
  BY <1>4, <1>5

\* Where the walk stands: the orders it has met and the one it looks at.
WalkSteps == [met: SUBSET Orders, at: SUBSET Orders]

WalkOver(s, orders) == s.at \subseteq s.met \/ ~(s.at \subseteq orders)

Onward(s, leads) == [met |-> s.met \cup s.at, at |-> UNION {leads[o] : o \in s.at}]

IsWalk(w, orders, leads) ==
  w = [s \in WalkSteps |-> IF WalkOver(s, orders) THEN s.met ELSE w[Onward(s, leads)]]

Unmet(s) == Cardinality(Orders \ s.met)

\* The loop of reachableQuestionOrders ends: a round that goes on has met a new order.
LEMMA RoundsMeet ==
  ASSUME NEW orders \in SUBSET Orders, NEW leads \in [orders -> SUBSET Orders], NEW s \in WalkSteps
  PROVE  /\ Unmet(s) \in Nat
         /\ Unmet(s) = 0 => WalkOver(s, orders)
         /\ ~WalkOver(s, orders) =>
              Onward(s, leads) \in WalkSteps /\ Unmet(Onward(s, leads)) < Unmet(s)
<1>1. IsFiniteSet(Orders) /\ IsFiniteSet(Orders \ s.met) /\ Unmet(s) \in Nat
  BY QuestionnaireAssumption, FS_Subset, FS_CardinalityType DEF Unmet
<1>2. ASSUME Unmet(s) = 0 PROVE WalkOver(s, orders)
  <2>1. Orders \ s.met = {}
    BY <1>1, <1>2, FS_EmptySet DEF Unmet
  <2>. QED
    BY <2>1 DEF WalkOver, WalkSteps
<1>3. ASSUME ~WalkOver(s, orders)
      PROVE  Onward(s, leads) \in WalkSteps /\ Unmet(Onward(s, leads)) < Unmet(s)
  <2>1. s.at \subseteq orders /\ ~(s.at \subseteq s.met) /\ s.met \in SUBSET Orders
    BY <1>3 DEF WalkOver, WalkSteps
  <2>2. UNION {leads[o] : o \in s.at} \in SUBSET Orders
    BY <2>1
  <2>3. Onward(s, leads) \in WalkSteps /\ Onward(s, leads).met = s.met \cup s.at
    BY <2>1, <2>2 DEF Onward, WalkSteps
  <2>. DEFINE now == Orders \ s.met
              next == Orders \ (s.met \cup s.at)
  <2>4. next \subseteq now /\ next # now
    BY <2>1
  <2>5. Cardinality(next) < Cardinality(now)
    BY <1>1, <2>4, FS_Subset, FS_CardinalityType
  <2>. QED
    BY <2>3, <2>5 DEF Unmet
<1>. QED
  BY <1>1, <1>2, <1>3

\* The walk exists, built for more and more orders that are not met yet.
LEMMA WalkExists ==
  ASSUME NEW orders \in SUBSET Orders, NEW leads \in [orders -> SUBSET Orders]
  PROVE  \E w : IsWalk(w, orders, leads)
<1>. DEFINE Near(n) == {s \in WalkSteps : Unmet(s) <= n}
            Works(g, n) == \A s \in Near(n) :
              g[s] = IF WalkOver(s, orders) THEN s.met ELSE g[Onward(s, leads)]
            bad == {n \in Nat : ~\E g : Works(g, n)}
<1>0. \A s \in WalkSteps :
         /\ Unmet(s) \in Nat
         /\ Unmet(s) = 0 => WalkOver(s, orders)
         /\ ~WalkOver(s, orders) =>
              Onward(s, leads) \in WalkSteps /\ Unmet(Onward(s, leads)) < Unmet(s)
  BY RoundsMeet
<1>1. bad = {}
  <2>. SUFFICES ASSUME bad # {} PROVE FALSE
    OBVIOUS
  <2>1. PICK n \in bad : \A m \in bad : ~(m < n)
    <3>1. bad \in SUBSET Nat
      OBVIOUS
    <3>. HIDE DEF bad
    <3>. QED
      BY <3>1, SmallestNat
  <2>2. n \in Nat /\ ~\E g : Works(g, n)
    OBVIOUS
  <2>3. CASE n = 0
    <3>. DEFINE g == [s \in Near(0) |-> s.met]
    <3>1. \A s \in Near(0) : WalkOver(s, orders)
      BY <1>0
    <3>2. Works(g, 0)
      BY <3>1
    <3>. HIDE DEF g, Works
    <3>. QED
      BY <2>2, <2>3, <3>2
  <2>4. CASE n # 0
    <3>. DEFINE m == n - 1
    <3>1. m \in Nat /\ m < n
      BY <2>2, <2>4
    <3>2. PICK g : Works(g, m)
      <4>1. m \notin bad
        BY <2>1, <3>1
      <4>. HIDE DEF Works
      <4>. QED
        BY <3>1, <4>1
    <3>. DEFINE h == [s \in Near(n) |-> IF WalkOver(s, orders) THEN s.met ELSE g[Onward(s, leads)]]
    <3>3. \A s \in Near(m) : s \in Near(n) /\ h[s] = g[s]
      <4>. SUFFICES ASSUME NEW s \in Near(m) PROVE s \in Near(n) /\ h[s] = g[s]
        OBVIOUS
      <4>1. s \in Near(n)
        BY <1>0, <2>2
      <4>2. g[s] = IF WalkOver(s, orders) THEN s.met ELSE g[Onward(s, leads)]
        BY <3>2
      <4>. QED
        BY <4>1, <4>2
    <3>4. ASSUME NEW s \in Near(n), ~WalkOver(s, orders) PROVE Onward(s, leads) \in Near(m)
      <4>1. s \in WalkSteps /\ Unmet(s) <= n
        OBVIOUS
      <4>2. /\ Onward(s, leads) \in WalkSteps /\ Unmet(Onward(s, leads)) < Unmet(s)
            /\ Unmet(s) \in Nat /\ Unmet(Onward(s, leads)) \in Nat
        BY <1>0, <3>4, <4>1
      <4>3. Unmet(Onward(s, leads)) <= m
        BY <2>2, <4>1, <4>2
      <4>. QED
        BY <4>2, <4>3
    <3>5. ASSUME NEW s \in Near(n)
          PROVE  h[s] = IF WalkOver(s, orders) THEN s.met ELSE h[Onward(s, leads)]
      <4>1. h[s] = IF WalkOver(s, orders) THEN s.met ELSE g[Onward(s, leads)]
        OBVIOUS
      <4>. HIDE DEF h, Near
      <4>. QED
        BY <3>3, <3>4, <4>1
    <3>6. Works(h, n)
      BY <3>5
    <3>. HIDE DEF h, Works
    <3>. QED
      BY <2>2, <3>6
  <2>. QED
    BY <2>3, <2>4
<1>2. Cardinality(Orders) \in Nat /\ \A s \in WalkSteps : s \in Near(Cardinality(Orders))
  <2>. SUFFICES ASSUME NEW s \in WalkSteps PROVE Cardinality(Orders) \in Nat /\ Unmet(s) <= Cardinality(Orders)
    BY FS_CardinalityType, QuestionnaireAssumption
  <2>1. Orders \ s.met \subseteq Orders
    OBVIOUS
  <2>. QED
    BY <2>1, QuestionnaireAssumption, FS_Subset, FS_CardinalityType DEF Unmet
<1>3. PICK g : Works(g, Cardinality(Orders))
  <2>. HIDE DEF Works
  <2>1. Cardinality(Orders) \notin bad
    BY <1>1
  <2>. QED
    BY <1>2, <2>1
<1>. DEFINE w == [s \in WalkSteps |-> g[s]]
<1>4. \A s \in WalkSteps : g[s] = IF WalkOver(s, orders) THEN s.met ELSE g[Onward(s, leads)]
  BY <1>2, <1>3
<1>5. ASSUME NEW s \in WalkSteps
      PROVE  g[s] = IF WalkOver(s, orders) THEN s.met ELSE w[Onward(s, leads)]
  BY <1>0, <1>4
<1>6. w = [s \in WalkSteps |-> IF WalkOver(s, orders) THEN s.met ELSE w[Onward(s, leads)]]
  BY <1>5
<1>. QED
  BY <1>6 DEF IsWalk

\* The walk stays within any orders that its skips do not lead out of.
LEMMA WalkStays ==
  ASSUME NEW orders \in SUBSET Orders, NEW leads \in [orders -> SUBSET Orders], NEW S,
         \A o \in S \cap orders : leads[o] \cap orders \subseteq S,
         NEW w, IsWalk(w, orders, leads),
         NEW start \in WalkSteps, start.met \subseteq S, start.at \cap orders \subseteq S
  PROVE  w[start] \subseteq S
<1>. DEFINE bad == {n \in Nat : \E s \in WalkSteps :
                      /\ Unmet(s) = n /\ s.met \subseteq S /\ s.at \cap orders \subseteq S
                      /\ ~(w[s] \subseteq S)}
<1>1. ASSUME bad # {} PROVE FALSE
  <2>1. PICK n \in bad : \A m \in bad : ~(m < n)
    <3>1. bad \in SUBSET Nat
      OBVIOUS
    <3>. HIDE DEF bad
    <3>. QED
      BY <1>1, <3>1, SmallestNat
  <2>2. PICK s \in WalkSteps : /\ Unmet(s) = n /\ s.met \subseteq S /\ s.at \cap orders \subseteq S
                               /\ ~(w[s] \subseteq S)
    OBVIOUS
  <2>3. w[s] = IF WalkOver(s, orders) THEN s.met ELSE w[Onward(s, leads)]
    BY DEF IsWalk
  <2>4. ~WalkOver(s, orders)
    BY <2>2, <2>3
  <2>5. Onward(s, leads) \in WalkSteps /\ Unmet(Onward(s, leads)) < n /\ Unmet(Onward(s, leads)) \in Nat
    BY <2>2, <2>4, RoundsMeet
  <2>6. Onward(s, leads).met \subseteq S /\ Onward(s, leads).at \cap orders \subseteq S
    <3>1. s.at \subseteq orders /\ s.at \subseteq S
      BY <2>2, <2>4 DEF WalkOver
    <3>. QED
      BY <2>2, <3>1 DEF Onward
  <2>7. Unmet(Onward(s, leads)) \in bad
    BY <2>2, <2>3, <2>4, <2>5, <2>6
  <2>. QED
    BY <2>1, <2>5, <2>7
<1>2. bad = {}
  <2>. HIDE DEF bad
  <2>. QED
    BY <1>1
<1>3. Unmet(start) \in Nat
  BY RoundsMeet
<1>. QED
  BY <1>2, <1>3

\* Stored questions, as far as the walk reads them.
AskedTyped(qs) == qs \in [QuestionIds -> Question \cup {NoQuestion}]

\* A question stands at every order the walk looks at, and leads to orders.
LEMMA LeadsAre ==
  ASSUME NEW qs, AskedTyped(qs), NEW answers, NEW o \in OrdersOf(qs)
  PROVE  /\ At(qs, o) \in Present(qs) /\ qs[At(qs, o)] \in Question
         /\ LeadsTo(qs, answers, o) \in SUBSET Orders
<1>1. \A i \in Present(qs) : qs[i] \in Question /\ qs[i].order \in Orders
  BY DEF AskedTyped, Present, Question
<1>2. OrdersOf(qs) \subseteq Orders /\ IsFiniteSet(Orders) /\ Orders \subseteq Int
      /\ IsFiniteSet(QuestionIds) /\ QuestionIds \subseteq Int /\ Present(qs) \subseteq QuestionIds
  BY <1>1, QuestionnaireAssumption DEF OrdersOf, Present
<1>. DEFINE twins == {i \in Present(qs) : qs[i].order = o}
<1>3. twins # {} /\ twins \in SUBSET Int /\ IsFiniteSet(twins)
  <2>1. twins \subseteq QuestionIds /\ twins # {}
    BY <1>2 DEF OrdersOf
  <2>. QED
    BY <1>2, <2>1, FS_Subset
<1>4. Max(twins) \in twins
  BY <1>3, MinMaxAreIn
<1>5. At(qs, o) \in Present(qs) /\ qs[At(qs, o)] \in Question
  BY <1>1, <1>4 DEF At
<1>6. Following(qs, o) \in SUBSET Orders
  <2>. DEFINE later == {n \in OrdersOf(qs) : n > o}
  <2>1. later \in SUBSET Int /\ IsFiniteSet(later)
    BY <1>2, FS_Subset
  <2>2. later # {} => Min(later) \in Orders
    BY <1>2, <2>1, MinMaxAreIn
  <2>3. o \in Orders
    BY <1>2
  <2>. HIDE DEF later
  <2>. QED
    BY <2>2, <2>3 DEF Following, later
<1>7. LeadsTo(qs, answers, o) \in SUBSET Orders
  <2>. DEFINE q == qs[At(qs, o)]
              jumps == {q.jump[v] : v \in answers[At(qs, o)].picks \cap q.options} \ {NoJump}
  <2>1. q.jump \in [OptionValues -> Orders \cup {NoJump}] /\ q.options \subseteq OptionValues
    BY <1>5 DEF Question
  <2>2. jumps \subseteq Orders
    BY <2>1
  <2>3. jumps \in SUBSET Int /\ IsFiniteSet(jumps)
    BY <1>2, <2>2, FS_Subset
  <2>4. jumps # {} => Min(jumps) \in Orders
    BY <2>2, <2>3, MinMaxAreIn
  <2>5. LeadsTo(qs, answers, o) = IF q.type = "single" /\ jumps # {} THEN {Min(jumps)} ELSE Following(qs, o)
    BY DEF LeadsTo
  <2>. HIDE DEF jumps, q
  <2>. QED
    BY <1>6, <2>4, <2>5
<1>. QED
  BY <1>5, <1>7

\* reachableQuestionOrders meets no order that is not on the way of the respondent.
LEMMA ReachableIsOnTheWay ==
  ASSUME NEW qs, AskedTyped(qs), NEW answers
  PROVE  Reachable(qs, answers) \subseteq OnTheWay(qs, answers)
<1>. DEFINE orders == OrdersOf(qs)
            leads == [o \in orders |-> LeadsTo(qs, answers, o)]
            first == [met |-> {}, at |-> IF orders = {} THEN {} ELSE {Min(orders)}]
            w == CHOOSE u : IsWalk(u, orders, leads)
<1>1. orders \in SUBSET Orders /\ orders \in SUBSET Int /\ IsFiniteSet(orders)
  <2>1. orders \subseteq Orders
    BY DEF OrdersOf, Present, AskedTyped, Question
  <2>. QED
    BY <2>1, QuestionnaireAssumption, FS_Subset
<1>2. leads \in [orders -> SUBSET Orders]
  BY LeadsAre
<1>3. Reachable(qs, answers) = w[first]
  BY DEF Reachable, WalkAlong, IsWalk, WalkOver, Onward, WalkSteps
<1>. HIDE DEF w, first, leads, orders
<1>4. IsWalk(w, orders, leads)
  BY <1>1, <1>2, WalkExists DEF w
<1>5. orders # {} => Min(orders) \in orders
  BY <1>1, MinMaxAreIn
<1>6. first \in WalkSteps /\ first.met = {} /\ (orders = {} => first.at = {})
      /\ (orders # {} => first.at = {Min(orders)})
  BY <1>1, <1>5 DEF first, WalkSteps
<1>7. ASSUME NEW S, \A o \in S \cap orders : leads[o] \cap orders \subseteq S,
             orders # {} => Min(orders) \in S
      PROVE  w[first] \subseteq S
  <2>1. first.met \subseteq S /\ first.at \cap orders \subseteq S
    BY <1>6, <1>7
  <2>. QED
    BY <1>1, <1>2, <1>4, <1>6, <1>7, <2>1, WalkStays
<1>8. w[first] \subseteq orders
  BY <1>5, <1>7
<1>9. ASSUME NEW o \in w[first], NEW S \in SUBSET orders, Min(orders) \in S,
             \A p \in S : LeadsTo(qs, answers, p) \cap orders \subseteq S
      PROVE  o \in S
  <2>1. \A p \in S \cap orders : leads[p] \cap orders \subseteq S
    BY <1>9 DEF leads
  <2>. QED
    BY <1>7, <1>9, <2>1
<1>. QED
  BY <1>3, <1>8, <1>9 DEF OnTheWay, orders

\* "The server-side validation must still accept a valid skip path": what is off the
\* walk may be left blank (validateSurveyAnswers).
LEMMA SkipPathsValid ==
  ASSUME NEW qs, AskedTyped(qs), NEW s \in [Orders -> Reply],
         \A i \in Present(qs) :
           IF qs[i].order \in OnTheWay(qs, OnSheet(qs, s)) THEN Fits(qs[i], OnSheet(qs, s)[i], TRUE)
           ELSE OnSheet(qs, s)[i] = Blank
  PROVE  Valid(qs, OnSheet(qs, s))
<1>. DEFINE answers == OnSheet(qs, s)
<1>. SUFFICES ASSUME NEW i \in Present(qs)
              PROVE  Fits(qs[i], answers[i], qs[i].order \in Reachable(qs, answers))
  BY DEF Valid
<1>1. CASE qs[i].order \in OnTheWay(qs, answers)
  BY <1>1 DEF Fits
<1>2. CASE qs[i].order \notin OnTheWay(qs, answers)
  <2>1. answers[i] = Blank /\ qs[i].order \notin Reachable(qs, answers)
    BY <1>2, ReachableIsOnTheWay
  <2>2. Blank.picks = {} /\ Cardinality({}) = 0
    BY FS_EmptySet DEF Blank
  <2>. QED
    BY <2>1, <2>2 DEF Fits, OtherPicked
<1>. QED
  BY <1>1, <1>2

\* What is kept of an answer says as much as the answer did.
LEMMA KeptFits ==
  ASSUME NEW q \in Question, NEW a \in Reply, NEW met, Fits(q, a, met)
  PROVE  /\ Kept(q, a) \in Reply /\ Fits(q, Kept(q, a), met)
         /\ q.type # "text" => Kept(q, a).picks = a.picks
         /\ q.type = "single" => (Kept(q, a) # Blank <=> a.picks # {})
<1>. DEFINE k == Kept(q, a)
            other == OtherPicked(q, a)
<1>1. other \in BOOLEAN /\ a.text \in BOOLEAN /\ a.picks \in SUBSET OptionValues
  BY DEF OtherPicked, Reply
<1>2. CASE q.type = "text"
  <2>1. k = [picks |-> {}, text |-> a.text]
    BY <1>2 DEF Kept, Blank
  <2>2. Kept(q, k) = k
    BY <1>2, <2>1 DEF Kept, Blank
  <2>3. k \in Reply
    BY <1>1, <2>1 DEF Reply
  <2>. QED
    BY <1>2, <2>2, <2>3 DEF Fits, Given
<1>3. CASE q.type # "text"
  <2>. DEFINE said == a.text /\ other
  <2>1. k = [picks |-> a.picks, text |-> said]
    <3>1. a = [picks |-> a.picks, text |-> a.text]
      BY DEF Reply
    <3>. QED
      BY <1>3, <3>1 DEF Kept
  <2>2. said \in BOOLEAN
    OBVIOUS
  <2>3. k.picks = a.picks /\ k.text = said /\ (OtherPicked(q, k) <=> other)
    BY <2>1 DEF OtherPicked
  <2>4. k \in Reply
    <3>. HIDE DEF said, k
    <3>. QED
      BY <1>1, <2>1, <2>2 DEF Reply
  <2>5. Kept(q, k) = k
    <3>1. (said /\ OtherPicked(q, k)) = said
      BY <2>2, <2>3
    <3>2. Kept(q, k) = [picks |-> a.picks, text |-> (said /\ OtherPicked(q, k))]
      BY <1>3, <2>1 DEF Kept
    <3>. QED
      BY <2>1, <3>1, <3>2
  <2>6. other => said
    BY <1>3 DEF Fits
  <2>7. Fits(q, k, met)
    <3>1. q.required /\ met => k # Blank
      BY DEF Fits, Given
    <3>2. a.picks \subseteq q.options /\ (q.type = "single" => Cardinality(a.picks) <= 1)
      BY <1>3 DEF Fits
    <3>. HIDE DEF k, said
    <3>. QED
      BY <2>3, <2>5, <2>6, <3>1, <3>2 DEF Fits, Given
  <2>8. k # Blank <=> a.picks # {}
    <3>1. a.picks = {} => ~other
      BY DEF OtherPicked
    <3>2. a.picks = {} => k = Blank
      BY <2>1, <3>1 DEF Blank
    <3>. QED
      BY <2>1, <3>2 DEF Blank
  <2>. QED
    BY <2>3, <2>4, <2>7, <2>8
<1>. QED
  BY <1>2, <1>3

\* The answers that are stored pass the check the sheet passed, on the same walk.
LEMMA NormalizedFits ==
  ASSUME NEW qs, AskedTyped(qs), NEW s \in [Orders -> Reply], Valid(qs, OnSheet(qs, s))
  PROVE  /\ Valid(qs, Normalized(qs, s)) /\ Normalized(qs, s) \in [QuestionIds -> Reply]
         /\ \A i \in Present(qs) : \E a \in Reply :
              Fits(qs[i], a, FALSE) /\ Normalized(qs, s)[i] = Kept(qs[i], a)
<1>. DEFINE answers == OnSheet(qs, s)
            stored == Normalized(qs, s)
<1>1. \A i \in Present(qs) : i \in QuestionIds /\ qs[i] \in Question /\ qs[i].order \in Orders
  BY DEF AskedTyped, Present, Question
<1>2. \A i \in Present(qs) : /\ answers[i] = s[qs[i].order] /\ answers[i] \in Reply
                             /\ stored[i] = Kept(qs[i], answers[i])
  BY <1>1 DEF OnSheet, Normalized
<1>3. \A i \in Present(qs) : Fits(qs[i], answers[i], qs[i].order \in Reachable(qs, answers))
  BY DEF Valid
<1>4. \A i \in QuestionIds \ Present(qs) : stored[i] = Blank
  BY DEF Normalized
<1>5. stored \in [QuestionIds -> Reply]
  <2>1. Blank \in Reply
    BY DEF Blank, Reply
  <2>2. \A i \in Present(qs) : stored[i] \in Reply
    BY <1>1, <1>2, <1>3, KeptFits
  <2>3. \A i \in QuestionIds : stored[i] \in Reply
    BY <1>4, <2>1, <2>2
  <2>. QED
    BY <2>3 DEF Normalized
<1>. HIDE DEF answers, stored
<1>6. \A o \in OrdersOf(qs) : LeadsTo(qs, stored, o) = LeadsTo(qs, answers, o)
  <2>. SUFFICES ASSUME NEW o \in OrdersOf(qs) PROVE LeadsTo(qs, stored, o) = LeadsTo(qs, answers, o)
    OBVIOUS
  <2>1. At(qs, o) \in Present(qs)
    BY LeadsAre
  <2>2. qs[At(qs, o)].type = "single" => stored[At(qs, o)].picks = answers[At(qs, o)].picks
    BY <1>1, <1>2, <1>3, <2>1, KeptFits
  <2>. QED
    BY <2>2 DEF LeadsTo
<1>7. Reachable(qs, stored) = Reachable(qs, answers)
  <2>1. [o \in OrdersOf(qs) |-> LeadsTo(qs, stored, o)] = [o \in OrdersOf(qs) |-> LeadsTo(qs, answers, o)]
    BY <1>6
  <2>. QED
    BY <2>1 DEF Reachable
<1>8. Valid(qs, stored)
  BY <1>1, <1>2, <1>3, <1>7, KeptFits DEF Valid
<1>9. \A i \in Present(qs) : Fits(qs[i], answers[i], FALSE)
  BY <1>3 DEF Fits
<1>. QED
  BY <1>2, <1>5, <1>8, <1>9 DEF stored

SheetRecord == [busy: BOOLEAN, answers: [QuestionIds -> Reply], opted: SUBSET QuestionIds, changed: BOOLEAN]
ReplyRecord == [live: BOOLEAN, answers: [QuestionIds -> Reply], opted: SUBSET QuestionIds, raced: BOOLEAN]
PageRecord == [busy: BOOLEAN, opted: SUBSET QuestionIds, changed: BOOLEAN, exposed: SUBSET Slots]

\* The answers are what a sheet says that the questions accept.
FromSheet(answers) ==
  \E s \in Filled : Valid(asked, OnSheet(asked, s)) /\ answers = Normalized(asked, s)

\* A submit, a stored response and the public page stand for the questions as they
\* are, unless a change of a question came between; and a response that no change
\* overlapped has latched the survey, so that none begins any more.
QuestionInv ==
  /\ AskedTyped(asked) /\ phase \in {"scheduled", "open", "closed"} /\ latched \in BOOLEAN
  /\ authoring.busy => authoring.id \in QuestionIds /\ authoring.question \in Question \cup {NoQuestion}
  /\ sheet \in SheetRecord /\ replies \in [Slots -> ReplyRecord]
  /\ sheet.busy /\ ~sheet.changed => sheet.opted = Opted(asked) /\ FromSheet(sheet.answers)
  /\ \A k \in Slots : replies[k].live /\ ~replies[k].raced =>
       latched /\ ~authoring.busy /\ replies[k].opted = Opted(asked) /\ FromSheet(replies[k].answers)
  /\ page \in PageRecord /\ page.exposed = {}
  /\ page.busy /\ ~page.changed => page.opted = Opted(asked)

\* The invariant of the questionnaire holds before anything was answered.
LEMMA QuestionInitHolds == QuestionnaireInit => QuestionInv
<1>. SUFFICES ASSUME QuestionnaireInit PROVE QuestionInv
  OBVIOUS
<1>1. AskedTyped(asked)
  BY QuestionnaireAssumption DEF QuestionnaireInit, AskedTyped
<1>2. [i \in QuestionIds |-> Blank] \in [QuestionIds -> Reply]
  BY DEF Blank, Reply
<1>3. sheet \in SheetRecord /\ ~sheet.busy
  BY <1>2 DEF QuestionnaireInit, NoSheet, SheetRecord
<1>4. NoReply \in ReplyRecord /\ ~NoReply.live
  BY <1>2 DEF NoReply, ReplyRecord
<1>5. replies \in [Slots -> ReplyRecord] /\ \A k \in Slots : ~replies[k].live
  BY <1>4 DEF QuestionnaireInit
<1>6. page \in PageRecord
  BY DEF QuestionnaireInit, NoPage, PageRecord
<1>7. ~authoring.busy /\ ~page.busy /\ page.exposed = {} /\ phase = "scheduled" /\ latched = FALSE
  BY DEF QuestionnaireInit, IdleAuthor, NoPage
<1>. QED
  BY <1>1, <1>3, <1>5, <1>6, <1>7 DEF QuestionInv

\* The window turns; a latched survey stays so.
LEMMA TurnKeeps ==
  ASSUME QuestionInv, NEW p \in {"scheduled", "open", "closed"}, NEW timed \in BOOLEAN, Turn(p, timed)
  PROVE  QuestionInv'
<1>1. /\ UNCHANGED <<asked, authoring, sheet, replies, page>>
      /\ phase' = p /\ latched' \in BOOLEAN /\ (latched => latched')
  BY DEF Turn, QuestionInv
<1>. QED
  BY <1>1 DEF QuestionInv, AskedTyped, FromSheet

\* The check of a change: no response that counts is there yet.
LEMMA AuthorBeginKeeps ==
  ASSUME QuestionInv, NEW i \in QuestionIds, NEW q \in Drafts[i], AuthorBegin(i, q)
  PROVE  QuestionInv'
<1>1. /\ UNCHANGED <<asked, phase, latched, sheet, replies, page>> /\ ~latched
      /\ authoring'.busy /\ authoring'.id = i /\ authoring'.question = q
  BY DEF AuthorBegin, Frozen
<1>2. q \in Question \cup {NoQuestion}
  BY QuestionnaireAssumption
<1>. QED
  BY <1>1, <1>2 DEF QuestionInv, AskedTyped, FromSheet

\* The write of a change: what was read before it is marked.
LEMMA AuthorWriteKeeps == QuestionInv /\ AuthorWrite => QuestionInv'
<1>. SUFFICES ASSUME QuestionInv, AuthorWrite PROVE QuestionInv'
  OBVIOUS
<1>1. /\ authoring.busy /\ UNCHANGED <<phase, latched, replies>>
      /\ asked' = [asked EXCEPT ![authoring.id] = authoring.question]
      /\ authoring' = IdleAuthor /\ ~IdleAuthor.busy
  BY DEF AuthorWrite, IdleAuthor
<1>2. AskedTyped(asked)'
  BY <1>1 DEF QuestionInv, AskedTyped
<1>3. sheet' \in SheetRecord /\ ~(sheet'.busy /\ ~sheet'.changed)
  <2>. DEFINE touched == sheet.changed \/ sheet.busy
  <2>1. sheet' = [sheet EXCEPT !.changed = touched]
    BY DEF AuthorWrite
  <2>2. touched \in BOOLEAN
    OBVIOUS
  <2>3. sheet \in SheetRecord
    BY DEF QuestionInv
  <2>4. sheet.busy => touched
    OBVIOUS
  <2>. HIDE DEF touched
  <2>. QED
    BY <2>1, <2>2, <2>3, <2>4 DEF SheetRecord
<1>4. page' \in PageRecord /\ page'.exposed = page.exposed /\ ~(page'.busy /\ ~page'.changed)
  <2>. DEFINE touched == page.changed \/ page.busy
  <2>1. page' = [page EXCEPT !.changed = touched]
    BY DEF AuthorWrite
  <2>2. touched \in BOOLEAN
    OBVIOUS
  <2>3. page \in PageRecord
    BY DEF QuestionInv
  <2>4. page.busy => touched
    OBVIOUS
  <2>. HIDE DEF touched
  <2>. QED
    BY <2>1, <2>2, <2>3, <2>4 DEF PageRecord
<1>5. \A k \in Slots : ~(replies'[k].live /\ ~replies'[k].raced)
  BY <1>1 DEF QuestionInv
<1>. QED
  BY <1>1, <1>2, <1>3, <1>4, <1>5 DEF QuestionInv

\* The check of a sheet.
LEMMA SheetBeginKeeps ==
  ASSUME QuestionInv, NEW s \in Filled, SheetBegin(s)
  PROVE  QuestionInv'
<1>1. /\ UNCHANGED <<asked, phase, latched, authoring, replies, page>> /\ Valid(asked, OnSheet(asked, s))
      /\ sheet' = [busy |-> TRUE, answers |-> Normalized(asked, s), opted |-> Opted(asked), changed |-> FALSE]
  BY DEF SheetBegin
<1>2. s \in [Orders -> Reply] /\ Normalized(asked, s) \in [QuestionIds -> Reply]
  BY <1>1, NormalizedFits, QuestionnaireAssumption DEF QuestionInv
<1>3. Opted(asked) \in SUBSET QuestionIds
  BY DEF Opted, Present
<1>4. sheet' \in SheetRecord
  BY <1>1, <1>2, <1>3 DEF SheetRecord
<1>5. sheet'.opted = Opted(asked) /\ FromSheet(sheet'.answers)
  BY <1>1 DEF FromSheet
<1>. QED
  BY <1>1, <1>4, <1>5 DEF QuestionInv, AskedTyped, FromSheet

\* The insert of a response: from now on the questions are frozen.
LEMMA SheetStoreKeeps ==
  ASSUME QuestionInv, NEW k \in Slots, SheetStore(k)
  PROVE  QuestionInv'
<1>. DEFINE raced == sheet.changed \/ authoring.busy
            new == [live |-> TRUE, answers |-> sheet.answers, opted |-> sheet.opted, raced |-> raced]
<1>1. /\ sheet.busy /\ UNCHANGED <<asked, phase, authoring, page>> /\ latched' = TRUE /\ sheet' = NoSheet
      /\ replies' = [replies EXCEPT ![k] = new]
  BY DEF SheetStore
<1>2. NoSheet \in SheetRecord /\ ~NoSheet.busy
  <2>1. [i \in QuestionIds |-> Blank] \in [QuestionIds -> Reply]
    BY DEF Blank, Reply
  <2>. QED
    BY <2>1 DEF NoSheet, SheetRecord
<1>3. raced \in BOOLEAN /\ (~raced => ~sheet.changed /\ ~authoring.busy)
  OBVIOUS
<1>. HIDE DEF raced
<1>4. new \in ReplyRecord /\ new.raced = raced /\ new.opted = sheet.opted /\ new.answers = sheet.answers
  BY <1>3 DEF QuestionInv, SheetRecord, ReplyRecord
<1>. HIDE DEF new
<1>5. replies' \in [Slots -> ReplyRecord] /\ replies'[k] = new
      /\ \A j \in Slots \ {k} : replies'[j] = replies[j]
  BY <1>1, <1>4 DEF QuestionInv
<1>6. ~raced => sheet.opted = Opted(asked) /\ FromSheet(sheet.answers) /\ ~authoring.busy
  BY <1>1, <1>3 DEF QuestionInv
<1>7. \A a : FromSheet(a)' <=> FromSheet(a)
  BY <1>1 DEF FromSheet
<1>8. ASSUME NEW j \in Slots, replies'[j].live /\ ~replies'[j].raced
      PROVE  latched' /\ ~authoring'.busy /\ replies'[j].opted = Opted(asked)' /\ FromSheet(replies[j].answers)'
  <2>1. CASE j = k
    BY <1>1, <1>4, <1>5, <1>6, <1>7, <1>8, <2>1
  <2>2. CASE j # k
    BY <1>1, <1>5, <1>7, <1>8, <2>2 DEF QuestionInv
  <2>. QED
    BY <2>1, <2>2
<1>. QED
  BY <1>1, <1>2, <1>5, <1>8 DEF QuestionInv, AskedTyped

\* A refusal, or the deletion of a response.
LEMMA DropKeeps ==
  ASSUME QuestionInv, SheetRefused \/ \E k \in Slots : DropReply(k)
  PROVE  QuestionInv'
<1>1. [i \in QuestionIds |-> Blank] \in [QuestionIds -> Reply]
  BY DEF Blank, Reply
<1>2. NoSheet \in SheetRecord /\ ~NoSheet.busy
  BY <1>1 DEF NoSheet, SheetRecord
<1>3. NoReply \in ReplyRecord /\ ~NoReply.live
  BY <1>1 DEF NoReply, ReplyRecord
<1>4. CASE SheetRefused
  BY <1>2, <1>4 DEF SheetRefused, QuestionInv, AskedTyped, FromSheet
<1>5. ASSUME NEW k \in Slots, DropReply(k) PROVE QuestionInv'
  <2>1. /\ UNCHANGED <<asked, phase, latched, authoring, sheet, page>>
        /\ replies' = [replies EXCEPT ![k] = NoReply]
    BY <1>5 DEF DropReply
  <2>2. replies' \in [Slots -> ReplyRecord]
        /\ \A j \in Slots : replies'[j] = NoReply \/ replies'[j] = replies[j]
    BY <1>3, <2>1 DEF QuestionInv
  <2>. QED
    BY <1>3, <2>1, <2>2 DEF QuestionInv, AskedTyped, FromSheet
<1>. QED
  BY <1>4, <1>5

\* The public page reads the questions, and then shows the words of those it read as
\* opted in.
LEMMA PageKeeps ==
  ASSUME QuestionInv, PageShow \/ \E v \in Visibilities : PageBegin(v)
  PROVE  QuestionInv'
<1>1. UNCHANGED <<asked, phase, latched, authoring, sheet, replies>>
  BY DEF PageBegin, PageShow
<1>2. page' \in PageRecord /\ page'.exposed = {} /\ (page'.busy /\ ~page'.changed => page'.opted = Opted(asked))
  <2>1. CASE \E v \in Visibilities : PageBegin(v)
    <3>1. page' = [busy |-> TRUE, opted |-> Opted(asked), changed |-> FALSE, exposed |-> {}]
      BY <2>1 DEF PageBegin, NoPage
    <3>2. Opted(asked) \in SUBSET QuestionIds
      BY DEF Opted, Present
    <3>. QED
      BY <3>1, <3>2 DEF PageRecord
  <2>2. CASE PageShow
    <3>1. /\ page.busy
          /\ page' = [NoPage EXCEPT !.exposed =
               IF page.changed THEN {}
               ELSE UNION {{k \in Verbatim(i, page.opted) :
                              i \notin replies[k].opted /\ ~replies[k].raced}
                           : i \in Present(asked)}]
      BY <2>2 DEF PageShow
    <3>2. ~page'.busy /\ page'.exposed =
               IF page.changed THEN {}
               ELSE UNION {{k \in Verbatim(i, page.opted) :
                              i \notin replies[k].opted /\ ~replies[k].raced}
                           : i \in Present(asked)}
      BY <3>1 DEF NoPage
    <3>3. ASSUME ~page.changed, NEW i, NEW k \in Verbatim(i, page.opted), ~replies[k].raced
          PROVE  i \in replies[k].opted
      <4>1. i \in page.opted /\ k \in Slots /\ replies[k].live
        BY <3>3 DEF Verbatim, Wrote, Live
      <4>. QED
        BY <3>1, <3>3, <4>1 DEF QuestionInv
    <3>4. page'.exposed = {}
      BY <3>2, <3>3
    <3>5. page' = [busy |-> FALSE, opted |-> {}, changed |-> FALSE, exposed |-> {}]
      BY <3>1, <3>2, <3>4 DEF NoPage
    <3>6. page' \in PageRecord
      BY <3>5 DEF PageRecord
    <3>. QED
      BY <3>2, <3>4, <3>6
  <2>. QED
    BY <2>1, <2>2
<1>. QED
  BY <1>1, <1>2 DEF QuestionInv, AskedTyped, FromSheet

\* The inductive invariant of the questionnaire.
LEMMA QuestionInvHolds == QuestionnaireSpec => []QuestionInv
<1>1. QuestionInv /\ [QuestionnaireNext]_questionVars => QuestionInv'
  <2>. SUFFICES ASSUME QuestionInv, [QuestionnaireNext]_questionVars PROVE QuestionInv'
    OBVIOUS
  <2>1. CASE UNCHANGED questionVars
    BY <2>1 DEF questionVars, QuestionInv, AskedTyped, FromSheet
  <2>. QED
    BY <2>1, TurnKeeps, AuthorBeginKeeps, AuthorWriteKeeps, SheetBeginKeeps, SheetStoreKeeps,
       DropKeeps, PageKeeps DEF QuestionnaireNext
<1>. QED
  BY <1>1, QuestionInitHolds, PTL DEF QuestionnaireSpec

\* Of at most one element there are no two.
LEMMA AtMostOne ==
  ASSUME NEW S, IsFiniteSet(S), Cardinality(S) <= 1, NEW u \in S, NEW v \in S
  PROVE  u = v
<1>. SUFFICES ASSUME u # v PROVE FALSE
  OBVIOUS
<1>1. IsFiniteSet(S \ {u}) /\ Cardinality(S \ {u}) = Cardinality(S) - 1
      /\ Cardinality(S) \in Nat /\ Cardinality(S \ {u}) \in Nat
  BY FS_RemoveElement, FS_CardinalityType
<1>2. Cardinality(S \ {u}) = 0
  BY <1>1
<1>3. S \ {u} = {}
  BY <1>1, <1>2, FS_EmptySet
<1>. QED
  BY <1>3

\* What an unraced response holds for a question: the kept part of an answer that fits.
LEMMA AnswersFit ==
  ASSUME QuestionInv, NEW k \in Live, ~replies[k].raced
  PROVE  /\ Valid(asked, replies[k].answers) /\ k \in Slots
         /\ \A i \in Present(asked) : \E a \in Reply :
              Fits(asked[i], a, FALSE) /\ replies[k].answers[i] = Kept(asked[i], a)
<1>1. k \in Slots /\ FromSheet(replies[k].answers) /\ AskedTyped(asked)
  BY DEF Live, QuestionInv
<1>2. PICK s \in Filled : Valid(asked, OnSheet(asked, s)) /\ replies[k].answers = Normalized(asked, s)
  BY <1>1 DEF FromSheet
<1>3. s \in [Orders -> Reply]
  BY QuestionnaireAssumption
<1>. QED
  BY <1>1, <1>2, <1>3, NormalizedFits

\* The counts of the options of a single question make up its answers
\* (aggregateSurveyResults): each answer has one option.
LEMMA CountsAddUp ==
  ASSUME QuestionInv, \A k \in Live : ~replies[k].raced,
         NEW i \in Present(asked), asked[i].type = "single"
  PROVE  Cardinality(Answered(i)) =
           SumOf([v \in asked[i].options |-> Cardinality(Picked(i, v))], asked[i].options)
<1>. DEFINE options == asked[i].options
            count == [v \in options |-> Cardinality(Picked(i, v))]
            With(T) == {k \in Live : replies[k].answers[i].picks \cap T # {}}
            bad == {T \in SUBSET options : Cardinality(With(T)) # SumOf(count, T)}
<1>0. asked[i] \in Question /\ options \subseteq OptionValues /\ IsFiniteSet(options)
  <2>1. asked[i] \in Question
    BY DEF QuestionInv, AskedTyped, Present
  <2>. QED
    BY <2>1, QuestionnaireAssumption, FS_Subset DEF Question
<1>1. IsFiniteSet(Live) /\ \A A \in SUBSET Live : IsFiniteSet(A) /\ Cardinality(A) \in Nat
  <2>1. Live \subseteq Slots
    BY DEF Live
  <2>. QED
    BY <2>1, QuestionnaireAssumption, FS_Subset, FS_CardinalityType
<1>2. \A v : Picked(i, v) \in SUBSET Live
  BY DEF Picked
<1>3. \A v \in options : count[v] \in Nat
  BY <1>1, <1>2
<1>4. ASSUME NEW k \in Live
      PROVE  LET a == replies[k].answers[i] IN
               /\ a.picks \subseteq options /\ (a # Blank <=> a.picks # {})
               /\ \A u, v \in a.picks : u = v
  <2>1. PICK a \in Reply : Fits(asked[i], a, FALSE) /\ replies[k].answers[i] = Kept(asked[i], a)
    BY AnswersFit
  <2>2. /\ Kept(asked[i], a).picks = a.picks /\ (Kept(asked[i], a) # Blank <=> a.picks # {})
    BY <1>0, <2>1, KeptFits
  <2>3. a.picks \subseteq options /\ Cardinality(a.picks) <= 1
    BY <2>1 DEF Fits
  <2>4. IsFiniteSet(a.picks)
    BY <1>0, <2>3, FS_Subset
  <2>5. \A u, v \in a.picks : u = v
    BY <2>3, <2>4, AtMostOne
  <2>. QED
    BY <2>1, <2>2, <2>3, <2>5
<1>. HIDE DEF count
<1>5. bad = {}
  <2>. SUFFICES ASSUME bad # {} PROVE FALSE
    OBVIOUS
  <2>0. bad \in SUBSET (SUBSET options)
    OBVIOUS
  <2>1. PICK T \in bad : \A x \in T : T \ {x} \notin bad
    <3>. HIDE DEF bad
    <3>. QED
      BY <1>0, <2>0, SmallestBad
  <2>2. T \in SUBSET options /\ Cardinality(With(T)) # SumOf(count, T)
    OBVIOUS
  <2>3. IsFiniteSet(T) /\ \A x \in T : count[x] \in Nat
    BY <1>0, <1>3, <2>2, FS_Subset
  <2>4. CASE T = {}
    <3>1. With(T) = {}
      BY <2>4
    <3>2. SumOf(count, T) = 0
      BY <2>3, <2>4, SumAdds
    <3>. QED
      BY <2>2, <3>1, <3>2, FS_EmptySet
  <2>5. CASE T # {}
    <3>1. PICK x \in T : TRUE
      BY <2>5
    <3>2. SumOf(count, T) = count[x] + SumOf(count, T \ {x})
      BY <2>3, SumAdds
    <3>3. Cardinality(With(T \ {x})) = SumOf(count, T \ {x})
      BY <2>1, <2>2, <3>1
    <3>4. With(T) = With(T \ {x}) \cup Picked(i, x)
      BY <3>1 DEF Picked
    <3>5. With(T \ {x}) \cap Picked(i, x) = {}
      BY <1>4 DEF Picked
    <3>6. With(T \ {x}) \in SUBSET Live
      OBVIOUS
    <3>7. IsFiniteSet(With(T \ {x})) /\ IsFiniteSet(Picked(i, x))
          /\ Cardinality(With(T \ {x})) \in Nat /\ Cardinality(Picked(i, x)) \in Nat
      BY <1>1, <1>2, <3>6
    <3>. HIDE DEF With
    <3>8. Cardinality(With(T)) = Cardinality(With(T \ {x})) + Cardinality(Picked(i, x))
      <4>. DEFINE A == With(T \ {x})
                  B == Picked(i, x)
      <4>1. IsFiniteSet(A) /\ IsFiniteSet(B) /\ Cardinality(A) \in Nat /\ Cardinality(B) \in Nat
            /\ A \cap B = {} /\ With(T) = A \cup B
        BY <3>4, <3>5, <3>7
      <4>. HIDE DEF A, B
      <4>2. Cardinality(A \cup B) = Cardinality(A) + Cardinality(B) - Cardinality(A \cap B)
        BY <4>1, FS_Union
      <4>3. Cardinality(A \cap B) = 0
        BY <4>1, FS_EmptySet
      <4>4. Cardinality(With(T)) = Cardinality(A) + Cardinality(B)
        BY <4>1, <4>2, <4>3
      <4>. QED
        BY <4>4 DEF A, B
    <3>9. count[x] = Cardinality(Picked(i, x))
      BY <2>2, <3>1 DEF count
    <3>. QED
      BY <2>2, <3>2, <3>3, <3>7, <3>8, <3>9
  <2>. QED
    BY <2>4, <2>5
<1>6. Answered(i) = With(options)
  BY <1>4 DEF Answered
<1>7. Cardinality(With(options)) = SumOf(count, options)
  <2>. HIDE DEF With
  <2>. QED
    BY <1>5
<1>. QED
  BY <1>6, <1>7 DEF count

\* The results of a survey stand for what its respondents were asked and said
\* (validateSurveyAnswers, reachableQuestionOrders, aggregateSurveyResults,
\* the freeze of started surveys, publicResponse).
THEOREM ResultsAreFaithfulHolds == QuestionnaireSpec => []ResultsAreFaithful
<1>1. QuestionInv => QuestionnaireTypeOK
  BY DEF QuestionInv, QuestionnaireTypeOK, AskedTyped, ReplyRecord
<1>2. QuestionInv => SkipPathsAccepted
  <2>. SUFFICES ASSUME QuestionInv, authoring.busy, NEW s \in [Orders -> Reply],
                       NEW qs, qs = [asked EXCEPT ![authoring.id] = authoring.question],
                       \A i \in Present(qs) :
                         IF qs[i].order \in OnTheWay(qs, OnSheet(qs, s)) THEN Fits(qs[i], OnSheet(qs, s)[i], TRUE)
                         ELSE OnSheet(qs, s)[i] = Blank
                PROVE  Valid(qs, OnSheet(qs, s))
    BY DEF SkipPathsAccepted
  <2>1. AskedTyped(qs)
    BY DEF QuestionInv, AskedTyped
  <2>. QED
    BY <2>1, SkipPathsValid
<1>3. QuestionInv => StoredAnswersFit
  BY AnswersFit DEF StoredAnswersFit
<1>4. QuestionInv => ResultsAddUp
  <2>. SUFFICES ASSUME QuestionInv, \A k \in Live : ~replies[k].raced, NEW i \in Present(asked)
                PROVE  /\ asked[i].type = "single" =>
                            Cardinality(Answered(i)) =
                              SumOf([v \in asked[i].options |-> Cardinality(Picked(i, v))], asked[i].options)
                       /\ \A v \in asked[i].options : Picked(i, v) \subseteq Answered(i)
    BY DEF ResultsAddUp, SumOf
  <2>1. \A v : Picked(i, v) \subseteq Answered(i)
    BY DEF Picked, Answered, Blank
  <2>. QED
    BY <2>1, CountsAddUp
<1>5. QuestionInv => WordsStayPrivate
  BY DEF QuestionInv, WordsStayPrivate
<1>6. QuestionInv => ResultsAreFaithful
  BY <1>1, <1>2, <1>3, <1>4, <1>5 DEF ResultsAreFaithful
<1>. QED
  BY <1>6, QuestionInvHolds, PTL
=============================================================================
