------------------------------- MODULE Access -------------------------------
(***************************************************************************)
(* Access decisions of the back-office: the menu grants of roles, the      *)
(* process-wide cache from a menu key to the id of its `adminMenus` row,   *)
(* the tenant scopes built on them and the confinement of administrators   *)
(* who must still enrol in 2FA (src/access).                               *)
(*                                                                         *)
(* A request loads its principal first (the JWT strategy reads the user    *)
(* and its roles), then awaits: the 2FA switch of the sites, and one       *)
(* resolution per menu key it needs.  Menu rows change between any two of  *)
(* these.  Roles, tenants and the switch are edited freely by other        *)
(* administrators, so a request may meet any value of them.                *)
(***************************************************************************)
EXTENDS Naturals, FiniteSets

CONSTANTS
  MenuIds,   \* ids the serial column of adminMenus gives out, none twice
  Keys,      \* menu keys the code asks for
  Content,   \* the key of an ordinary collection, e.g. content.posts
  Privacy,   \* privacy.securityDocs
  Sites,     \* tenants
  Requests,  \* requests in flight
  UnbornMenu,    \* a menu id not given out yet
  GoneMenu,      \* the id of a deleted menu
  NoMenu       \* a key that resolves to nothing

ASSUME AccessAssumption ==
  /\ Content \in Keys /\ Privacy \in Keys /\ Content # Privacy
  /\ UnbornMenu \notin Keys /\ GoneMenu \notin Keys /\ UnbornMenu # GoneMenu
  /\ NoMenu \notin MenuIds

VARIABLES
  menus,  \* the menuKey of each adminMenus row
  cache,  \* menuKeyToAdminMenuId of the server process
  req,    \* the requests in flight
  bore    \* history: <<id, key>> the row has carried since the process started

accessVars == <<menus, cache, req, bore>>

-----------------------------------------------------------------------------
(* Principals, rows and the filters the access functions return.           *)

\* A row as the filters see it: its tenant, its class, and whether it is the
\* record of the acting principal itself.
TenantRow == [site: Sites, secure: BOOLEAN, own: BOOLEAN]

PrincipalKinds == {"anonymous", "member", "admin"}

\* req.user with its roles populated one level deep: the union of their
\* grants, whether one is super, the assigned tenants, the TOTP mark.
Principals ==
  [kind: PrincipalKinds, super: BOOLEAN, grants: SUBSET MenuIds, sites: SUBSET Sites,
   confirmed: BOOLEAN]

\* Only an admin row has roles, tenants and a TOTP secret.
Plausible(p) ==
  p.kind # "admin" => ~p.super /\ p.grants = {} /\ p.sites = {} /\ ~p.confirmed

Anonymous == [kind |-> "anonymous", super |-> FALSE, grants |-> {}, sites |-> {},
           confirmed |-> FALSE]

\* The access functions: a global collection, a tenant-scoped one, boards and
\* posts, the attachment pool, its readers, the users and the members.
Helpers ==
  {"menu", "tenant", "securityDoc", "membership", "attachmentRead", "users",
   "members"}

AssignedRows(p) == {w \in TenantRow : w.site \in p.sites}
OwnTenantRows == {w \in TenantRow : w.own}

\* The union over the roles held, unless the key resolved to nothing.
GrantsMenu(p, id) == id # NoMenu /\ id \in p.grants

\* What a principal that passed the menu gate sees of a tenant-scoped collection.
TenantScope(p) == IF p.super THEN TenantRow ELSE AssignedRows(p)

TenantScopedMenuAccess(p, granted) == IF granted THEN TenantScope(p) ELSE {}

TenantMembershipAccess(p, confined) ==
  IF p.kind = "anonymous" \/ confined THEN {} ELSE TenantScope(p)

SecurityDocScopedAccess(p, confined, content, privacy) ==
  IF p.kind = "anonymous" \/ confined THEN {}
  ELSE IF p.super THEN TenantRow
  ELSE {w \in AssignedRows(p) : IF w.secure THEN privacy ELSE content}

SecurityDocAttachmentRead(p, confined, privacy) ==
  IF p.kind = "anonymous" \/ confined THEN {}
  ELSE IF p.super THEN TenantRow
  ELSE {w \in AssignedRows(p) : w.secure => privacy}

\* users: the own record in any case, all of them with the grant.
SelfOrMenuAccess(p, granted) ==
  IF p.kind # "admin" THEN {}
  ELSE IF granted THEN TenantRow ELSE OwnTenantRows

MemberSelfOrManageAccess(p, granted) ==
  IF p.kind = "member" THEN OwnTenantRows ELSE TenantScopedMenuAccess(p, granted)

\* Mutant: the guard asks for some assignment, not for the one of the row.
GuardAccepts_AnyAssignment(p, site) ==
  p.kind # "admin" \/ p.super \/ p.sites # {}

\* tenantMembershipGuard: the tenant a written row ends up with.
GuardAccepts(p, site) ==
  p.kind # "admin" \/ p.super \/ site \in p.sites

\* The filter of helper h for principal p, with the ids its keys resolved to.
Visible(h, p, confined, ids) ==
  LET granted(k) == p.kind # "anonymous" /\ ~confined
                    /\ (p.super \/ GrantsMenu(p, ids[k])) IN
  CASE h = "menu" -> IF granted(Content) THEN TenantRow ELSE {}
    [] h = "tenant" -> TenantScopedMenuAccess(p, granted(Content))
    [] h = "securityDoc" ->
         SecurityDocScopedAccess(p, confined, granted(Content), granted(Privacy))
    [] h = "membership" -> TenantMembershipAccess(p, confined)
    [] h = "attachmentRead" ->
         SecurityDocAttachmentRead(p, confined, granted(Privacy))
    [] h = "users" -> SelfOrMenuAccess(p, granted(Content))
    [] h = "members" -> MemberSelfOrManageAccess(p, granted(Content))

-----------------------------------------------------------------------------
(* Requests.                                                               *)

\* Which keys a helper resolves: none when it has decided before.
Needed(h, p, confined) ==
  IF p.kind = "anonymous" \/ confined \/ p.super \/ h = "membership" THEN {}
  ELSE CASE h = "securityDoc" -> {Content, Privacy}
         [] h = "attachmentRead" -> IF p.sites = {} THEN {} ELSE {Privacy}
         [] h \in {"users", "members"} -> IF p.kind = "member" THEN {} ELSE {Content}
         [] OTHER -> {Content}

\* A key of a request: waiting, read from the database but not yet answered, or
\* resolved to an id or to None.
Pending == [st |-> "wait", id |-> NoMenu]
Lookup == [st: {"wait", "read", "done"}, id: MenuIds \cup {NoMenu}]

IdleRequest == [st |-> "idle", helper |-> "menu", who |-> Anonymous, confined |-> FALSE,
         ids |-> [k \in Keys |-> Pending], young |-> FALSE, rows |-> {}]

LiveMenus == {i \in MenuIds : menus[i] \in Keys}
Carries(k) == {i \in MenuIds : menus[i] = k}
Resolved(r) == [k \in Keys |-> req[r].ids[k].id]

AccessTypeOK ==
  /\ menus \in [MenuIds -> Keys \cup {UnbornMenu, GoneMenu}]
  /\ cache \in [Keys -> MenuIds \cup {NoMenu}]
  /\ bore \subseteq MenuIds \X Keys
  /\ req \in [Requests ->
       [st: {"idle", "begun", "open", "done"}, helper: Helpers, who: Principals,
        confined: BOOLEAN, ids: [Keys -> Lookup], young: BOOLEAN,
        rows: SUBSET TenantRow]]

AccessInit ==
  /\ menus \in [MenuIds -> Keys \cup {UnbornMenu}]
  /\ \A i, j \in MenuIds : menus[i] \in Keys /\ menus[i] = menus[j] => i = j
  /\ cache = [k \in Keys |-> IF Carries(k) = {} THEN NoMenu
                             ELSE CHOOSE i \in Carries(k) : TRUE]
  /\ bore = {w \in MenuIds \X Keys : menus[w[1]] = w[2]}
  /\ req = [r \in Requests |-> IdleRequest]

\* The JWT strategy fetches the principal and calls the access function.
Begin(r) ==
  /\ req[r].st = "idle"
  /\ \E p \in Principals, h \in Helpers :
       /\ Plausible(p) /\ p.grants \subseteq LiveMenus
       /\ req' = [req EXCEPT ![r] =
                    [IdleRequest EXCEPT !.st = "begun", !.who = p, !.helper = h]]
  /\ UNCHANGED <<menus, cache, bore>>

\* isTwoFactorEnrolmentConfined: the answer is kept for the rest of the request.
Confine(r, required) ==
  /\ req[r].st = "begun"
  /\ req' = [req EXCEPT ![r].st = "open",
                        ![r].confined = req[r].who.kind = "admin" /\ required
                                        /\ ~req[r].who.confirmed]
  /\ UNCHANGED <<menus, cache, bore>>

Wanted(r) ==
  IF req[r].st = "open"
  THEN {k \in Needed(req[r].helper, req[r].who, req[r].confined) :
          req[r].ids[k].st = "wait"}
  ELSE {}

\* resolveAdminMenuId on a hit.
ResolveHit(r, k) ==
  /\ k \in Wanted(r) /\ cache[k] # NoMenu
  /\ req' = [req EXCEPT ![r].ids[k] = [st |-> "done", id |-> cache[k]]]
  /\ UNCHANGED <<menus, cache, bore>>

\* Mutant: the authoritative check trusts the cache, as the one of the sidebar does.
ResolveRead_CacheOnly(r, k) ==
  /\ k \in Wanted(r) /\ cache[k] = NoMenu
  /\ req' = [req EXCEPT ![r].ids[k] = [st |-> "done", id |-> NoMenu]]
  /\ UNCHANGED <<menus, cache, bore>>

\* resolveAdminMenuId on a miss: the query, which may find nothing ...
ResolveRead(r, k) ==
  /\ k \in Wanted(r) /\ cache[k] = NoMenu
  /\ IF Carries(k) = {}
     THEN req' = [req EXCEPT ![r].ids[k] = [st |-> "done", id |-> NoMenu]]
     ELSE \E i \in Carries(k) :
            req' = [req EXCEPT ![r].ids[k] = [st |-> "read", id |-> i]]
  /\ UNCHANGED <<menus, cache, bore>>

\* ... and the back-fill of the cache with the row it found.
ResolveFill(r, k) ==
  /\ req[r].st = "open" /\ req[r].ids[k].st = "read"
  /\ cache' = [cache EXCEPT ![k] = req[r].ids[k].id]
  /\ req' = [req EXCEPT ![r].ids[k].st = "done"]
  /\ UNCHANGED <<menus, bore>>

\* Every key is resolved: the access function returns its filter.
Answer(r) ==
  /\ req[r].st = "open"
  /\ \A k \in Needed(req[r].helper, req[r].who, req[r].confined) :
       req[r].ids[k].st = "done"
  /\ req' = [req EXCEPT ![r].st = "done",
       ![r].rows = Visible(req[r].helper, req[r].who, req[r].confined, Resolved(r))]
  /\ UNCHANGED <<menus, cache, bore>>

Finish(r) ==
  /\ req[r].st = "done"
  /\ req' = [req EXCEPT ![r] = IdleRequest]
  /\ UNCHANGED <<menus, cache, bore>>

-----------------------------------------------------------------------------
(* The menu rows.  Saving one does not touch the cache.                    *)

Age == [r \in Requests |->
  IF req[r].st \in {"begun", "open"} THEN [req[r] EXCEPT !.young = TRUE] ELSE req[r]]

\* menuKey is unique and a live row is given one of the keys.
Rename(i, k) ==
  /\ menus[i] \in Keys /\ Carries(k) = {}
  /\ menus' = [menus EXCEPT ![i] = k]
  /\ bore' = bore \cup {<<i, k>>}
  /\ req' = Age
  /\ UNCHANGED cache

CreateMenu(i, k) ==
  /\ menus[i] = UnbornMenu /\ Carries(k) = {}
  /\ menus' = [menus EXCEPT ![i] = k]
  /\ bore' = bore \cup {<<i, k>>}
  /\ req' = Age
  /\ UNCHANGED cache

\* The foreign keys of the grants cascade, so no role read later holds the id.
DeleteMenu(i) ==
  /\ menus[i] \in Keys
  /\ menus' = [menus EXCEPT ![i] = GoneMenu]
  /\ UNCHANGED <<cache, req, bore>>

\* A restart ends the requests; warmAdminMenuKeyCache runs before the next one.
Restart ==
  /\ cache' = [k \in Keys |-> IF Carries(k) = {} THEN NoMenu
                              ELSE CHOOSE i \in Carries(k) : TRUE]
  /\ bore' = {w \in MenuIds \X Keys : menus[w[1]] = w[2]}
  /\ req' = [r \in Requests |-> IdleRequest]
  /\ UNCHANGED menus

AccessNext ==
  \/ \E r \in Requests : Begin(r)
  \/ \E r \in Requests, required \in BOOLEAN : Confine(r, required)
  \/ \E r \in Requests, k \in Keys : ResolveHit(r, k)
  \/ \E r \in Requests, k \in Keys : ResolveRead(r, k)
  \/ \E r \in Requests, k \in Keys : ResolveFill(r, k)
  \/ \E r \in Requests : Answer(r) \/ Finish(r)
  \/ \E i \in MenuIds, k \in Keys : Rename(i, k)
  \/ \E i \in MenuIds, k \in Keys : CreateMenu(i, k)
  \/ \E i \in MenuIds : DeleteMenu(i)
  \/ Restart

AccessSpec == AccessInit /\ [][AccessNext]_accessVars

-----------------------------------------------------------------------------
(* Properties.                                                             *)

Done(r) == req[r].st = "done"

\* However stale, an id a request decides with has carried the key it was asked
\* for since the process started: the cache never answers for another key, and a
\* grant of a menu that never bore the key opens nothing (resolveAdminMenuId).
Grounded ==
  /\ \A k \in Keys : cache[k] # NoMenu => <<cache[k], k>> \in bore
  /\ \A r \in Requests, k \in Keys :
       req[r].ids[k].id # NoMenu => <<req[r].ids[k].id, k>> \in bore

\* A menu row was renamed or deleted since the process started.
Disturbed == \E w \in bore : menus[w[1]] # w[2]

\* Until a menu row is renamed or deleted, the cache is invisible: a request that
\* no new menu overlaps answers as if every key were looked up in the database,
\* menus created long after boot included (hasMenuAccess, "self-heals on a miss").
AnswersAreLive ==
  [][\A r \in Requests :
       (~Disturbed /\ req[r].st = "open" /\ ~req[r].young /\ req'[r].st = "done") =>
       req'[r].rows = Visible(req[r].helper, req[r].who, req[r].confined,
         [k \in Keys |-> IF Carries(k) = {} THEN NoMenu ELSE CHOOSE i \in Carries(k) : TRUE])
    ]_accessVars

\* An administrator who must still enrol sees nothing but the own account, through
\* whichever access function, super or not (twoFactorConfinement.ts:32).
ConfinedSeesOwnAccount ==
  \A r \in Requests :
    Done(r) /\ req[r].confined =>
      req[r].rows \subseteq OwnTenantRows /\ (req[r].rows # {} => req[r].helper = "users")

\* A row of the security-document class is shown to super administrators and to
\* holders of a menu that has borne the privacy key; an ordinary board or post to
\* holders of the content key: the two audiences of one collection stay apart
\* (securityDocs.ts:20).
ClassesStayApart ==
  \A r \in Requests : \A w \in req[r].rows :
    Done(r) /\ ~req[r].who.super =>
      LET held(k) == \E i \in req[r].who.grants : <<i, k>> \in bore IN
      /\ req[r].helper \in {"securityDoc", "attachmentRead"} /\ w.secure => held(Privacy)
      /\ req[r].helper = "securityDoc" /\ ~w.secure => held(Content)

\* Nobody but a super administrator reads a row of a site not assigned, and an
\* update the filter lets through cannot carry a row out of the assigned sites
\* either: the guard of writes covers what a filter on stored rows cannot
\* (tenantMembershipGuard).
SitesStayApart ==
  \A r \in Requests :
    Done(r) /\ ~req[r].who.super
    /\ req[r].helper \in {"tenant", "securityDoc", "membership", "attachmentRead", "members"}
    => \A w \in req[r].rows :
         \/ w.site \in req[r].who.sites
            /\ \A s \in Sites : GuardAccepts(req[r].who, s) => s \in req[r].who.sites
         \/ w.own /\ req[r].who.kind = "member"

\* Whatever access function answers, and however stale its menu ids: nobody gets a
\* row that neither a grant, a site, the class of the row nor the enrolment allows
\* (src/access).
AnswersWithinRights ==
  AccessTypeOK /\ Grounded /\ ConfinedSeesOwnAccount /\ ClassesStayApart /\ SitesStayApart

\* "Renaming a menuKey ... silently revokes that grant (the old key no longer
\* resolves to anything)" (AdminMenus.ts:39).
OldKeysResolveToNothing ==
  \A k \in Keys : cache[k] # NoMenu => menus[cache[k]] = k

=============================================================================
