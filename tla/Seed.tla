---------------------------------- MODULE Seed ----------------------------------
(***************************************************************************)
(* The seed (src/seed): a registry of steps, run in order, that fills an   *)
(* installation.  It is triggered from the command line or by GET /seed,   *)
(* whose function is cut off after a minute and is meant to be called      *)
(* again; nothing keeps two triggers apart.                                *)
(*                                                                         *)
(* A step looks a row up by a natural key and creates what it does not     *)
(* find.  A list of alike rows is one row here, two where the second needs *)
(* the first.  A row created together with others is a group: only its key *)
(* is looked up.                                                           *)
(***************************************************************************)
EXTENDS Naturals, Sequences, SequencesExt

CONSTANTS
  Triggers,   \* runs, each started at most once
  MaxTrouble  \* how often a run is cut off, overlapped, or somebody else comes between

ASSUME SeedAssumption == MaxTrouble \in Nat

VARIABLES
  rows,       \* the natural keys there is a row of
  fields,     \* what is set in each field the seed heals
  runs,       \* the runs: where in the plan, and what was read
  passwords,  \* SEED_ADMIN_PASSWORD and SEED_MEMBER_PASSWORD are set, or it is no production
  trouble,    \* how often that may still happen
  overlapped, \* history: two runs were active at once
  torn,       \* history: keys of groups a cut or a refusal fell into
  twins       \* history: keys created twice before any overlap

seedVars == <<rows, fields, runs, passwords, trouble, overlapped, torn, twins>>

-----------------------------------------------------------------------------
(* What a step is made of.                                                 *)

Op(kind, key, list, needs) ==
  [kind |-> kind, key |-> key, list |-> list, needs |-> needs,
   field |-> "none", values |-> {}]

\* Throw when a row is missing.
Require(needs) == Op("require", "none", <<>>, needs)

\* Go on with the next step when a row is missing.
SkipUnless(needs) == Op("skip", "none", <<>>, needs)

\* Find the key, or create the list, which the key is part of.
Group(key, list) == Op("create", key, list, {})
Ensure(key) == Group(key, <<key>>)

\* An account with a password, which production wants from the environment.
EnsureAccount(key) == Op("account", key, <<key>>, {})

\* A row that throws on its own when another one is missing.
EnsureWith(key, needs) == Op("create", key, <<key>>, needs)

\* A field of a row is given the values it lacks.
Heal(key, field, values) ==
  [Op("heal", key, <<>>, {}) EXCEPT !.field = field, !.values = values]

-----------------------------------------------------------------------------
(* The steps.                                                              *)

\* Parents come before their children.
adminMenusStep == <<Ensure("adminMenus"), EnsureWith("adminMenus.child", {"adminMenus"})>>

rolesStep == <<Ensure("ROLE_ADMIN")>>

superAdminStep ==
  <<Require({"ROLE_ADMIN"}), EnsureAccount("superAdmin"),
    Heal("superAdmin", "superAdmin.roles", {"ROLE_ADMIN"}),
    Heal("superAdmin", "superAdmin.status", {"active"})>>

sitesStep == <<Ensure("bos"), Ensure("demo")>>

codesStep == <<Ensure("SYS"), Ensure("SYS.group"), Ensure("SYS.code")>>

departmentsStep == <<Ensure("Head Office"), Ensure("Development")>>

passwordPoliciesStep == <<Ensure("passwordPolicy")>>

adminIpRulesStep == <<SkipUnless({"bos"}), Ensure("adminIpRules")>>

boardTypesStep == <<Ensure("boardTypes")>>

boardsStep ==
  <<Require({"demo"}), EnsureWith("Notice", {"boardTypes"}),
    EnsureWith("Gallery", {"boardTypes"})>>

profanityWordsStep == <<Ensure("profanityWords")>>

memberBannedWordsStep == <<Ensure("memberBannedWords")>>

\* The image is uploaded before the post that is looked up.
postsStep ==
  <<Require({"demo"}), Require({"Notice", "Gallery"}), Ensure("posts"),
    Group("gallery post", <<"gallery image", "gallery post">>)>>

displayComponentsStep ==
  <<Require({"demo", "bos"}), Ensure("display image"), Ensure("display items")>>

\* A board that is missing leaves its menu unbound; the page gets a second version.
contentMenusStep ==
  <<Require({"demo"}), Ensure("Home"), Ensure("Notice menu"),
    Group("home page", <<"home page", "home page v2">>),
    Ensure("shortUrls"), Ensure("helpEntries")>>

\* The header notice is written again until it is the seed's.
ensureNoticeBoard ==
  <<SkipUnless({"boardTypes"}), Ensure("Notice"), Ensure("Notices menu"),
    Heal("Notice", "Notice.header", {"set"}),
    Group("welcome post", <<"welcome file", "welcome post">>)>>

publicSiteStep ==
  <<Require({"demo"}), Heal("demo", "demo.basics", {"set"}),
    Ensure("About"), Ensure("Introduction"), Ensure("introduction page"),
    Ensure("guideMenus")>> \o ensureNoticeBoard

termsStep ==
  <<Require({"demo"}), Ensure("terms"),
    Group("privacy terms", <<"privacy terms", "privacy terms v2">>)>>

membersStep == <<Require({"demo"}), EnsureAccount("members")>>

\* A draft, its questions, its window, which freezes them, and then responses.
surveysStep ==
  <<Require({"demo"}),
    Group("survey", <<"survey", "survey questions", "survey window", "survey responses">>)>>

\* Only the first rating and the first view are looked for, whoever left them.
statisticsStep ==
  <<Require({"demo"}), SkipUnless({"Introduction"}),
    Heal("Introduction", "Introduction.personInCharge", {"set"}),
    Group("ratings", <<"ratings", "ratings rest">>),
    Group("pageViews", <<"pageViews", "pageViews rest", "rollups">>),
    Heal("gallery post", "gallery post.downloads", {"set"})>>

errorLogsStep == <<Group("errorLogs", <<"errorLogs", "errorLogs rest">>)>>

personalInfoAccessLogsStep ==
  <<Group("personalInfoAccessLogs",
          <<"personalInfoAccessLogs", "personalInfoAccessLogs rest">>)>>

\* The example administrators are set back to pending.
privacyRolesStep ==
  <<Require({"adminMenus.child"}), Ensure("privacy roles"),
    Heal("superAdmin", "superAdmin.roles", {"PRIVACY_OFFICER"}),
    Ensure("privacy admins"),
    Heal("privacy admins", "privacy admins.status", {"pending"})>>

securityDocsStep ==
  <<Require({"demo"}), Require({"boardTypes"}), Ensure("security boards"),
    Ensure("security posts")>>

privacyMenuGrantsStep ==
  <<Require({"adminMenus.child"}),
    Heal("privacy roles", "privacy roles.grants", {"menus"})>>

standardizationRolesStep ==
  <<Require({"adminMenus.child"}), Ensure("ROLE_DBA"),
    Heal("ROLE_DBA", "ROLE_DBA.grants", {"menus"}),
    Heal("superAdmin", "superAdmin.roles", {"ROLE_DBA"})>>

standardizationPreloadStep ==
  <<Ensure("standardDomains"), Ensure("standardWords"), Ensure("standardTerms")>>

seedTableSettings == <<Ensure("tableStandardSettings")>>

\* A proposal to edit is left out while its dictionary row is missing.
seedProposals ==
  <<Ensure("proposal to register"), [Ensure("proposal to edit") EXCEPT !.kind = "optional",
      !.needs = {"standardTerms"}]>>

seedHistoricalSelfChecks == <<Ensure("selfChecks")>>

standardizationEngineStep == seedTableSettings \o seedProposals \o seedHistoricalSelfChecks

accessibilityScanStep ==
  <<SkipUnless({"demo"}), Heal("demo", "demo.validation", {"popup_db"}), Ensure("scans")>>

richOrgTreeStep == <<Require({"Head Office"}), Ensure("division"), Ensure("team")>>

richCodesStep == <<Ensure("SVC"), Ensure("SVC.group"), Ensure("SVC.code"), Ensure("SVC.child")>>

\* A role takes the menus there are; so does an account its role and department.
richAdminsStep == <<Ensure("demo roles"), EnsureAccount("demo admins")>>

\* A board that exists is given the seed's settings again.
ensureBoard(key, field) == <<Ensure(key), Heal(key, field, {"rich"})>>

\* A post with a file: the file comes first, and only the post is looked up.
ensurePost(key, file) == <<Group(key, <<file, key>>)>>

richBoardsAndPostsStep ==
  <<Require({"demo"}), Require({"boardTypes"})>>
    \o ensureBoard("Notice", "Notice.settings") \o <<Ensure("Press Releases")>>
    \o ensureBoard("Gallery", "Gallery.settings") \o <<Ensure("press posts")>>
    \o ensurePost("photo posts", "photos")

richSecurityDocsStep ==
  <<Require({"demo"}), SkipUnless({"security boards"}), Ensure("more security posts")>>

richMembersStep == <<Require({"demo"}), EnsureAccount("demo members")>>

seedSurvey ==
  Group("surveys", <<"surveys", "surveys questions", "surveys window", "surveys responses">>)

richSurveysStep == <<Require({"demo"}), seedSurvey>>

\* Each menu with its page, and then its children.
walkMenus ==
  <<Ensure("demo menus"), Group("demo page", <<"demo page", "demo page v2">>),
    Ensure("demo submenus")>>

richSiteStructureStep ==
  <<Require({"demo"})>> \o walkMenus
    \o <<Ensure("demo short urls"), Ensure("demo help"), Ensure("demo guide menus")>>

richDisplayStep ==
  <<Require({"demo"}), Require({"bos"}), Ensure("demo images"), Ensure("demo display items")>>

\* The views are told by their session key, the ratings by their hash.
richStatisticsStep ==
  <<Require({"demo"}),
    Group("demo views", <<"demo views", "demo views rest", "demo rollups">>),
    Group("demo ratings", <<"demo ratings", "demo ratings rest">>),
    Heal("photo posts", "photo posts.downloads", {"set"})>>

richPrivacyHistoryStep ==
  <<Group("demo logins", <<"demo logins", "demo logins rest">>),
    Group("demo accesses", <<"demo accesses", "demo accesses rest">>)>>

\* The registry, in the order of src/seed/index.ts.
seedSteps ==
  <<adminMenusStep, rolesStep, superAdminStep, sitesStep, codesStep, departmentsStep,
    passwordPoliciesStep, adminIpRulesStep, boardTypesStep, boardsStep,
    profanityWordsStep, memberBannedWordsStep, postsStep, displayComponentsStep,
    contentMenusStep, publicSiteStep, termsStep, membersStep, surveysStep,
    statisticsStep, errorLogsStep, personalInfoAccessLogsStep, privacyRolesStep,
    securityDocsStep, privacyMenuGrantsStep, standardizationRolesStep,
    standardizationPreloadStep, standardizationEngineStep, accessibilityScanStep,
    richOrgTreeStep, richCodesStep, richAdminsStep, richBoardsAndPostsStep,
    richSecurityDocsStep, richMembersStep, richSurveysStep, richSiteStructureStep,
    richDisplayStep, richStatisticsStep, richPrivacyHistoryStep>>

-----------------------------------------------------------------------------
(* What the plan is about.                                                 *)

Ops == UNION {Range(seedSteps[i]) : i \in DOMAIN seedSteps}

SeedRow == UNION {Range(op.list) : op \in Ops} \cup {"adminMenus"}

Field == {op.field : op \in Ops} \ {"none"}

Value == UNION {op.values : op \in Ops}

\* Keys a unique index guards.
Unique ==
  {"adminMenus", "adminMenus.child", "ROLE_ADMIN", "superAdmin", "bos", "demo", "SYS",
   "SYS.group", "SYS.code", "boardTypes", "profanityWords", "memberBannedWords",
   "home page", "introduction page", "terms", "privacy terms", "members",
   "privacy roles", "privacy admins", "ROLE_DBA", "standardDomains", "standardWords",
   "standardTerms", "tableStandardSettings", "selfChecks", "SVC", "SVC.group",
   "SVC.code", "SVC.child", "demo roles", "demo admins", "demo members", "demo page"}

\* Lists of ids, written back with what is missing added; other fields are replaced.
Lists == {"superAdmin.roles", "privacy roles.grants", "ROLE_DBA.grants"}

\* What a field holds when its row is created.
Born ==
  [f \in Field |->
    CASE f = "superAdmin.roles" -> {"ROLE_ADMIN"}
      [] f = "superAdmin.status" -> {"active"}
      [] f = "privacy admins.status" -> {"pending"}
      [] f = "ROLE_DBA.grants" -> {"menus"}
      [] OTHER -> {}]

\* Rows that visitors and administrators leave too.
Outside == {"errorLogs", "personalInfoAccessLogs", "pageViews", "ratings"}

Creating == {"create", "account", "optional"}

Operation ==
  [kind : Creating \cup {"require", "skip", "heal"}, key : STRING, list : Seq(STRING),
   needs : SUBSET STRING, field : STRING, values : SUBSET STRING]

\* The places of the plan, in its order, and the keys that are there before one.
Place == UNION {{i} \X DOMAIN seedSteps[i] : i \in DOMAIN seedSteps}

At(p) == seedSteps[p[1]][p[2]]

Earlier(p, q) == p[1] < q[1] \/ (p[1] = q[1] /\ p[2] < q[2])

Ensured(p) == {At(q).key : q \in {q \in Place : Earlier(q, p) /\ At(q).kind \in Creating}}

\* What the order and the keys of the plan rest on.  A row is relied on, or healed,
\* only after an operation that finds or creates it; the row a group is found by is
\* one of the group; a row belongs to one group; and two operations on one field agree.
PlanFits ==
  /\ seedSteps \in Seq(Seq(Operation) \ {<<>>}) \ {<<>>}
  /\ Born \in [Field -> SUBSET Value]
  /\ \A p \in Place : LET op == At(p) IN
       /\ op.needs \subseteq Ensured(p)
       /\ op.kind \in Creating => op.key \in Range(op.list) /\ IsInjective(op.list)
       /\ op.kind \notin Creating => op.list = <<>>
       /\ op.kind = "heal" =>
            op.key \in Ensured(p) \ Outside /\ op.field # "none"
  /\ \A o, p \in Ops :
       /\ Range(o.list) \cap Range(p.list) # {} =>
            o.key = p.key /\ o.list = p.list /\ (Len(o.list) > 1 => o = p)
       /\ o.kind = "heal" /\ p.kind = "heal" /\ o.field = p.field =>
            o.key = p.key /\ (o.field \in Lists \/ o.values = p.values)

ASSUME PlanAssumption == PlanFits

SeedTypeOK ==
  /\ rows \cup twins \subseteq SeedRow \cup Outside
  /\ fields \in [Field -> SUBSET Value]
  /\ runs \in [Triggers ->
       [st : {"idle", "running", "done", "missing", "refused", "cut"},
        i : 1..Len(seedSteps), j : Nat \ {0}, at : Nat, seen : SUBSET Value,
        clean : BOOLEAN]]
  /\ passwords \in BOOLEAN
  /\ trouble \in 0..MaxTrouble
  /\ overlapped \in BOOLEAN
  /\ torn \subseteq SeedRow \cup Outside

SeedInit ==
  /\ rows = {} /\ twins = {}
  /\ fields = [f \in Field |-> {}]
  /\ runs = [r \in Triggers |->
       [st |-> "idle", i |-> 1, j |-> 1, at |-> 0, seen |-> {}, clean |-> TRUE]]
  /\ passwords \in BOOLEAN
  /\ trouble = MaxTrouble
  /\ overlapped = FALSE
  /\ torn = {}

-----------------------------------------------------------------------------
(* A run.                                                                  *)

Running(r) == runs[r].st = "running"

Current(r) == seedSteps[runs[r].i][runs[r].j]

Exist(keys) == keys \subseteq rows

\* The first operation of the next step, or the end.
NextStep(run) ==
  IF run.i < Len(seedSteps) THEN [run EXCEPT !.i = @ + 1, !.j = 1, !.at = 0, !.seen = {}]
  ELSE [run EXCEPT !.st = "done", !.at = 0, !.seen = {}]

NextOp(run) ==
  IF run.j < Len(seedSteps[run.i]) THEN [run EXCEPT !.j = @ + 1, !.at = 0, !.seen = {}]
  ELSE NextStep(run)

\* After a row of a group comes the next one.
Created(r) ==
  IF runs[r].at < Len(Current(r).list) THEN [runs[r] EXCEPT !.at = @ + 1]
  ELSE NextOp(runs[r])

SetRun(r, run) == runs' = [runs EXCEPT ![r] = run]

Stop(r, st) == SetRun(r, [runs[r] EXCEPT !.st = st])

\* runSeed is called ...
SeedStart(r) ==
  /\ runs[r].st = "idle" /\ \A q \in Triggers : ~Running(q)
  /\ Stop(r, "running")
  /\ UNCHANGED <<rows, fields, passwords, trouble, overlapped, torn, twins>>

\* ... or is called while it still runs.
SeedOverlap(r) ==
  /\ runs[r].st = "idle" /\ \E q \in Triggers : Running(q)
  /\ trouble > 0 /\ trouble' = trouble - 1
  /\ Stop(r, "running") /\ overlapped' = TRUE
  /\ UNCHANGED <<rows, fields, passwords, torn, twins>>

\* A row the step or the create relies on is there, or not: then the run throws, or
\* leaves the rest of the step out.
Check(r) ==
  LET op == Current(r) IN
  /\ Running(r) /\ op.kind \in {"require", "skip"}
  /\ SetRun(r, IF Exist(op.needs) THEN NextOp(runs[r])
               ELSE IF op.kind = "skip" THEN NextStep(runs[r])
               ELSE [runs[r] EXCEPT !.st = "missing"])
  /\ UNCHANGED <<rows, fields, passwords, trouble, overlapped, torn, twins>>

\* Mutant: rows are created without being looked up.
Find_Blind(r) ==
  /\ Running(r) /\ Current(r).kind \in Creating /\ runs[r].at = 0
  /\ SetRun(r, [runs[r] EXCEPT !.at = 1])
  /\ UNCHANGED <<rows, fields, passwords, trouble, overlapped, torn, twins>>

\* The key is looked up; a missing account may be refused for its password.
Find(r) ==
  LET op == Current(r) IN
  /\ Running(r) /\ op.kind \in Creating /\ runs[r].at = 0
  /\ SetRun(r, IF Exist({op.key}) \/ (op.kind = "optional" /\ ~Exist(op.needs))
               THEN NextOp(runs[r])
               ELSE IF ~Exist(op.needs) THEN [runs[r] EXCEPT !.st = "missing"]
               ELSE IF op.kind = "account" /\ ~passwords
                    THEN [runs[r] EXCEPT !.st = "refused"]
               ELSE [runs[r] EXCEPT !.at = 1])
  /\ UNCHANGED <<rows, fields, passwords, trouble, overlapped, torn, twins>>

\* The rest of a group is left out for good once its first rows are there.
Tears(r) == IF runs[r].at > 1 THEN {Current(r).key} ELSE {}

\* One row is created, or a unique index refuses it and the run ends.
CreateRow(r) ==
  LET op == Current(r)
      k == op.list[runs[r].at] IN
  /\ Running(r) /\ op.kind \in Creating /\ runs[r].at > 0
  /\ IF k \in Unique /\ Exist({k})
     THEN /\ Stop(r, "refused") /\ torn' = torn \cup Tears(r)
          /\ UNCHANGED <<rows, fields, twins>>
     ELSE /\ rows' = rows \cup {k}
          /\ twins' = IF Exist({k}) /\ ~overlapped THEN twins \cup {k} ELSE twins
          /\ fields' = [f \in Field |->
               IF \E h \in Ops : h.kind = "heal" /\ h.key = k /\ h.field = f
               THEN Born[f] ELSE fields[f]]
          /\ SetRun(r, Created(r))
          /\ UNCHANGED torn
  /\ UNCHANGED <<passwords, trouble, overlapped>>

\* What a field holds is read with its row ...
ReadField(r) ==
  LET op == Current(r) IN
  /\ Running(r) /\ op.kind = "heal" /\ runs[r].at = 0
  /\ SetRun(r, IF Exist({op.key}) /\ ~(op.values \subseteq fields[op.field])
               THEN [runs[r] EXCEPT !.at = 1, !.seen = fields[op.field]]
               ELSE NextOp(runs[r]))
  /\ UNCHANGED <<rows, fields, passwords, trouble, overlapped, torn, twins>>

\* Mutant: the list is replaced by what it lacked.
WriteField_Replaces(r) ==
  LET op == Current(r) IN
  /\ Running(r) /\ op.kind = "heal" /\ runs[r].at = 1
  /\ fields' = [fields EXCEPT ![op.field] = op.values]
  /\ SetRun(r, NextOp(runs[r]))
  /\ UNCHANGED <<rows, passwords, trouble, overlapped, torn, twins>>

\* ... and written back with what it lacked.
WriteField(r) ==
  LET op == Current(r) IN
  /\ Running(r) /\ op.kind = "heal" /\ runs[r].at = 1
  /\ fields' = [fields EXCEPT ![op.field] =
       IF op.field \in Lists THEN runs[r].seen \cup op.values ELSE op.values]
  /\ SetRun(r, NextOp(runs[r]))
  /\ UNCHANGED <<rows, passwords, trouble, overlapped, torn, twins>>

\* The function is cut off, wherever the run is.
Cut(r) ==
  /\ Running(r) /\ trouble > 0
  /\ Stop(r, "cut")
  /\ trouble' = trouble - 1
  /\ torn' = torn \cup Tears(r)
  /\ UNCHANGED <<rows, fields, passwords, overlapped, twins>>

-----------------------------------------------------------------------------
(* Everybody else.                                                         *)

\* An operator changes a field the seed has set.
EditField(f) ==
  /\ trouble > 0 /\ fields[f] # {}
  /\ \E v \in fields[f] : fields' = [fields EXCEPT ![f] = @ \ {v}]
  /\ trouble' = trouble - 1
  /\ runs' = [r \in Triggers |-> [runs[r] EXCEPT !.clean = runs[r].st = "idle"]]
  /\ UNCHANGED <<rows, passwords, overlapped, torn, twins>>

\* A visitor's view, rating or error, or an administrator's look at a member, comes
\* before the seed's own.
LeaveRow(k) ==
  /\ trouble > 0 /\ ~Exist({k})
  /\ rows' = rows \cup {k}
  /\ trouble' = trouble - 1
  /\ torn' = torn \cup {k}
  /\ UNCHANGED <<fields, runs, passwords, overlapped, twins>>

\* The environment is changed by a new deployment.
SetPasswords ==
  /\ ~passwords /\ passwords' = TRUE
  /\ \A r \in Triggers : ~Running(r)
  /\ UNCHANGED <<rows, fields, runs, trouble, overlapped, torn, twins>>

RunNext(r) == Check(r) \/ Find(r) \/ CreateRow(r) \/ ReadField(r) \/ WriteField(r)

SeedNext ==
  \/ \E r \in Triggers : SeedStart(r) \/ SeedOverlap(r) \/ RunNext(r) \/ Cut(r)
  \/ \E f \in Field : EditField(f)
  \/ \E k \in Outside : LeaveRow(k)
  \/ SetPasswords

SeedSpec == SeedInit /\ [][SeedNext]_seedVars

\* A run that is not cut off goes on, and who triggers the seed does so again until
\* it has completed.
SeedFairSpec ==
  /\ SeedSpec
  /\ \A r \in Triggers : WF_seedVars(RunNext(r)) /\ WF_seedVars(SeedStart(r))

-----------------------------------------------------------------------------
(* Properties.                                                             *)

\* No natural key is ever there twice, unless two runs overlapped; a file uploaded
\* for a row that was cut off before it was created is uploaded again.
NoTwins ==
  \A k \in twins \ Outside :
    \E op \in Ops : op.key \in torn /\ k \in Range(op.list) \ {op.key}

\* A group whose key is found is whole, so that skipping it loses nothing - unless a
\* cut or a refusal fell into it, or the key was left by somebody else.
GroupsWhole ==
  \A op \in Ops :
    op.key \in SeedRow /\ Exist({op.key}) =>
      \/ Exist(Range(op.list)) \/ op.key \in torn
      \/ \E r \in Triggers : Running(r) /\ Current(r) = op /\ runs[r].at > 0

\* The order of the registry is right: no run ever misses a row it relies on, however
\* earlier runs ended.
NothingMissing == \A r \in Triggers : runs[r].st # "missing"

\* A run leaves every field it heals healed: the super administrator has its role and
\* is active, and no later step undoes what an earlier one set - unless an operator
\* edited meanwhile or two runs overlapped, whose stale lists drop each other's values.
HealsHold ==
  \A r \in Triggers : runs[r].st = "done" /\ runs[r].clean /\ ~overlapped =>
    \A op \in Ops : op.kind = "heal" /\ Exist({op.key}) =>
      op.values \subseteq fields[op.field]

\* What a seeding leaves behind, however runs were cut, refused or overlapped
\* (seed/route.ts).
SeedIsSound == SeedTypeOK /\ NoTwins /\ GroupsWhole /\ NothingMissing /\ HealsHold

\* With its passwords set, and triggered once more than it is cut off, the seed
\* completes: what an interrupted run left behind never stops the next one - unless
\* two runs overlap, which may refuse each other (seed/route.ts).
SeedCompletes ==
  [](passwords /\ ~overlapped) => <>(\E r \in Triggers : runs[r].st = "done")

\* "If it times out on a large seed, just call it again - completed steps are skipped
\* and it resumes" (seed/route.ts): once a run is through and none is active, everything
\* is there - but for the rest of a group that an earlier run was stopped in, or whose key
\* somebody else left: its key is found, and the rest is never created.
ResumeIsComplete ==
  (\E r \in Triggers : runs[r].st = "done") /\ (\A r \in Triggers : ~Running(r)) =>
    \A op \in Ops : Exist(Range(op.list)) \/ op.key \in torn

=============================================================================
