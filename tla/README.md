# Formal verification of U-CMS

U-CMS is a multi-site content management system for public institutions: a
Next.js application on Payload CMS with a Postgres database. An administration
back-office manages sites, menus, boards, members, surveys and statistics; the
public sites show them and take posts, sign-ups, survey responses, ratings and
page views. This directory holds TLA+ models of the parts whose correctness
depends on the order in which requests read and write, the TLC runs that check
them, and TLAPS proofs of their main properties.

- `*.tla` without prefix: one module per component;
- `MC*.tla` and `*.cfg`: the instances for TLC;
- `*Proofs.tla`: theorems, each module with a section for each component it is about;
  `SumTheorems.tla`: the lemmas on counting and summing they share;
- `PROJECT.json`: components, runs, mutants, the map from definitions to source
  lines, hazards, findings and theorems.

Run a check with `tlc -config Surveys.cfg MCSurveys.tla`, a proof with
`tlapm SurveysSeedProofs.tla`. Each mutant is an operator of a module, named
`<Definition>_<Change>` and marked "Mutant" in its comment; it stands for a
plausible bug, and the run named with it in `PROJECT.json` fails when it takes
the place of the definition.

## 1. The system

Paths are relative to the repository.

| Component | State | Operations | What makes it correct |
|---|---|---|---|
| Admin accounts (`src/auth`, `src/accounts`, `src/endpoints/twoFactorEndpoints.ts`) | `users` rows: status, TOTP secret and confirmation, failure counter, lock; sessions | login with or without OTP, logout, enrol, verify, admin reset and status edits, per-site 2FA switch, dormancy sweep | guesses are bounded, locks end, a deactivated account is out, a confirmed secret was proved |
| Access control (`src/access`, `Roles`, `AdminMenus`) | roles, grants, tenant assignments; a process-wide cache of menu keys | a decision for every collection access | no cross-tenant access; unenrolled administrators are confined; the cache is invisible |
| Admin IP allowlist (`src/proxy.ts`, `src/security`) | `adminIpRules` | edit rules, decide a request | default-deny; a forged header changes nothing |
| Sign-up and applications (`src/members`, `src/accounts`, terms) | `members`, `users`, consents, term versions | apply, approve, edit, delete; publish terms | keys unique, consents refer to what was published, nobody activates himself |
| Member sessions (`src/auth/memberHooks.ts`, `src/members`) | `members` rows with their sessions; cookies | login, logout, profile, status, recovery | deactivation is final for old sessions |
| Boards, posts, attachments (`src/collections/boards`, `src/collections/posts`, `Attachments.ts`) | `securityDoc` of boards, posts and attachments; references; rows with numbers and counters | save, move and delete a post; save a board; download | a security document's files are never served as ordinary ones; a number names one file; counts are right |
| Board lists (`src/site/board*.ts`) | none of its own | list, search, page, gallery, FAQ, export | a reader misses nothing; a search probes nothing |
| Menus (`Menus.ts`, `src/site/nav.ts`, `rsc.ts`) | the tree; a cached copy | save, delete; navigation, breadcrumbs, pages | no loops, nothing hidden leaks |
| Sequential ids | numbers of boards, board types, menus | find the largest, add one, insert, retry | unique |
| Codes (`src/collections/codes`) | classifications, groups, a tree of codes; board bindings and choices of posts | save, delete, rebind, choose | unique, resolved, prefix tree |
| Standardization (`src/collections/standardization`, `src/standardization`) | three dictionaries, proposals | direct edits under a lock, propose, approve | an enacted standard changes only through an approved proposal, which applies once |
| Surveys (`src/collections/surveys`, `src/site/survey.ts`) | survey row with a sticky latch, questions, responses | save, edit questions, submit, delete responses, show results | one response each; a started questionnaire is frozen; a skip path is accepted; words stay private |
| Traffic statistics (`src/site/traffic*.ts`) | an in-memory dedup map, raw views, daily rollups | capture, aggregate, prune | each view counted once, nothing pruned uncounted |
| Ratings, short links, popups, guide links | ratings; codes and a hit counter; rows, a cached copy and the browser's storage; links | submit; redirect; show and dismiss; save | one rating each unless raced; codes unique; shown in the window; a limited top bar |
| Rate limiter (`src/security/rateLimit.ts`) | an in-memory map of windows | check | the limit holds, the map stays small |
| Statistics and exports (`src/statistics`, dashboards, `*Export*`) | none of their own | gate, load, filter, page, export | nothing beyond the caller's sites; the file says what the page says |
| Audit trail (`src/audit`, log collections) | append-only logs | append beside an operation, swallow failures | what happened is logged, logging blocks nobody |
| Seed (`src/seed`) | the initial rows | 40 steps, find-or-create | can be resumed |
| Departments, organisation chart, self check, table settings, accessibility scans, UI, e-mail, migrations | rows | create, read, update, delete | field validation |

**How they interact.** Every write goes through Payload: access decision, read of
the stored document, `beforeValidate` and `beforeChange` hooks, the write,
`afterChange` hooks, with nested Local-API calls in the same database transaction
when the hook passes `req` on. Hooks are where the components meet: a saved board
rewrites its posts, a saved post sets flags on attachments, a stored response
marks its survey, an approved proposal writes a dictionary row, almost any save
writes a log row on a second connection. Requests run concurrently in one Node
process or several; Postgres runs their transactions at READ COMMITTED, so a
transaction sees what others committed since its last statement, and row locks only
order writers of the same row.

**What is hard here.** Almost every rule is "read, decide, write", with awaits in
between, and few are backed by a constraint of the database. So the hazards are
stale reads (a login that checks the row it read before the password was
verified), lost updates, hooks of two saves interleaving, caches that outlive what
they copy, an operation re-run after what it reads is gone (aggregation after the
prune), and long sequences of legal operations (moving posts between boards with
shared files). The full list, each at its line and with the properties that would
catch it, is under "hazards" in `PROJECT.json`.

## 2. Modules

Each component module declares its constants with named assumptions, its variables,
one action per operation or per step between two awaits, and ends with its
properties. History variables (named in a comment as such) record what overlapped
what, so that a property can say "unless another save came in between" exactly.

### Accounts and access

**AdminAuth.** One row per user with the columns the login and 2FA code reads and
writes. A login in flight carries the row it read (`snap`): `LoginStart` is Payload's
read and password check, `LoginRefused`, `OtpWrong`, `LoginWithPassword` and
`LoginWithOtp` are the outcomes of the `beforeLogin` hooks on that snapshot, and
`ThrottleTwoFactorFailure` is the `afterError` hook that counts a wrong code by an
atomic increment. `EnrollRead`/`EnrollIssue` and `VerifyRead`/`VerifyConfirm` are the
halves of the enrolment endpoints; `AdminReset`, `SetStatus`, `ToggleTwoFactor` the
edits of the back-office; `SweepFind`/`SweepMark` the dormancy job. Everything that
goes through `payload.update` begins in a slot of `Updates`: the row is read and the
hooks decide, and a later `UpdateWrite` stores the merged row, with the sessions and
the throttle as they were read. The login's own writes and the counting of a miss touch
only their columns. Time is the rest of a lock in ticks.

**Access.** A request reads its principal, the 2FA switch and its menu keys one after
the other and then answers with the rows that the filter of its helper lets through:
`hasMenuAccess` and `resolveAdminMenuId` with their process-wide cache, `tenantAccess`
with the guard of writes, `securityDocs`, `twoFactorConfinement`, the members' filters.
Administrators create, rename and delete menu rows, and the server restarts, between
any two of these reads.

**IpGate.** The forwarding header as proxies build it, the entry `resolveClientIp`
believes, the rules in force at an instant and the decision `evaluateAdminIpRequest`
makes of them.

**Signups.** Applications of members and administrators as the look-ups of
`submitMemberSignup` and `submitAccountRequest`, the two reads of the terms version,
and the create behind the unique indexes; beside them the back-office's saves and the
version history of two terms documents.

**MemberSessions.** One member: logins, profile saves, status changes with the
revocation hook, logouts, the cookie shared with the back-office, and the recovery
request that sends a link.

### Content

**SecurityClass and SecurityDocs.** `SecurityClass` is the abstract specification of
the security-document class: each save, flip and delete is one step, posts carry the
class of their board, and the flags of the touched files are recomputed from all posts.
`SecurityDocs` is the code, statement by statement, with transactions in flight that see
committed rows and their own writes and hold row locks. `Class == INSTANCE
SecurityClass WITH ...` maps the committed rows, and the run `SecurityDocs` checks
`ImplementsClass`: every commit is a step of `SecurityClass` unless some commit overtook
the transaction. Under overlap the promise is broken in ways the code cannot avoid, so
the module also records which posts and files the last writer left (`strays`, `raced`)
and states that nothing else is ever wrong.

**PostFiles.** The attachment rows of a post with their file numbers and download
counters, under forms that write the whole array back, page views and downloads.

**SerialIds.** "Largest plus one" of boards, board types and menus, pinned numbers, the
unique index and the retry.

**BoardList.** Posts of one board, and `ListPage`, `Hits`, `Exported`, `GalleryPage`,
`AllPosts` as the code computes them, for a reader who follows the pager.

**SiteNav.** The tree of menus with overlapping saves (`BeginMenuSave` and the walk of
the ancestors read by read), the cached copy, and `Nav`, `SideMenu`, `PageTrail`,
`PageOpens`, `BoardOpens`, `HomeShowsBoard` as operators on it.

**Display, GuideBars, ShortLinks, Ratings.** Popups and banners with the cached copy
and the dismissals a browser stores; the top bar's limit; codes drawn behind a unique
index and redirects that count; ratings looked up and created.

### Registers

**Surveys.** `SaveBegin` with `Latched` is an administrator's save up to
`latchStartedAt`, on the row it has read; `SaveWrite` writes that row back whole.
`SubmitBegin`, `SubmitDedup`, `SubmitLoad`, `SubmitCreate`, `SubmitCommit`,
`SubmitDuplicate` are `submitSurveyResponse` between its awaits, with the two unique
indexes as `Duplicate`; `SubmitCreate` and `SubmitMark` are the two reads of
`markSurveyStarted`, whose write commits with the response. `EditBegin`/`EditWrite` is
a question edit that checks the freeze and writes later.

**Questionnaire.** The questions of one survey and what becomes of the answers:
`Reachable` is the walk of `reachableQuestionOrders`, `Fits` and `Kept` the rules and
the normal form of `validateSurveyAnswers`, `Answered`, `Picked` and `Verbatim` the
counts and the withheld words of `aggregateSurvey`. `SheetBegin`/`SheetStore` is a
submit from its check to its write, `AuthorBegin`/`AuthorWrite` a question edit,
`PageBegin`/`PageShow` the public page, which reads the questions before the responses.

**Standards.** A save of a proposal and a direct write of a dictionary row keep the row
they read and write the merged row back later. `Applies` is the transition test and the
stamp test of `applyProposalOnApprove`, `ReadTarget` and `Land` its nested update,
`FailToLand` a nested write that throws and rolls back. `Unlocked` is the enacted lock
on the row as read.

**Codes.** `CheckCode` is `validateAndComputeDepth` and the look-up of a taken value,
`WriteCode` the write with the constraints of the database, `DeleteCode` and its
siblings the foreign keys. `stale` names the saves, codes and choices whose parent,
code or board was saved after their own check.

### Measuring and running

**RateLimit.** `Check` is the whole synchronous `RateLimiter.check`, sweep included.

**ViewDedup and Traffic.** The in-memory dedup of the beacon with sweeps and restarts;
then `Capture`/`Insert`/`InsertFails`, whose row carries the day it was received on, and
a job as `JobLoad`, `JobFind`, `JobWrite`, then `JobScan`, `JobCheck`, `JobDelete`,
`JobEnd`: the queries of `aggregateTrafficForDate` and `pruneAgedPageViews`.

**Reports.** Every statistics screen, dashboard widget, export and document read as a
record of its gate, its site scope, its filters and its page or file bound; `View`,
`Export`, `Widget`, `Document` compute what a viewer is answered.

**AuditTrail.** Operations take a connection, lock the rows of their footprint, insert
their logs each on a second connection, and end or roll back; the actor column is a
foreign key that waits for whoever holds the account's row.

**Seed.** The steps in registry order as find-or-create of keys, groups and heals, cut
off anywhere and triggered again, beside other writers.

## 3. What is checked

Bounds are named in the `.cfg` files. Modules that share no state are checked side by
side in one run (`MCMembers`, `MCDisclosure`, `MCRegisters`, `MCSite`, `MCLive`): a
variable `part` says which of them moves while the others rest in one initial state, so
that the run explores the union of their state graphs, each under the `Init` and `Next`
of its own module. The parts take the same model values for their interchangeable ids,
which makes one symmetry set sound for all of them; runs with liveness use none.

A property of a run is often a conjunction of named parts, listed under **Properties**;
each part is defined and commented by itself in its module.

| Run | Instance | Question |
|---|---|---|
| `AdminAuth` | 1 user, 2 logins, 1 update, cap 2, lock of 3 ticks | `BoundedGuesses`, `LockedMeansExhausted`, `InactiveSessionsAreRaced` |
| `AdminAuthEnrol` | 1 user, 1 login, 2 enrolments, 1 update, 2 secrets | `ConfirmedMeansVerified` |
| `Live` | 1 user, 2 logins, cap 1, lock of 3 ticks; the 40 seed steps, 2 triggers, 1 cut or refusal | liveness: `LockRunsOut`, `SeedCompletes`; safety: `SeedIsSound` |
| `SecurityDocs` | 2 boards, 2 posts, 1 file, 2 transactions | refinement `ImplementsClass`; `UndisturbedIsRight` |
| `Surveys` | 1 member, 1 address, 4 forms, 2 rows, 2 submits, 1 save, 1 edit | `OnePerParticipant`, `NoneOutdated`, `StartIsSticky` |
| `Members` | 2 accounts, 2 applicants, 1 login id and e-mail, 2 versions; 1 member, 2 sessions, 2 browsers, 1 login, 2 edits, 1 recovery | `AccountsAreSound`, `ConsentsAreEvidence`, `DeactivatedIsOut`, `InactiveGainsNothing` |
| `Disclosure` | 2 menu rows, 2 keys, 2 sites, 1 request; reports of 3 rows, page 1, file 2; 2 operations, 2 accounts, 4 connections; 3 posts on pages of 1; 3 questions, 2 responses | `AnswersWithinRights`, `AnswersAreLive`, `BlindToTheRest`, `LinkAnswersAlike`, `TrailIsKept`, `StuckOnlyByDeletion`, `ListsAreWhole`, `ResultsAreFaithful` |
| `Registers` | 2 entries, 1 proposal, 2 saves, 1 editor; 2 boards, 3 posts, 2 files; 2 codes, 2 groups, 2 classifications, 2 saves; 3 menus, 2 saves | `LandsExactlyOnce`, `EnactedIsGuarded`, `ClassHolds`, `OutOfPlaceOnlyBySave`, `LoopsOnlyByOverlap`, `StaleNavIsHarmless` |
| `Site` | 2 files, 2 saves, 1 visit, 2 fetches; 3 creates; 1 item, 2 tabs; 3 guides; 2 addresses, 2 rules, 2 proxies; 2 codes, 2 links, 2 hits; 3 submits; 2 views in 7 minutes; 2 jobs, 3 days; 2 keys, 8 instants | `DownloadsAreCounted`, `NumbersAreSound`, `ShownWhenDue`, `TopBarOverfullOnlyByRace`, `OnlyAllowedPass`, `LinksAreSound`, `RatingsAreFair`, `OneViewAWindow`, `ViewsCountedOnce`, `LimitHolds` |
| `AdminAuthVSession` | 1 user, 1 login, 1 update | violation of `InactiveHoldsNoSession` |
| `SecurityClassVShared` | 2 boards, 2 posts, 1 file | violation of `NoSharedReference` |
| `TrafficVRerun` | 1 visitor, 1 job, 3 days | violation of `PermanentRecord` |

Each run takes between a few seconds and three minutes with two workers.

**Why the bounds are enough.** The hazards are races of two requests on one row, so two
slots of a kind, next to one of another kind, are what each needs; a row more than the
race uses makes sure that an action touches only its own.

- `AdminAuth` uses one user because no action relates two, and a cap of 2 because with a
  cap of 1 the counter never grows without locking. Its lock of 3 ticks is longer than a
  request in flight lives (the guard of `Tick`): a lock that ran out under a pending
  request would restart the count, or be renewed for ever by two requests in turn, and
  the real lock lasts minutes. Its counter stops at `MaxFailed`, at or above the cap,
  where no guard tells larger values apart. Two overlapping updates of one account are
  left to the proofs.
- `Members` has two applicants for one login id and e-mail, so that both pass the
  look-ups, and two versions of each document, so that one is superseded in flight. One
  login and two saves with two sessions suffice for every order of read, deactivation
  and write.
- `Disclosure` renames and recreates menu rows between every two reads of a request; a
  second request would add nothing, as requests only write the cache, which the menu
  edits and restarts disturb more. Three posts on pages of one give pages to move
  between; `SearchNeverProbes` compares every list with the one in which a hidden field
  is changed. Four connections are two for each operation, what `StuckOnlyByDeletion` is
  about; with three, TLC finds operations that wait for a connection held by each other.
- `Registers` has two names for two rows, so a name clash happens; three menus, so that a
  loop of three forms; two saves of each kind.
- `Site`: three creates, so that a deleted number lies between two others; `Traffic`'s
  day 0 can be aggregated, gain a late view, be pruned and be aggregated again before the
  calendar ends; `RateLimit` runs past two windows, so that two windows meet and a sweep
  happens between; `ViewDedup` crosses a midnight.
- `SecurityDocs` keeps one file; sharing between two files is covered by `SecurityClass`,
  which it implements.

**Fairness.** Only `Live` assumes any. For `LockRunsOut`: weak fairness of each step of
an accepted login, because the server runs every handler to its end, and of `Tick`,
because time passes. For `SeedCompletes`: weak fairness of each step of a run and of
triggering it again (the route is to be called until it answers done), with a bounded
number of cuts and refusals. No user has to act, and nothing is assumed of the sweep,
the administrator or new logins. `LockRunsOut` is not trivial under it: codes that are
already being checked may renew a lock, and only requests accepted while no lock held
can do so.

**Deadlock** is checked in `AdminAuth*`, `SecurityDocs`, `Surveys` and `Members`. The
other runs let a bounded calendar or a finite supply of ids run out, or model operations
that may really wait for each other (`AuditTrail`), and say `CHECK_DEADLOCK FALSE`;
waiting is then a property, `StuckOnlyByDeletion`.

### Properties

*Accounts and access.*

- `BoundedGuesses`: codes tried between two lock expiries never exceed the cap plus one
  for each other login in flight, unless an update that overlapped a miss wrote the
  counter back. The lock is tested on a stale row, so the cap alone is not true.
- `LockedMeansExhausted`: a lock is held only by an exhausted counter, which is why a
  right code may clear both. `InactiveSessionsAreRaced`: a session on an inactive account
  was minted by a login already in flight when the account was deactivated.
  `ConfirmedMeansVerified`: the confirmed secret is the one that was verified, unless an
  update wrote over a concurrent one.
- `AccountsAreSound` = `KeysAreUnique` (no two rows with one login id or e-mail, however
  many requests pass the look-ups), `ActiveWasLet` (nobody activates himself).
  `ConsentsAreEvidence` = `ConsentsWerePublished`, `ConsentsNotSuperseded`.
- `DeactivatedIsOut` = `OldSessionsAreOut`, `InactiveRowIsEmpty`; `InactiveGainsNothing`
  = `ReactivationIsAdmins`, `LinksGoToActive`: what was in flight across a deactivation is
  the only thing that survives it.
- `AnswersWithinRights` = `Grounded` (a stale cache entry names a menu that did bear the
  key), `ConfinedSeesOwnAccount`, `ClassesStayApart`, `SitesStayApart`.
  `AnswersAreLive`: until a menu is renamed or deleted, the cache is invisible.
- `OnlyAllowedPass` = `HeaderCannotLie`, `NamelessOnlyIfAll`, `DefaultDeny`,
  `WideningKeepsAll`.
- `BlindToTheRest` is non-interference: every answer is the one that would be given if
  the rows beyond the caller's rights did not exist. `LinkAnswersAlike`: the file behind
  a page's link has the rows of the page.
- `TrailIsKept` = `EndedIsLogged`, `DisclosureIsLogged`, `NoDanglingActor`,
  `LogsOutliveAccounts`; `StuckOnlyByDeletion`: logging makes operations wait for one
  another only where an account is deleted while it saves a row that names it.

*Content.*

- `ClassHolds` = `PostsFollowBoard`, `SecureFilesFlagged`, `LoweredOnlyWhenFree`,
  `OrdinaryNeverJoins`: the class of the board reaches the files, whatever is moved,
  flipped, shared and deleted. `ImplementsClass`, `UndisturbedIsRight`: section 2.
- `DownloadsAreCounted` = `OneFilePerNumber`, `CountersExact`, `CountingTouchesOneRow`;
  `NumbersAreSound` = `NumbersUnique`, `RefusedOnlyByRace`, `ReusedOnlyFromTheTop`.
- `ListsAreWhole` = `EveryPostInItsPlace`, `ExportCoversList`, `SearchNeverProbes`,
  `ReaderMissesNothing`: whoever follows "Next" to the end has seen every post that was
  there all along, unless a post left; every page shows its own part of the list, the
  file covers it, and no search finds a post by a field it does not show.
- `LoopsOnlyByOverlap`; `StaleNavIsHarmless` = `NavIsClosed`, `OffIsImmediate`,
  `SecureBoardStaysShut`.
- `ShownWhenDue` = `ShownExactlyInWindow`, `ClosedForOneDay`; `TopBarOverfullOnlyByRace`;
  `LinksAreSound` = `CodeNamesOneLink`, `LinksUndisturbed`; `RatingsAreFair` =
  `OneRatingUnlessRaced`, `RatingsOutliveMembers`.

*Registers, measuring, running.*

- `OnePerParticipant`: at most one response each, whatever races and mode changes.
  `StartIsSticky`, `NoneOutdated`: the freeze ends, and questions change under a stored
  response, only through a save of the survey that overlapped its start.
- `ResultsAreFaithful` = `SkipPathsAccepted` (who answers the questions on his way, and
  nothing else, is accepted, wherever the jumps lead), `StoredAnswersFit`,
  `ResultsAddUp`, `WordsStayPrivate` (no words in public that were written under a
  question not opted in), all but for an edit that was under way.
- `LandsExactlyOnce` = `LandsOnce`, `ApprovedHasLanded`; `EnactedIsGuarded` =
  `EnactedGuarded`, `NeverMinted`.
- `OutOfPlaceOnlyBySave` = `CodesUnique`, `ReferencesResolve`, `StrayOnlyByParentSave`,
  `MisfiledOnlyBySave`, `SpecAgrees`: a row is out of place only by a later save of the
  other row, which the code does not re-check.
- `OneViewAWindow` = `ViewsStoredApart`, `SuppressedForOneWindow`, `SweptInTime`;
  `ViewsCountedOnce` = `NeverOvercounts`, `PrunedHaveRollup`, `PrunedWereCounted`,
  `RollupsOnlyGrow`: no view is counted twice or lost, except by a late insert or an
  overlapping or late run of the job.
- `LimitHolds` = `FewerThanTwiceMax`, `LiveCountIsExact`, `LiveWindowsStand`,
  `ExpiredAreSwept`: what a fixed window really bounds, and that the sweep neither
  forgets a live window nor keeps a dead one.
- `SeedIsSound` = `NoTwins`, `GroupsWhole`, `NothingMissing`, `HealsHold`;
  `SeedCompletes`: a seeding that is triggered until it succeeds ends.

### Where the code and its texts disagree

Three runs show a violation, each of a sentence quoted in `PROJECT.json`:

1. `AdminAuthVSession`: a login in flight across a deactivation leaves a live session on
   the inactive account (`src/auth/twoFactorHooks.ts:317`).
2. `SecurityClassVShared`: the state in which an ordinary post shares a file with a
   security-document post does form (`src/collections/posts/Posts.ts:432`).
3. `TrafficVRerun`: aggregating a pruned day again overwrites its rollup with zeros
   (`docs/user-guide/insights.md:102`).

Met while modelling, and stated here or in the notes of hazards only:

- *Accounts.* The sweep's update by id can turn a locked account dormant. An update of an
  admin row that overlaps a miss, a lock, a logout or a revocation writes back the
  counter, the lock or the sessions it read. A right code checked against a stale row
  clears a lock set since. An enrolment in flight can replace a confirmed secret. The
  members' logout route calls their tokens stateless (`useSessions: false`), the
  collection has `useSessions: true` (`src/collections/Members.ts:112`), so logout leaves
  the session on the row.
- *Access.* "Silently revokes" (`src/collections/AdminMenus.ts:39`) does not hold at
  once: a cached id of a renamed menu keeps answering until the process restarts or
  misses. The IP gate's comments say an unarmed gate never blocks; a gate armed by its
  rules only does what the rules say.
- *Surveys.* A question edit in flight may land after the survey has started; a save that
  read the survey before its first response or its opening writes it back as not started,
  although the manual calls the lock irreversible (`docs/user-guide/surveys.md:112`).
  The comment on stored answers says "reachable, non-empty" (`src/content/survey.ts:232`);
  answers off the walk are stored and counted as well. Two questions of one order end
  the walk behind them, and nothing keeps an author from giving them one.
- *Registers.* Two overlapping approvals of one proposal both write the dictionary; a
  proposal approved again after its payload was edited reads approved although that
  payload never landed. The children of a code are not re-checked when the parent is
  saved (`src/collections/codes/Codes.ts:12-17` speaks of a tree of prefixes).
- *Content.* A file keeps its number only while the forms that save the post send it
  back; the breadcrumb of a page is not filtered to visible menus; a board with two menus
  is judged by the first although that one may be hidden; deleting a hidden parent brings
  its children to the top level; a list page past the end is queried as asked, not
  clamped; expired notices are in no list; a gallery shows no notices; the export ignores
  the filters for secret posts and notices, by design. The ratings' hash is called
  rotating, but holds no date (`src/collections/SatisfactionRatings.ts`).
- *Running.* A day the nightly job missed is never aggregated by later nights, and so
  never pruned. A seeding that found a group's key skips the rest of the group, so a run
  that was cut inside it is not completed by the next (`src/app/(frontend)/seed/route.ts:30`
  says it is). The insert of a log row can wait for the lock of the account it names
  (`src/audit/recordAccess.ts:77`).

## 4. What is proved

All theorems hold for every value of the constants, under the named `ASSUME`s of the
modules: sets of ids may be of any size, bounds such as the cap, the window, the pool or
the horizon any natural number. Each proof is an inductive invariant with one lemma or
step per action. Theorems of modules that share a run are gathered in one proof module,
with a section for each.

**SumTheorems** holds what the others need of counting: the least counterexample in a
set of numbers or of finite sets (`SmallestNat`, `SmallestBad`), which takes the place
of induction - a set of bad cases that is not empty has a smallest member, and that one
is refuted - and how `MapThenSumSet` of the community modules adds up (`SumAdds`,
`SumOfUnion`, `SumCompares`, `SumOfUpdate`), from the table behind its recursion.

**AdminAuthProofs.**

- `LockedMeansExhaustedHolds` with `ExhaustedInv`: the lock is set only by the miss that
  reaches the cap, cleared with the counter, and written back with it by an update in
  flight, which therefore holds the same.
- `InactiveSessionsAreRacedHolds` with `RacedInv`: a login whose snapshot says active on
  an account that is not is marked as overtaken, and an update that will write an
  inactive row holds the sessions of such logins only.
- `ConfirmedMeansVerifiedHolds` with `EnrolInv`, which follows the secret through the
  row, every snapshot and every row an update is going to write: wherever one is
  confirmed, it is the one verified, or the request that wrote it is marked as stale.
- `BoundedGuessesHolds` with `GuessInv`: an account is either `Few` - the guesses are at
  most the counter plus the logins that still have to count themselves - or `Running`: a
  lock runs, whoever is at the gate knows it or is late, and the late ones fit below the
  bound. The theorem supposes finitely many logins and `LockTicks >= 3`. That is not a
  technicality: with a lock of two ticks a login that looked before the lock can miss
  after it has run out, and TLC finds the bound exceeded. A tick passes only while every
  login in flight is at most one tick old, so three ticks say "a lock outlasts the login
  requests that overlap its start"; the real one lasts minutes.

**MembersProofs.** `AccountsAreSoundHolds`, `ConsentsAreEvidenceHolds` with
`SignupIInv`: uniqueness is kept by each write against the indexes (`WriteKeepsKeys`),
whatever was looked up before; what was active when a request began is no newer than what
is active now (`FloorsStand`), because a new version never makes the active one older and
a deleted document resets the floor. `DeactivatedIsOutHolds`, `InactiveGainsNothingHolds`
with `MemberIInv`: while the member is inactive every login, recovery and own save under
way is remembered (`OvertakenAreKnown`), and a save that is not remembered writes no
session that was live before (`SavesAreNew`).

**SecurityDocsProofs.** `UndisturbedIsRightHolds` and the refinement
`ImplementsClassHolds`. `Right` says what a transaction that no commit overtook may rely
on: what it has read is what is committed, the posts it wrote carry the class of their
board, the scan of a file's posts has missed nobody, the flags follow the scan. It is a
statement about the record of the transaction and the committed rows, so each step is
proved once for the record, and a commit of another transaction only marks it overtaken.
For the refinement every step but a commit leaves the committed rows alone, and a commit
of a transaction that is `Right` is a save, flip or delete of `SecurityClass`.

**RegistersProofs.**

- *Standards*: `LandsExactlyOnceHolds` from `StampInv` (a landed proposal nobody
  overwrote carries its stamp; a row that is approved or stamped has landed, and so had
  any such row a save in flight has read); `EnactedIsGuardedHolds` from `LockInv` and two
  lemmas on which steps change a live row.
- *SecurityClass*: `ClassHoldsAlways`, with `NewlySecureIsSynced`: a file that becomes a
  security document's in a step is among the files whose flags that step recomputes.
- *Codes*: `OutOfPlaceBySave` with `CodesInv`, which adds to the properties what a save
  has checked (`SavesOK`): it still holds at the write, as long as no save of the parent
  came in between.
- *SiteNav*: `LoopsOnlyByOverlapHolds`, `StaleNavIsHarmlessHolds` with `NavInv`: the
  tree is acyclic unless saves overlapped, and a save's walk has seen every ancestor
  below the one it is at. That the climb ends and meets each ancestor is shown by least
  counterexamples over the menus met.

**SurveysSeedProofs.**

- *Surveys*: `OnePerParticipantHolds` with `KeyInv`: a response carries its participant's
  key whether or not it is named, so one index compares both kinds. `StartIsStickyHolds`
  from `LatchInv`: a save that read a started survey writes the latch, and a response
  that marks the survey writes the mark. `NoneOutdatedHolds` from `LatchInv` and
  `FrozenInv`: the survey is marked or the mark of each stored response was taken back,
  so an edit that passed the check saw no other response.
- *Seed*: `SeedIsSoundHolds` with `SeedInv`, for any number of runs, cuts and overlaps.
  Whatever the plan ensures before the place of a run is there (`Reached`), so no check
  ever fails or skips; of a group under way the rows behind the run are there, and those
  ahead are not unless torn (`Written`, `Partial`, `Whole`); what a run has healed, and
  what it has read of a field, still holds (`Healed`, `ReadIsFresh`), since the row of a
  healed field is never created again. That the registry has the order and the keys this
  argument rests on is `PlanFits`: a row is relied on or healed only after an operation
  that finds or creates it, a row belongs to one group, two operations on one field
  agree. It is a closed formula about `seedSteps`, so TLC decides it, once and for all,
  when it evaluates `PlanAssumption` at the start of `Live`; the prover would have to
  compare some hundred names pair by pair. From `Whole` and `Reached` follows
  `ResumeIsCompleteHolds`, what "just call it again" (`seed/route.ts`) is worth: after a
  run that is through, only the rest of torn groups is missing.

**DisclosureProofs.**

- *Access*: `AnswersWithinRightsHolds` and `AnswersAreLiveHolds` with `AccessInv`: a live
  menu has borne its key, whatever id a request holds has borne the key it answers for,
  and a request that found no menu for a key decides before any is added or is marked.
- *Reports*: `BlindToTheRestHolds` and `LinkAnswersAlikeHolds`. Each screen, export and
  document is shown to be a function of the rows its viewer may be told of; `ReportInv`
  only says that rows have numbers of their own, so that a page is a stretch of them.
- *AuditTrail*: `TrailIsKeptHolds` with `AuditInv`: what an operation still has to log is
  the rest of its plan, and every log before that is written or missed for a recorded
  reason. `StuckOnlyByDeletionHolds` with `LockInv` (locks exclude one another; the
  account is locked before the rows) and `PoolIsLarge` (with two connections for each
  operation somebody gets one): a set of operations each of which waits for another of
  them must hold a deletion.
- *BoardList*: `ListsAreWholeHolds` with `ListInv`: whatever post a reader still has to
  see lies on a page behind the one under view (`StillToSee`). It is kept because a post
  that stands still moves only to later places as long as none leaves the list; places
  are counted by `Place`, which is shown to number a finite list without gaps.
- *Questionnaire*: `ResultsAreFaithfulHolds` with `QuestionInv`: a response no change of
  a question overlapped is the normal form of a valid sheet and has latched the survey.
  The walk is shown to exist and to end (`WalkExists`, by the orders not met yet), and to
  meet exactly what its skips lead to (`ReachableIsOnTheWay`), so a respondent who
  answers his way is accepted; the counts of options add up to the answers by a least
  counterexample over sets of options.

**SiteProofs.**

- *RateLimit*: `LimitHoldsAlways` with `SweepInv` (the next sweep is at most a window
  away), `EmptyInv` (no entry means no window), and a bound of what passes in a stretch
  of time by the two windows it can meet.
- *Traffic*: `ViewsCountedOnceHolds` with `TrafficInv`: what is stored of a day is what
  came less what was pruned; the figures a run carries count nobody twice and, unless
  they are stale, miss the late views only; only days with a rollup are pruned.
- *ViewDedup*: `OneViewAWindowHolds` with `DedupIInv`: each entry was armed by a view
  stored at most a window ago, and the next sweep is near.
- *Ratings*: `RatingsAreFairHolds` with `RatingIInv`; *ShortLinks*: `LinksAreSoundHolds`
  with `LinksIInv`; *GuideBars*: `TopBarHolds` with `GuideIInv`; *Display*:
  `ShownWhenDueHolds` with `DisplayIInv`; *SerialIds*: `NumbersAreSoundHolds` with
  `SerialIInv`. In each, a request in flight that was not overtaken still sees what it
  looked up, and one that was is marked.
- *PostFiles*: `DownloadsAreCountedHolds` with `FilesInv`: the rows that are stored, and
  those a form is going to store, have files and numbers of their own (numbering a form
  gives free numbers to the rows that name none: `NumberedIs` and the lemmas after it,
  over the recursion behind `Numbered`); a form keeps the counters of the rows it has
  loaded (`Continues`); a count of views that is about to be written is behind the
  visits; and the counters are exact until forms cross.
- *IpGate*: `OnlyAllowedPassHolds`: the entry believed is one that a trusted proxy wrote,
  whatever stands before it, and a new allow rule or a dropped block decides against
  nobody who was admitted.

**What the proofs presume beyond the types.** The hashes of members and of addresses
differ (`Ratings`: the code puts `m:` or `ip:` before what it hashes), visitors are a
finite set that is not empty, files and visits are finite (`PostFiles`), a filter for
everything is not the one for values outside the list (`All # Odd` in `Reports`), option
values, response slots and operations are finite, `LockTicks >= 3` for `BoundedGuesses`,
and two connections of the pool for each operation for `StuckOnlyByDeletion`: the pool
is shared by all requests of a process, so beyond it operations can wait for a
connection that others wait for in turn, which TLC shows with three connections and two
operations.

**What the proofs found wrong in the models.** Attempts that failed showed that a row
lock of `AuditTrail` was not exclusive (a guard `A /\ B => C` reads as an implication);
that the arms of a `CASE` in `Access` overlapped, which leaves open what it answers;
that `HealsHold` said nothing of a run that starts after an operator's edit, the very
case healing is for (`EditField` now marks only runs that have begun); and that
`StuckOnlyByDeletion`, as first stated for a cycle of two, does not hold of four
operations - two deletions and two saves can wait in a ring - so that it names the
deletion in the ring now. `BoardList` counts its pages by places, and the walk of
`Questionnaire` runs over records instead of pairs, because so they can be reasoned
about.

**Only model-checked.** Liveness (`LockRunsOut`, `SeedCompletes`), which is beyond the
prover. Every safety property, action property and refinement that a passing run checks
is also a theorem.

## 5. Assumptions and what is left out

- Payload and Postgres are external: transactions are READ COMMITTED, a transaction sees
  its own writes, a row lock is held to the end, `create` and its hooks commit together,
  a unique index refuses the second row, foreign keys cascade or are emptied as declared.
- Where an action stores a row in one step although Payload reads it first and writes the
  merged row back, the gap does not decide a property of that module; where it does
  (`AdminAuth`, `MemberSessions`, `Standards`, `Surveys`, `Codes`, `PostFiles`,
  `ShortLinks`, `GuideBars`, `SiteNav`) read and write are two actions.
- The session write of a login is Payload's own and is taken to add one session and to
  leave the other columns alone, as the code in `src/` expects of it.
- The clock is monotonic. A restart empties the limiter, which is its `Init`; it empties
  the view dedup and the menu cache by an action.
- The password check, Payload's own lock after five passwords, password resets and the
  TOTP arithmetic are outcomes of a nondeterministic choice or left out.
- Names, texts, payloads and addresses are model values; addresses match patterns as sets
  of addresses. Formatting, mail, the scrubbing of error messages and layout are left out.

Not modelled, with the reason for each in `PROJECT.json`: departments and the
organisation chart, the standardization self check and table settings, accessibility
scans, file storage and previews, mail, migrations, configuration and the user interface.

## 6. Plan

Done, in this order: `AdminAuth`; `SecurityClass` and `SecurityDocs` with their
refinement; `RateLimit` and `Traffic`; `Surveys` and `Standards`; the gap between read
and write of an update; members, access, the gate; lists, files, numbers, menus, codes;
reports and the audit trail; the seed with its liveness; `Questionnaire`; then the
proofs of every safety and action property that the passing runs check, with the step
simulation of `SecurityClass` by `SecurityDocs`.

Left:

1. The organisation chart: two saves of departments race as those of menus do.
2. The self check as an operator against a reference definition.
3. A liveness run of `Traffic`: a missed day.
4. Proofs about whatever 1 and 2 add.
