------------------------------- MODULE Signups -------------------------------
(***************************************************************************)
(* How an account comes to exist: the sign-up of a public member, the      *)
(* application for an administrator account, accounts created and edited   *)
(* in the back-office, and the terms a new member is recorded to have      *)
(* agreed to (src/members/signup.ts, src/members/terms.ts,                 *)
(* src/accounts/accountRequest.ts, src/collections/TermsDocuments.ts).     *)
(*                                                                         *)
(* A sign-up is a row of look-ups and then a create, each on its own.      *)
(* Fields, password and banned words are checked on the input alone; a     *)
(* refusal of theirs is the request ending.                                *)
(***************************************************************************)
EXTENDS Naturals, FiniteSets

CONSTANTS
  Accounts,      \* rows of members and users
  Logins,        \* login ids
  Emails,        \* e-mail addresses
  Tenants,       \* sites a member may belong to
  Home,          \* the site sign-up is for
  Applicants,    \* requests in flight
  Absent,        \* no row
  MaxVersion     \* how many versions of terms are ever written

ASSUME SignupAssumption ==
  /\ Home \in Tenants /\ Logins # {} /\ Emails # {}
  /\ MaxVersion \in Nat

VARIABLES
  accounts,  \* the rows of both collections
  applying,  \* the requests in flight
  approval,  \* sites.memberApprovalRequired of the public site
  terms,     \* the terms document of each required category
  versions   \* every version row ever written: its category, and whether published

signupVars == <<accounts, applying, approval, terms, versions>>

-----------------------------------------------------------------------------
Audiences == {"member", "admin"}

\* "pending" stands for each status that is not active.
Status == {"pending", "active"}

\* REQUIRED_TERMS_CATEGORIES with the document each is read from.
Consents == {"service", "privacy"}
Categories == {"termsOfUse", "personalInfoProcessing"}

TermsCategory(c) ==
  IF c = "service" THEN "termsOfUse" ELSE "personalInfoProcessing"

\* Version ids are given out in order; 0 stands for the fallback `unversioned`.
VersionIds == 0..MaxVersion

\* The tenant of an administrator is not used and stays Home.
\* let: an administrator activated the row, or it needed no activation.
Account ==
  [audience: Audiences, tenant: Tenants, login: Logins, email: Emails,
   status: Status, consents: [Consents -> VersionIds], let: BOOLEAN]

\* An administrator always awaits approval, a member where the site asks for it.
InitialStatus(audience) ==
  IF audience = "admin" \/ approval THEN "pending" ELSE "active"

NoConsent == [c \in Consents |-> 0]

Rows == {a \in Accounts : accounts[a] # Absent}

\* users.loginId is unique, members.loginId is per site, both e-mails are.
SameLogin(x, y) ==
  x.audience = y.audience /\ x.login = y.login
  /\ (x.audience = "member" => x.tenant = y.tenant)
SameEmail(x, y) == x.audience = y.audience /\ x.email = y.email

\* Mutant: no unique index; only the look-ups stand between two rows.
Refused_LookUpsOnly(x, others) == FALSE

\* The unique indexes, over the rows other than the written one.
Refused(x, others) ==
  \E b \in others : SameLogin(x, accounts[b]) \/ SameEmail(x, accounts[b])

\* The published versions of a document; a delete takes them with it.
Published(d) ==
  {v \in DOMAIN versions : versions[v].of = d /\ versions[v].published}

\* The one updated last.
Newest(S) == IF S = {} THEN 0 ELSE CHOOSE v \in S : \A w \in S : w <= v

\* resolveActiveTermsVersion: the document, and then its newest published version.
ActiveVersion(d) == IF terms[d] = "none" THEN 0 ELSE Newest(Published(d))

-----------------------------------------------------------------------------
(* A request: what it asks for, how far it is, what it has read.  Two of    *)
(* its fields are history: whether the site let members in when it was read *)
(* (free), and the versions that were active then (floor).                  *)

Idle == [st |-> "idle", audience |-> "member", login |-> CHOOSE l \in Logins : TRUE,
         email |-> CHOOSE e \in Emails : TRUE, status |-> "pending", free |-> FALSE,
         consents |-> NoConsent, floor |-> NoConsent]

Stages == {"idle", "open", "first", "second", "service", "privacy"}

SignupTypeOK ==
  /\ accounts \in [Accounts -> Account \cup {Absent}]
  /\ approval \in BOOLEAN
  /\ terms \in [Categories -> {"none", "draft", "published"}]
  /\ DOMAIN versions \in {1..n : n \in 0..MaxVersion}
  /\ \A v \in DOMAIN versions :
       versions[v] \in [of: Categories \cup {"deleted"}, published: BOOLEAN]
  /\ applying \in [Applicants ->
       [st: Stages, audience: Audiences, login: Logins, email: Emails,
        status: Status, free: BOOLEAN, consents: [Consents -> VersionIds],
        floor: [Consents -> VersionIds]]]

SignupInit ==
  /\ accounts = [a \in Accounts |-> Absent]
  /\ applying = [r \in Applicants |-> Idle]
  /\ approval = FALSE
  /\ terms = [d \in Categories |-> "none"]
  /\ versions = [v \in {} |-> Absent]

\* The site is read: whether it takes applications, and for members whether the
\* new row will await approval.
SiteRead(r, audience, l, e) ==
  /\ applying[r].st = "idle"
  /\ applying' = [applying EXCEPT ![r] =
       [st |-> "open", audience |-> audience, login |-> l, email |-> e,
        status |-> InitialStatus(audience), free |-> audience = "member" /\ ~approval,
        consents |-> NoConsent,
        floor |-> [c \in Consents |-> ActiveVersion(TermsCategory(c))]]]
  /\ UNCHANGED <<accounts, approval, terms, versions>>

\* What a request would write.
Draft(r) == [audience |-> applying[r].audience, tenant |-> Home,
  login |-> applying[r].login, email |-> applying[r].email,
  status |-> applying[r].status, consents |-> applying[r].consents,
  let |-> applying[r].free]

Move(r, st) == applying' = [applying EXCEPT ![r].st = st]

\* A refusal: of the input, of the banned words, or of a look-up.
Refuse(r) ==
  /\ applying[r].st # "idle"
  /\ applying' = [applying EXCEPT ![r] = Idle]
  /\ UNCHANGED <<accounts, approval, terms, versions>>

\* The two look-ups, login id first for members and e-mail first for
\* administrators; a hit is a refusal.
LookUp(r) ==
  /\ applying[r].st \in {"open", "first"}
  /\ LET login == (applying[r].st = "open") = (applying[r].audience = "member") IN
     ~\E b \in Rows : IF login THEN SameLogin(Draft(r), accounts[b])
                      ELSE SameEmail(Draft(r), accounts[b])
  /\ Move(r, IF applying[r].st = "open" THEN "first" ELSE "second")
  /\ UNCHANGED <<accounts, approval, terms, versions>>

\* Mutant: the versions are not sorted.
ReadConsent_Unsorted(r, c) ==
  /\ applying[r].audience = "member"
  /\ applying[r].st = (IF c = "service" THEN "second" ELSE "service")
  /\ \E v \in Published(TermsCategory(c)) \cup {0} :
       applying' = [applying EXCEPT ![r].st = c, ![r].consents[c] = v]
  /\ UNCHANGED <<accounts, approval, terms, versions>>

\* buildTermsConsents, one category after the other.
ReadConsent(r, c) ==
  /\ applying[r].audience = "member"
  /\ applying[r].st = (IF c = "service" THEN "second" ELSE "service")
  /\ applying' = [applying EXCEPT
       ![r].st = c, ![r].consents[c] = ActiveVersion(TermsCategory(c))]
  /\ UNCHANGED <<accounts, approval, terms, versions>>

\* The create, which a unique index may still refuse.
Create(r, a) ==
  /\ applying[r].st = (IF applying[r].audience = "member" THEN "privacy" ELSE "second")
  /\ accounts[a] = Absent
  /\ ~Refused(Draft(r), Rows)
  /\ accounts' = [accounts EXCEPT ![a] = Draft(r)]
  /\ applying' = [applying EXCEPT ![r] = Idle]
  /\ UNCHANGED <<approval, terms, versions>>

-----------------------------------------------------------------------------
(* The back-office.                                                        *)

\* A row on any site, in any status.
AdminCreate(a, x) ==
  /\ accounts[a] = Absent /\ ~Refused(x, Rows)
  /\ x.audience = "admin" => x.tenant = Home
  /\ accounts' = [accounts EXCEPT ![a] = x]
  /\ UNCHANGED <<applying, approval, terms, versions>>

\* Login id, e-mail or site of a row changes: the indexes decide again.
AdminEdit(a, l, e, t) ==
  /\ accounts[a] # Absent
  /\ accounts[a].audience = "admin" => t = Home
  /\ LET x == [accounts[a] EXCEPT !.login = l, !.email = e, !.tenant = t] IN
     /\ ~Refused(x, Rows \ {a})
     /\ accounts' = [accounts EXCEPT ![a] = x]
  /\ UNCHANGED <<applying, approval, terms, versions>>

\* Approval, withdrawal, reinstatement.
SetStatus(a, st) ==
  /\ accounts[a] # Absent
  /\ accounts' = [accounts EXCEPT ![a].status = st, ![a].let = @ \/ st = "active"]
  /\ UNCHANGED <<applying, approval, terms, versions>>

DeleteAccount(a) ==
  /\ accounts[a] # Absent
  /\ accounts' = [accounts EXCEPT ![a] = Absent]
  /\ UNCHANGED <<applying, approval, terms, versions>>

ToggleApproval ==
  /\ approval' = ~approval
  /\ UNCHANGED <<accounts, applying, terms, versions>>

\* Every save of a terms document writes one more version.
AddVersion(d, published) ==
  /\ Cardinality(DOMAIN versions) < MaxVersion
  /\ versions' = [v \in DOMAIN versions \cup {Cardinality(DOMAIN versions) + 1} |->
       IF v \in DOMAIN versions THEN versions[v] ELSE [of |-> d, published |-> published]]

\* Save and publish, or restore an earlier version, which publishes it anew.
Publish(d) ==
  /\ AddVersion(d, TRUE)
  /\ terms' = [terms EXCEPT ![d] = "published"]
  /\ UNCHANGED <<accounts, applying, approval>>

\* A draft of a new document, or over the published one, which stands.
SaveDraft(d) ==
  /\ AddVersion(d, FALSE)
  /\ terms' = [terms EXCEPT ![d] = IF @ = "none" THEN "draft" ELSE @]
  /\ UNCHANGED <<accounts, applying, approval>>

\* The document is taken from the public site by one more version, a draft; the
\* published ones stay in the history.
Unpublish(d) ==
  /\ terms[d] = "published"
  /\ AddVersion(d, FALSE)
  /\ terms' = [terms EXCEPT ![d] = "draft"]
  /\ UNCHANGED <<accounts, applying, approval>>

\* A deleted document takes its versions with it.
DeleteTerms(d) ==
  /\ terms[d] # "none"
  /\ terms' = [terms EXCEPT ![d] = "none"]
  /\ versions' = [v \in DOMAIN versions |->
       IF versions[v].of = d THEN [versions[v] EXCEPT !.of = "deleted"] ELSE versions[v]]
  /\ applying' = [r \in Applicants |-> [applying[r] EXCEPT !.floor =
       [c \in Consents |-> IF TermsCategory(c) = d THEN 0 ELSE @[c]]]]
  /\ UNCHANGED <<accounts, approval>>

AdminRow(audience, t, l, e, st) ==
  [audience |-> audience, tenant |-> t, login |-> l, email |-> e, status |-> st,
   consents |-> NoConsent, let |-> st = "active"]

SignupNext ==
  \/ \E r \in Applicants, au \in Audiences, l \in Logins, e \in Emails :
       SiteRead(r, au, l, e)
  \/ \E r \in Applicants : Refuse(r) \/ LookUp(r)
  \/ \E r \in Applicants, c \in Consents : ReadConsent(r, c)
  \/ \E r \in Applicants, a \in Accounts : Create(r, a)
  \/ \E a \in Accounts, au \in Audiences, t \in Tenants, l \in Logins,
        e \in Emails, st \in Status : AdminCreate(a, AdminRow(au, t, l, e, st))
  \/ \E a \in Accounts, l \in Logins, e \in Emails, t \in Tenants : AdminEdit(a, l, e, t)
  \/ \E a \in Accounts, st \in Status : SetStatus(a, st)
  \/ \E a \in Accounts : DeleteAccount(a)
  \/ ToggleApproval
  \/ \E d \in Categories : Publish(d) \/ SaveDraft(d) \/ Unpublish(d) \/ DeleteTerms(d)

SignupSpec == SignupInit /\ [][SignupNext]_signupVars

-----------------------------------------------------------------------------
(* Properties.                                                             *)

\* However many requests pass the two look-ups together, two administrators never
\* share a login id, two members never share one within a site, and two rows of a
\* kind never share an e-mail, edits and moves between sites included
\* (submitMemberSignup, submitAccountRequest).
KeysAreUnique ==
  \A a, b \in Rows : a # b =>
    ~SameLogin(accounts[a], accounts[b]) /\ ~SameEmail(accounts[a], accounts[b])

\* A consent that names a version names one that was published for its own
\* category, whatever is drafted, published, taken down or deleted between the two
\* reads and ever after (buildTermsConsents).
ConsentsWerePublished ==
  \A a \in Rows, c \in Consents :
    LET v == accounts[a].consents[c] IN
    v # 0 => /\ v \in DOMAIN versions /\ versions[v].published
             /\ versions[v].of \in {TermsCategory(c), "deleted"}

\* A request never records terms that had been superseded when it began, unless
\* their document was deleted under it; the version is read after the look-ups, so
\* it may be newer than the one on the page (signup.ts:180).
ConsentsNotSuperseded ==
  \A r \in Applicants :
    /\ applying[r].st \in {"service", "privacy"} =>
         applying[r].consents["service"] >= applying[r].floor["service"]
    /\ applying[r].st = "privacy" =>
         applying[r].consents["privacy"] >= applying[r].floor["privacy"]

\* Nobody becomes active without an administrator, except a member whose request
\* read the site while it asked for no approval; never an administrator
\* (signup.ts:165, accountRequest.ts:159).
ActiveWasLet ==
  \A a \in Rows : accounts[a].status = "active" => accounts[a].let

\* Every account has a login id and an e-mail of its own and was let in by whom
\* the site asks (signup.ts, accountRequest.ts).
AccountsAreSound == SignupTypeOK /\ KeysAreUnique /\ ActiveWasLet

\* What a member row says of the terms that were accepted can be shown: a version
\* its category had published, and not one superseded before the request
\* (buildTermsConsents).
ConsentsAreEvidence == ConsentsWerePublished /\ ConsentsNotSuperseded

=============================================================================
