---------------------------- MODULE MembersProofs ----------------------------
(***************************************************************************)
(* Accounts, consents and sessions, for any number of rows, requests,      *)
(* versions of terms, sessions and updates in flight.                      *)
(*                                                                         *)
(* Sign-up: uniqueness rests on the indexes alone, not on the look-ups;    *)
(* the consent of a request is read after the request began, and the       *)
(* active version of a document never gets older while it exists.          *)
(*                                                                         *)
(* Sessions: a request that is under way across a deactivation is          *)
(* remembered in raced, and whatever it leaves on the row is as well; a    *)
(* request that is not remembered has read the row as it is now, or        *)
(* carries nothing that was live before.                                   *)
(***************************************************************************)
EXTENDS Signups, MemberSessions, FiniteSetTheorems, WellFoundedInduction, TLAPS

-----------------------------------------------------------------------------
(* Sign-up.  Versions of terms.                                            *)

\* The newest of some versions is one of them and no older than any (terms.ts:
\* sort by -updatedAt, limit 1).
LEMMA NewestIsGreatest ==
  ASSUME NEW n \in Nat, NEW S \in SUBSET (1..n), S # {}
  PROVE  Newest(S) \in S /\ \A w \in S : w <= Newest(S)
<1> DEFINE T == {n - v : v \in S}
<1>0. \A v \in S : v \in Nat /\ v <= n
  OBVIOUS
<1>1. T \subseteq Nat /\ T # {}
  <2>1. \A v \in S : n - v \in Nat
    BY <1>0
  <2> QED
    BY <2>1
<1>2. PICK x \in T : \A y \in T : <<y, x>> \notin OpToRel(<, Nat)
  BY <1>1, WFMin, NatLessThanWellFounded
<1>3. \A y \in T : ~(y < x)
  BY <1>1, <1>2 DEF OpToRel
<1>4. \E v \in S : \A w \in S : w <= v
  <2>1. PICK v \in S : x = n - v
    OBVIOUS
  <2>2. ASSUME NEW w \in S PROVE w <= v
    <3>1. n - w \in T
      OBVIOUS
    <3>2. ~(n - w < n - v)
      BY <1>3, <2>1, <3>1
    <3> HIDE DEF T
    <3> QED
      BY <1>0, <3>2
  <2> QED
    BY <2>1, <2>2
<1> QED
  BY <1>4 DEF Newest

\* More versions, no older newest one.
LEMMA NewestGrows ==
  ASSUME NEW n \in Nat, NEW S \in SUBSET (1..n), NEW R \in SUBSET S
  PROVE  Newest(S) \in 0..n /\ Newest(R) <= Newest(S)
<1>1. CASE S = {}
  BY <1>1 DEF Newest
<1>2. CASE S # {}
  <2>1. Newest(S) \in S /\ \A w \in S : w <= Newest(S)
    BY <1>2, NewestIsGreatest
  <2>2. Newest(S) \in 1..n
    BY <2>1
  <2>3. Newest(S) \in 0..n /\ 0 <= Newest(S)
    <3>1. \A k \in 1..n : k \in 0..n /\ 0 <= k
      OBVIOUS
    <3> QED
      BY <2>2, <3>1
  <2>4. CASE R = {}
    <3>1. Newest(R) = 0
      BY <2>4 DEF Newest
    <3> QED
      BY <2>3, <3>1, Zenon
  <2>5. CASE R # {}
    <3>1. Newest(R) \in S
      BY <2>5, NewestIsGreatest
    <3>2. Newest(R) <= Newest(S)
      BY <2>1, <3>1, Zenon
    <3> QED
      BY <2>3, <3>2
  <2> QED
    BY <2>4, <2>5
<1> QED
  BY <1>1, <1>2

-----------------------------------------------------------------------------
(* The inductive invariant of sign-up.                                     *)

\* A request that will write an active row read the site while it let members in.
ActiveWasFree ==
  \A r \in Applicants : applying[r].status = "active" => applying[r].free

\* The version a row or a request names was published for its category.
Shown(consents) ==
  \A c \in Consents : LET v == consents[c] IN
    v # 0 => /\ v \in DOMAIN versions /\ versions[v].published
             /\ versions[v].of \in {TermsCategory(c), "deleted"}

AllShown ==
  /\ \A a \in Rows : Shown(accounts[a].consents)
  /\ \A r \in Applicants : Shown(applying[r].consents)

\* What was active when a request began is no newer than what is active now.
FloorsStand ==
  \A r \in Applicants, c \in Consents :
    applying[r].floor[c] <= ActiveVersion(TermsCategory(c))

SignupIInv ==
  /\ SignupTypeOK /\ KeysAreUnique /\ ActiveWasLet /\ ActiveWasFree
  /\ AllShown /\ FloorsStand /\ ConsentsNotSuperseded

\* The active version of a document is an id that was given out (terms.ts).
LEMMA ActiveIsVersion ==
  ASSUME SignupTypeOK, NEW d \in Categories
  PROVE  /\ ActiveVersion(d) \in VersionIds
         /\ ActiveVersion(d) # 0 => /\ ActiveVersion(d) \in DOMAIN versions
                                    /\ versions[ActiveVersion(d)].of = d
                                    /\ versions[ActiveVersion(d)].published
<1>1. PICK n \in 0..MaxVersion : DOMAIN versions = 1..n
  BY DEF SignupTypeOK
<1>2. n \in Nat /\ MaxVersion \in Nat /\ n <= MaxVersion
  BY SignupAssumption
<1>3. Published(d) \in SUBSET (1..n)
  BY <1>1 DEF Published
<1>4. CASE terms[d] = "none" \/ Published(d) = {}
  BY <1>2, <1>4 DEF ActiveVersion, Newest, VersionIds
<1>5. CASE terms[d] # "none" /\ Published(d) # {}
  <2>1. Newest(Published(d)) \in Published(d)
    BY <1>2, <1>3, <1>5, NewestIsGreatest
  <2>2. ActiveVersion(d) = Newest(Published(d))
    BY <1>5 DEF ActiveVersion
  <2> QED
    BY <1>1, <1>2, <2>1, <2>2 DEF Published, VersionIds
<1> QED
  BY <1>4, <1>5

\* One more version of document d: the next id (Payload's versions).
LEMMA VersionAdded ==
  ASSUME SignupTypeOK, NEW d \in Categories, NEW pub \in BOOLEAN, AddVersion(d, pub)
  PROVE  /\ DOMAIN versions' \in {1..n : n \in 0..MaxVersion}
         /\ DOMAIN versions \subseteq DOMAIN versions'
         /\ \A v \in DOMAIN versions : versions'[v] = versions[v]
         /\ \A v \in DOMAIN versions' :
              versions'[v] \in [of: Categories \cup {"deleted"}, published: BOOLEAN]
<1>1. PICK n \in 0..MaxVersion : DOMAIN versions = 1..n
  BY DEF SignupTypeOK
<1>2. n \in Nat /\ MaxVersion \in Nat /\ n <= MaxVersion
  BY SignupAssumption
<1>3. Cardinality(DOMAIN versions) = n
  BY <1>1, <1>2, FS_Interval
<1>4. n + 1 \in 0..MaxVersion /\ (1..n) \cup {n + 1} = 1..(n + 1) /\ n + 1 \notin 1..n
  BY <1>2, <1>3 DEF AddVersion
<1>5. versions' = [v \in 1..(n + 1) |->
         IF v \in 1..n THEN versions[v] ELSE [of |-> d, published |-> pub]]
  BY <1>1, <1>3, <1>4 DEF AddVersion
<1>6. DOMAIN versions' = 1..(n + 1)
  BY <1>5
<1>7. \A v \in 1..n : versions'[v] = versions[v]
  BY <1>4, <1>5
<1>8. versions'[n + 1] = [of |-> d, published |-> pub]
  BY <1>2, <1>4, <1>5
<1>9. \A v \in 1..n : versions[v] \in [of: Categories \cup {"deleted"}, published: BOOLEAN]
  BY <1>1 DEF SignupTypeOK
<1>10. \A v \in 1..(n + 1) :
         versions'[v] \in [of: Categories \cup {"deleted"}, published: BOOLEAN]
  <2>1. \A v \in 1..(n + 1) : v \in 1..n \/ v = n + 1
    BY <1>4
  <2> QED
    BY <2>1, <1>7, <1>8, <1>9
<1> QED
  BY <1>1, <1>4, <1>6, <1>7, <1>10

\* At first there is neither a row nor a request nor a version.
LEMMA SignupInitTyping == SignupInit => SignupTypeOK
<1> SUFFICES ASSUME SignupInit PROVE SignupTypeOK
  OBVIOUS
<1>1. Idle \in [st: Stages, audience: Audiences, login: Logins, email: Emails,
         status: Status, free: BOOLEAN, consents: [Consents -> VersionIds],
         floor: [Consents -> VersionIds]]
  BY SignupAssumption DEF Idle, Stages, Audiences, Status, NoConsent, VersionIds
<1>2. DOMAIN versions = 1..0 /\ 0 \in 0..MaxVersion
  BY SignupAssumption DEF SignupInit
<1> QED
  BY <1>1, <1>2 DEF SignupInit, SignupTypeOK, Categories

\* Rows and requests have their shape (signup.ts, accountRequest.ts, terms.ts).
LEMMA SignupTyping == SignupSpec => []SignupTypeOK
<1>1. SignupInit => SignupTypeOK
  BY SignupInitTyping
<1>2. SignupTypeOK /\ [SignupNext]_signupVars => SignupTypeOK'
  <2> SUFFICES ASSUME SignupTypeOK, [SignupNext]_signupVars PROVE SignupTypeOK'
    OBVIOUS
  <2> DEFINE Request == [st: Stages, audience: Audiences, login: Logins, email: Emails,
           status: Status, free: BOOLEAN, consents: [Consents -> VersionIds],
           floor: [Consents -> VersionIds]]
  <2>i. Idle \in Request
    BY SignupAssumption DEF Idle, Stages, Audiences, Status, NoConsent, VersionIds
  <2>v. \A c \in Consents : ActiveVersion(TermsCategory(c)) \in VersionIds
    BY ActiveIsVersion DEF TermsCategory, Categories
  <2>d. \A r \in Applicants : Draft(r) \in Account
    BY SignupAssumption DEF SignupTypeOK, Draft, Account
  <2>1. ASSUME NEW r \in Applicants, NEW au \in Audiences, NEW l \in Logins,
               NEW e \in Emails, SiteRead(r, au, l, e)
        PROVE  SignupTypeOK'
    <3> DEFINE new == [st |-> "open", audience |-> au, login |-> l, email |-> e,
        status |-> InitialStatus(au), free |-> au = "member" /\ ~approval,
        consents |-> NoConsent,
        floor |-> [c \in Consents |-> ActiveVersion(TermsCategory(c))]]
    <3>1. new \in Request
      BY <2>v, SignupAssumption DEF InitialStatus, Status, Stages, NoConsent, VersionIds
    <3>2. applying' = [applying EXCEPT ![r] = new]
      BY <2>1 DEF SiteRead
    <3> HIDE DEF new
    <3> QED
      BY <2>1, <3>1, <3>2 DEF SiteRead, SignupTypeOK
  <2>2. ASSUME NEW r \in Applicants, Refuse(r) PROVE SignupTypeOK'
    BY <2>2, <2>i DEF Refuse, SignupTypeOK
  <2>3. ASSUME NEW r \in Applicants, LookUp(r) PROVE SignupTypeOK'
    BY <2>3 DEF LookUp, Move, SignupTypeOK, Stages
  <2>4. ASSUME NEW r \in Applicants, NEW c \in Consents, ReadConsent(r, c)
        PROVE  SignupTypeOK'
    <3> DEFINE v == ActiveVersion(TermsCategory(c))
               new == [applying[r] EXCEPT !.st = c, !.consents = [@ EXCEPT ![c] = v]]
    <3>1. applying[r] \in Request /\ c \in Stages /\ v \in VersionIds
      BY <2>v DEF SignupTypeOK, Stages, Consents
    <3>2. new \in Request
      BY <3>1
    <3>3. applying' = [applying EXCEPT ![r] = new]
      BY <2>4 DEF ReadConsent
    <3>4. UNCHANGED <<accounts, approval, terms, versions>>
      BY <2>4 DEF ReadConsent
    <3> HIDE DEF new, v
    <3> QED
      BY <3>2, <3>3, <3>4 DEF SignupTypeOK
  <2>5. ASSUME NEW r \in Applicants, NEW a \in Accounts, Create(r, a)
        PROVE  SignupTypeOK'
    BY <2>5, <2>i, <2>d DEF Create, SignupTypeOK
  <2>6. ASSUME NEW a \in Accounts, NEW au \in Audiences, NEW t \in Tenants,
               NEW l \in Logins, NEW e \in Emails, NEW st \in Status,
               AdminCreate(a, AdminRow(au, t, l, e, st))
        PROVE  SignupTypeOK'
    <3>1. AdminRow(au, t, l, e, st) \in Account
      BY SignupAssumption DEF AdminRow, Account, NoConsent, VersionIds
    <3> QED
      BY <2>6, <3>1 DEF AdminCreate, SignupTypeOK
  <2>7. ASSUME NEW a \in Accounts, NEW l \in Logins, NEW e \in Emails, NEW t \in Tenants,
               AdminEdit(a, l, e, t)
        PROVE  SignupTypeOK'
    <3>1. accounts[a] \in Account
      BY <2>7 DEF AdminEdit, SignupTypeOK
    <3>2. [accounts[a] EXCEPT !.login = l, !.email = e, !.tenant = t] \in Account
      BY <3>1 DEF Account
    <3> QED
      BY <2>7, <3>2 DEF AdminEdit, SignupTypeOK
  <2>8. ASSUME NEW a \in Accounts, NEW st \in Status, SetStatus(a, st) PROVE SignupTypeOK'
    <3>1. accounts[a] \in Account
      BY <2>8 DEF SetStatus, SignupTypeOK
    <3> DEFINE new == [accounts[a] EXCEPT !.status = st, !.let = @ \/ st = "active"]
    <3>2. new \in Account
      BY <3>1 DEF Account
    <3>3. accounts' = [accounts EXCEPT ![a] = new]
      BY <2>8 DEF SetStatus
    <3> HIDE DEF new
    <3> QED
      BY <2>8, <3>2, <3>3 DEF SetStatus, SignupTypeOK
  <2>9. ASSUME NEW a \in Accounts, DeleteAccount(a) PROVE SignupTypeOK'
    BY <2>9 DEF DeleteAccount, SignupTypeOK
  <2>10. CASE ToggleApproval
    BY <2>10 DEF ToggleApproval, SignupTypeOK
  <2>11. ASSUME NEW d \in Categories, NEW pub \in BOOLEAN, AddVersion(d, pub),
                terms' \in [Categories -> {"none", "draft", "published"}],
                UNCHANGED <<accounts, applying, approval>>
         PROVE  SignupTypeOK'
    BY <2>11, VersionAdded DEF SignupTypeOK
  <2>12. ASSUME NEW d \in Categories, DeleteTerms(d) PROVE SignupTypeOK'
    <3>1. /\ DOMAIN versions' = DOMAIN versions
          /\ \A v \in DOMAIN versions' :
               versions'[v] \in [of: Categories \cup {"deleted"}, published: BOOLEAN]
      BY <2>12 DEF DeleteTerms, SignupTypeOK
    <3>2. terms' \in [Categories -> {"none", "draft", "published"}]
      BY <2>12 DEF DeleteTerms, SignupTypeOK
    <3>3. \A r \in Applicants : [c \in Consents |->
             IF TermsCategory(c) = d THEN 0 ELSE applying[r].floor[c]] \in [Consents -> VersionIds]
      BY SignupAssumption DEF SignupTypeOK, VersionIds
    <3>4. applying' \in [Applicants -> Request]
      BY <2>12, <3>3 DEF DeleteTerms, SignupTypeOK
    <3> QED
      BY <2>12, <3>1, <3>2, <3>4 DEF DeleteTerms, SignupTypeOK
  <2>13. ASSUME NEW d \in Categories, Publish(d) \/ SaveDraft(d) \/ Unpublish(d)
         PROVE  SignupTypeOK'
    <3>1. /\ AddVersion(d, TRUE) \/ AddVersion(d, FALSE)
          /\ UNCHANGED <<accounts, applying, approval>>
      BY <2>13 DEF Publish, SaveDraft, Unpublish
    <3>2. terms' \in [Categories -> {"none", "draft", "published"}]
      BY <2>13 DEF Publish, SaveDraft, Unpublish, SignupTypeOK
    <3> QED
      BY <2>11, <3>1, <3>2
  <2>14. CASE UNCHANGED signupVars
    BY <2>14 DEF signupVars, SignupTypeOK
  <2> QED
    BY <2>1, <2>2, <2>3, <2>4, <2>5, <2>6, <2>7, <2>8, <2>9, <2>10, <2>12, <2>13, <2>14
    DEF SignupNext
<1> QED
  BY <1>1, <1>2, PTL DEF SignupSpec

\* A row that no unique index refuses keeps the keys unique (the indexes of members
\* and users).
LEMMA WriteKeepsKeys ==
  ASSUME KeysAreUnique, accounts \in [Accounts -> Account \cup {Absent}],
         NEW a \in Accounts, NEW x, ~Refused(x, Rows \ {a}),
         accounts' = [accounts EXCEPT ![a] = x]
  PROVE  KeysAreUnique'
<1>1. accounts'[a] = x /\ \A b \in Accounts \ {a} : accounts'[b] = accounts[b]
  OBVIOUS
<1>2. \A b \in Rows \ {a} : ~SameLogin(x, accounts[b]) /\ ~SameEmail(x, accounts[b])
  BY DEF Refused
<1>3. \A b \in Rows \ {a} : ~SameLogin(accounts[b], x) /\ ~SameEmail(accounts[b], x)
  BY <1>2 DEF SameLogin, SameEmail
<1>4. ASSUME NEW b \in Rows', NEW c \in Rows', b # c
      PROVE  ~SameLogin(accounts'[b], accounts'[c]) /\ ~SameEmail(accounts'[b], accounts'[c])
  <2>1. b \in Accounts /\ c \in Accounts
    BY DEF Rows
  <2>2. CASE b = a
    <3>1. c \in Rows \ {a} /\ accounts'[c] = accounts[c]
      BY <1>1, <1>4, <2>1, <2>2 DEF Rows
    <3> QED
      BY <1>1, <1>2, <2>2, <3>1
  <2>3. CASE c = a
    <3>1. b \in Rows \ {a} /\ accounts'[b] = accounts[b]
      BY <1>1, <1>4, <2>1, <2>3 DEF Rows
    <3> QED
      BY <1>1, <1>3, <2>3, <3>1
  <2>4. CASE b # a /\ c # a
    <3>1. /\ b \in Rows /\ accounts'[b] = accounts[b]
          /\ c \in Rows /\ accounts'[c] = accounts[c]
      BY <1>1, <2>1, <2>4 DEF Rows
    <3> QED
      BY <1>4, <3>1 DEF KeysAreUnique
  <2> QED
    BY <2>2, <2>3, <2>4
<1>5. \A b, c \in Rows' : b # c =>
        ~SameLogin(accounts'[b], accounts'[c]) /\ ~SameEmail(accounts'[b], accounts'[c])
  BY <1>4
<1> QED
  BY <1>5 DEF KeysAreUnique, SameLogin, SameEmail

\* No step makes two rows share a key, whatever look-ups went before
\* (submitMemberSignup, submitAccountRequest, the back-office).
LEMMA KeysStep ==
  ASSUME SignupTypeOK, KeysAreUnique, SignupNext PROVE KeysAreUnique'
<1>0. accounts \in [Accounts -> Account \cup {Absent}]
  BY DEF SignupTypeOK
<1>1. ASSUME NEW r \in Applicants, NEW a \in Accounts, Create(r, a) PROVE KeysAreUnique'
  <2>1. Rows \ {a} = Rows
    BY <1>1 DEF Create, Rows
  <2> QED
    BY <1>0, <1>1, <2>1, WriteKeepsKeys DEF Create
<1>2. ASSUME NEW a \in Accounts, NEW x, AdminCreate(a, x) PROVE KeysAreUnique'
  <2>1. Rows \ {a} = Rows
    BY <1>2 DEF AdminCreate, Rows
  <2> QED
    BY <1>0, <1>2, <2>1, WriteKeepsKeys DEF AdminCreate
<1>3. ASSUME NEW a \in Accounts, NEW l \in Logins, NEW e \in Emails, NEW t \in Tenants,
             AdminEdit(a, l, e, t)
      PROVE  KeysAreUnique'
  BY <1>0, <1>3, WriteKeepsKeys DEF AdminEdit
<1>4. ASSUME NEW a \in Accounts, NEW st \in Status, SetStatus(a, st) PROVE KeysAreUnique'
  <2> DEFINE x == [accounts[a] EXCEPT !.status = st, !.let = @ \/ st = "active"]
  <2>1. a \in Rows /\ accounts' = [accounts EXCEPT ![a] = x] /\ accounts[a] \in Account
    BY <1>0, <1>4 DEF SetStatus, Rows
  <2>2. /\ x.audience = accounts[a].audience /\ x.tenant = accounts[a].tenant
        /\ x.login = accounts[a].login /\ x.email = accounts[a].email
    BY <2>1 DEF Account
  <2>3. ~Refused(x, Rows \ {a})
    <3> HIDE DEF x
    <3> QED
      BY <2>1, <2>2 DEF Refused, KeysAreUnique, SameLogin, SameEmail
  <2> QED
    BY <1>0, <2>1, <2>3, WriteKeepsKeys
<1>5. ASSUME NEW a \in Accounts, DeleteAccount(a) PROVE KeysAreUnique'
  <2>1. \A b \in Rows' : b \in Rows /\ accounts'[b] = accounts[b]
    BY <1>0, <1>5 DEF DeleteAccount, Rows
  <2>2. \A b, c \in Rows' : b # c =>
          ~SameLogin(accounts'[b], accounts'[c]) /\ ~SameEmail(accounts'[b], accounts'[c])
    BY <2>1 DEF KeysAreUnique
  <2> QED
    BY <2>2 DEF KeysAreUnique, SameLogin, SameEmail
<1>6. CASE UNCHANGED accounts
  BY <1>6 DEF KeysAreUnique, Rows, SameLogin, SameEmail
<1>7. \/ \E r \in Applicants, a \in Accounts : Create(r, a)
      \/ \E a \in Accounts, au \in Audiences, t \in Tenants, l \in Logins,
            e \in Emails, st \in Status : AdminCreate(a, AdminRow(au, t, l, e, st))
      \/ \E a \in Accounts, l \in Logins, e \in Emails, t \in Tenants : AdminEdit(a, l, e, t)
      \/ \E a \in Accounts, st \in Status : SetStatus(a, st)
      \/ \E a \in Accounts : DeleteAccount(a)
      \/ UNCHANGED accounts
  BY DEF SignupNext, SiteRead, Refuse, LookUp, ReadConsent, ToggleApproval, Publish,
         SaveDraft, Unpublish, DeleteTerms
<1> QED
  BY <1>1, <1>2, <1>3, <1>4, <1>5, <1>6, <1>7

\* No step lets anybody in without an administrator or a site that asks for no
\* approval (initialMemberStatus, SetStatus).
LEMMA LetStep ==
  ASSUME SignupTypeOK, ActiveWasLet, ActiveWasFree, SignupNext
  PROVE  ActiveWasLet' /\ ActiveWasFree'
<1> USE DEF SignupTypeOK
<1>1. ASSUME NEW r \in Applicants, NEW au \in Audiences, NEW l \in Logins,
             NEW e \in Emails, SiteRead(r, au, l, e)
      PROVE  ActiveWasLet' /\ ActiveWasFree'
  BY <1>1 DEF SiteRead, InitialStatus, ActiveWasLet, ActiveWasFree, Rows, Audiences
<1>2. ASSUME NEW r \in Applicants, Refuse(r) \/ LookUp(r) PROVE ActiveWasLet' /\ ActiveWasFree'
  BY <1>2 DEF Refuse, LookUp, Move, Idle, ActiveWasLet, ActiveWasFree, Rows
<1>3. ASSUME NEW r \in Applicants, NEW c \in Consents, ReadConsent(r, c)
      PROVE  ActiveWasLet' /\ ActiveWasFree'
  <2>1. \A q \in Applicants : /\ applying'[q].status = applying[q].status
                              /\ applying'[q].free = applying[q].free
    BY <1>3 DEF ReadConsent
  <2>2. UNCHANGED accounts
    BY <1>3 DEF ReadConsent
  <2> QED
    BY <2>1, <2>2 DEF ActiveWasLet, ActiveWasFree, Rows
<1>4. ASSUME NEW r \in Applicants, NEW a \in Accounts, Create(r, a)
      PROVE  ActiveWasLet' /\ ActiveWasFree'
  BY <1>4 DEF Create, Draft, Idle, ActiveWasLet, ActiveWasFree, Rows
<1>5. ASSUME NEW a \in Accounts, NEW au \in Audiences, NEW t \in Tenants,
             NEW l \in Logins, NEW e \in Emails, NEW st \in Status,
             AdminCreate(a, AdminRow(au, t, l, e, st))
      PROVE  ActiveWasLet' /\ ActiveWasFree'
  BY <1>5 DEF AdminCreate, AdminRow, ActiveWasLet, ActiveWasFree, Rows
<1>6. ASSUME NEW a \in Accounts, NEW l \in Logins, NEW e \in Emails, NEW t \in Tenants,
             AdminEdit(a, l, e, t)
      PROVE  ActiveWasLet' /\ ActiveWasFree'
  <2> DEFINE x == [accounts[a] EXCEPT !.login = l, !.email = e, !.tenant = t]
  <2>1. a \in Rows /\ accounts' = [accounts EXCEPT ![a] = x] /\ accounts[a] \in Account
        /\ UNCHANGED applying
    BY <1>6 DEF AdminEdit, Rows
  <2>2. x.status = accounts[a].status /\ x.let = accounts[a].let
    BY <2>1 DEF Account
  <2> HIDE DEF x
  <2> QED
    BY <2>1, <2>2 DEF ActiveWasLet, ActiveWasFree, Rows
<1>7. ASSUME NEW a \in Accounts, NEW st \in Status, SetStatus(a, st)
      PROVE  ActiveWasLet' /\ ActiveWasFree'
  <2> DEFINE x == [accounts[a] EXCEPT !.status = st, !.let = @ \/ st = "active"]
  <2>1. a \in Rows /\ accounts' = [accounts EXCEPT ![a] = x] /\ accounts[a] \in Account
        /\ UNCHANGED applying
    BY <1>7 DEF SetStatus, Rows
  <2>2. x.status = "active" => x.let
    BY <2>1 DEF Account
  <2> HIDE DEF x
  <2> QED
    BY <2>1, <2>2 DEF ActiveWasLet, ActiveWasFree, Rows
<1>8. ASSUME NEW a \in Accounts, DeleteAccount(a) PROVE ActiveWasLet' /\ ActiveWasFree'
  BY <1>8 DEF DeleteAccount, ActiveWasLet, ActiveWasFree, Rows
<1>9. CASE UNCHANGED <<accounts, applying>>
  BY <1>9 DEF ActiveWasLet, ActiveWasFree, Rows
<1>10. ASSUME NEW d \in Categories, DeleteTerms(d) PROVE ActiveWasLet' /\ ActiveWasFree'
  <2>1. \A q \in Applicants : /\ applying'[q].status = applying[q].status
                              /\ applying'[q].free = applying[q].free
    BY <1>10 DEF DeleteTerms
  <2>2. UNCHANGED accounts
    BY <1>10 DEF DeleteTerms
  <2> QED
    BY <2>1, <2>2 DEF ActiveWasLet, ActiveWasFree, Rows
<1>11. CASE ToggleApproval \/ \E d \in Categories : Publish(d) \/ SaveDraft(d) \/ Unpublish(d)
  BY <1>11, <1>9 DEF ToggleApproval, Publish, SaveDraft, Unpublish
<1> QED
  BY <1>1, <1>2, <1>3, <1>4, <1>5, <1>6, <1>7, <1>8, <1>10, <1>11 DEF SignupNext

\* A new version makes no active version older, a deleted document changes no
\* other, and what had been published stays on record (resolveActiveTermsVersion).
LEMMA TermsMove ==
  ASSUME SignupTypeOK, SignupTypeOK', NEW d \in Categories,
         Publish(d) \/ SaveDraft(d) \/ Unpublish(d) \/ DeleteTerms(d)
  PROVE  /\ \A e \in Categories :
              (DeleteTerms(d) => e # d) =>
                ActiveVersion(e) <= ActiveVersion(e)' /\ ActiveVersion(e)' \in Nat
         /\ \A v \in DOMAIN versions :
              /\ v \in DOMAIN versions' /\ versions'[v].published = versions[v].published
              /\ versions'[v].of \in {versions[v].of, "deleted"}
<1>1. PICK m \in 0..MaxVersion : DOMAIN versions' = 1..m
  BY DEF SignupTypeOK
<1>2. m \in Nat
  BY SignupAssumption
<1>3. CASE Publish(d) \/ SaveDraft(d) \/ Unpublish(d)
  <2>1. AddVersion(d, TRUE) \/ AddVersion(d, FALSE)
    BY <1>3 DEF Publish, SaveDraft, Unpublish
  <2>2. /\ DOMAIN versions \subseteq DOMAIN versions'
        /\ \A v \in DOMAIN versions : versions'[v] = versions[v]
    BY <2>1, VersionAdded
  <2>3. \A e \in Categories : terms[e] # "none" => terms'[e] # "none"
    BY <1>3 DEF Publish, SaveDraft, Unpublish, SignupTypeOK
  <2>4. ASSUME NEW e \in Categories
        PROVE  ActiveVersion(e) <= ActiveVersion(e)' /\ ActiveVersion(e)' \in Nat
    <3>1. Published(e) \subseteq Published(e)' /\ Published(e)' \subseteq 1..m
      BY <1>1, <2>2 DEF Published
    <3>2. Newest(Published(e)') \in 0..m /\ Newest(Published(e)) <= Newest(Published(e)')
      BY <1>2, <3>1, NewestGrows
    <3>3. 0 <= Newest(Published(e)') /\ Newest(Published(e)') \in Nat
      BY <1>2, <3>2
    <3>4. ActiveVersion(e) = IF terms[e] = "none" THEN 0 ELSE Newest(Published(e))
      BY DEF ActiveVersion
    <3>5. ActiveVersion(e)' = IF terms'[e] = "none" THEN 0 ELSE Newest(Published(e)')
      BY DEF ActiveVersion
    <3> QED
      BY <2>3, <3>2, <3>3, <3>4, <3>5
  <2> QED
    BY <2>2, <2>4
<1>4. CASE DeleteTerms(d)
  <2>1. /\ DOMAIN versions' = DOMAIN versions
        /\ \A v \in DOMAIN versions :
             versions'[v] = IF versions[v].of = d THEN [versions[v] EXCEPT !.of = "deleted"]
                            ELSE versions[v]
    BY <1>4 DEF DeleteTerms
  <2>2. \A v \in DOMAIN versions :
          /\ versions'[v].published = versions[v].published
          /\ versions'[v].of = IF versions[v].of = d THEN "deleted" ELSE versions[v].of
    BY <2>1 DEF SignupTypeOK
  <2>3. ASSUME NEW e \in Categories, e # d
        PROVE  ActiveVersion(e) <= ActiveVersion(e)' /\ ActiveVersion(e)' \in Nat
    <3>1. Published(e)' = Published(e)
      BY <2>1, <2>2, <2>3 DEF Published, Categories
    <3>2. terms'[e] = terms[e]
      BY <1>4, <2>3 DEF DeleteTerms, SignupTypeOK
    <3>3. ActiveVersion(e)' = ActiveVersion(e)
      BY <3>1, <3>2 DEF ActiveVersion
    <3>4. ActiveVersion(e) \in Nat
      BY ActiveIsVersion, SignupAssumption DEF VersionIds
    <3> QED
      BY <3>3, <3>4
  <2> QED
    BY <1>4, <2>1, <2>2, <2>3
<1> QED
  BY <1>3, <1>4

\* No step lets a row or a request name a version that was not published for its
\* category (buildTermsConsents).
LEMMA ShownStep ==
  ASSUME SignupTypeOK, SignupTypeOK', AllShown, SignupNext PROVE AllShown'
<1>0. Shown(NoConsent)
  BY DEF Shown, NoConsent
<1>1. ASSUME NEW r \in Applicants, NEW k, k = NoConsent \/ Shown(k),
             UNCHANGED <<accounts, versions>>,
             applying'[r].consents = k,
             \A q \in Applicants \ {r} : applying'[q] = applying[q]
      PROVE  AllShown'
  <2>1. Shown(k)
    BY <1>0, <1>1
  <2>2. \A q \in Applicants : Shown(applying'[q].consents)
    BY <1>1, <2>1 DEF AllShown
  <2>3. \A a \in Rows' : Shown(accounts'[a].consents)
    BY <1>1 DEF AllShown, Rows
  <2> QED
    BY <1>1, <2>2, <2>3 DEF AllShown, Shown
<1>2. ASSUME NEW r \in Applicants, NEW au \in Audiences, NEW l \in Logins,
             NEW e \in Emails, SiteRead(r, au, l, e)
      PROVE  AllShown'
  BY <1>1, <1>2 DEF SiteRead, SignupTypeOK
<1>3. ASSUME NEW r \in Applicants, Refuse(r) PROVE AllShown'
  BY <1>1, <1>3 DEF Refuse, Idle, SignupTypeOK
<1>4. ASSUME NEW r \in Applicants, LookUp(r) PROVE AllShown'
  <2>1. Shown(applying[r].consents) /\ applying'[r].consents = applying[r].consents
    BY <1>4 DEF LookUp, Move, SignupTypeOK, AllShown
  <2> QED
    BY <1>1, <1>4, <2>1 DEF LookUp, Move, SignupTypeOK
<1>5. ASSUME NEW r \in Applicants, NEW c \in Consents, ReadConsent(r, c) PROVE AllShown'
  <2> DEFINE v == ActiveVersion(TermsCategory(c))
             k == [applying[r].consents EXCEPT ![c] = v]
  <2>1. v # 0 => v \in DOMAIN versions /\ versions[v].of = TermsCategory(c)
                 /\ versions[v].published
    BY ActiveIsVersion DEF TermsCategory, Categories
  <2>2. applying[r].consents \in [Consents -> VersionIds] /\ Shown(applying[r].consents)
    BY DEF SignupTypeOK, AllShown
  <2>3. k[c] = v /\ \A b \in Consents \ {c} : k[b] = applying[r].consents[b]
    BY <2>2
  <2>4. applying'[r].consents = k
    BY <1>5 DEF ReadConsent, SignupTypeOK
  <2> HIDE DEF v, k
  <2>5. Shown(k)
    BY <2>1, <2>2, <2>3 DEF Shown
  <2> QED
    BY <1>1, <1>5, <2>4, <2>5 DEF ReadConsent, SignupTypeOK
<1>6. ASSUME NEW a \in Accounts, NEW x, Shown(x.consents) \/ x.consents = NoConsent,
             accounts' = [accounts EXCEPT ![a] = x], UNCHANGED versions,
             \A q \in Applicants : applying'[q] \in {applying[q], Idle}
      PROVE  AllShown'
  <2>1. \A q \in Applicants : Shown(applying'[q].consents)
    BY <1>0, <1>6 DEF AllShown, Idle
  <2>2. \A b \in Rows' : Shown(accounts'[b].consents)
    BY <1>0, <1>6 DEF AllShown, Rows, SignupTypeOK
  <2> QED
    BY <1>6, <2>1, <2>2 DEF AllShown, Shown
<1>7. ASSUME NEW r \in Applicants, NEW a \in Accounts, Create(r, a) PROVE AllShown'
  <2>1. Shown(Draft(r).consents)
    BY DEF Draft, AllShown
  <2> QED
    BY <1>6, <1>7, <2>1 DEF Create, SignupTypeOK
<1>8. ASSUME NEW a \in Accounts, NEW au \in Audiences, NEW t \in Tenants,
             NEW l \in Logins, NEW e \in Emails, NEW st \in Status,
             AdminCreate(a, AdminRow(au, t, l, e, st))
      PROVE  AllShown'
  <2>1. AdminRow(au, t, l, e, st).consents = NoConsent
    BY DEF AdminRow
  <2> QED
    BY <1>6, <1>8, <2>1 DEF AdminCreate
<1>9. ASSUME NEW a \in Accounts, NEW l \in Logins, NEW e \in Emails, NEW t \in Tenants,
             AdminEdit(a, l, e, t)
      PROVE  AllShown'
  <2> DEFINE x == [accounts[a] EXCEPT !.login = l, !.email = e, !.tenant = t]
  <2>1. a \in Rows /\ accounts[a] \in Account
    BY <1>9 DEF AdminEdit, Rows, SignupTypeOK
  <2>2. x.consents = accounts[a].consents
    BY <2>1 DEF Account
  <2>3. accounts' = [accounts EXCEPT ![a] = x] /\ UNCHANGED <<applying, versions>>
    BY <1>9 DEF AdminEdit
  <2> HIDE DEF x
  <2> QED
    BY <1>6, <2>1, <2>2, <2>3 DEF AllShown
<1>10. ASSUME NEW a \in Accounts, NEW st \in Status, SetStatus(a, st) PROVE AllShown'
  <2> DEFINE x == [accounts[a] EXCEPT !.status = st, !.let = @ \/ st = "active"]
  <2>1. a \in Rows /\ accounts[a] \in Account
    BY <1>10 DEF SetStatus, Rows, SignupTypeOK
  <2>2. x.consents = accounts[a].consents
    BY <2>1 DEF Account
  <2>3. accounts' = [accounts EXCEPT ![a] = x] /\ UNCHANGED <<applying, versions>>
    BY <1>10 DEF SetStatus
  <2> HIDE DEF x
  <2> QED
    BY <1>6, <2>1, <2>2, <2>3 DEF AllShown
<1>11. ASSUME NEW a \in Accounts, DeleteAccount(a) PROVE AllShown'
  BY <1>11 DEF DeleteAccount, AllShown, Shown, Rows, SignupTypeOK
<1>12. CASE ToggleApproval
  BY <1>12 DEF ToggleApproval, AllShown, Shown, Rows
<1>13. ASSUME NEW d \in Categories,
              Publish(d) \/ SaveDraft(d) \/ Unpublish(d) \/ DeleteTerms(d)
       PROVE  AllShown'
  <2>1. \A v \in DOMAIN versions :
          /\ v \in DOMAIN versions' /\ versions'[v].published = versions[v].published
          /\ versions'[v].of \in {versions[v].of, "deleted"}
    BY <1>13, TermsMove
  <2>2. UNCHANGED accounts
    BY <1>13 DEF Publish, SaveDraft, Unpublish, DeleteTerms
  <2>3. \A q \in Applicants : applying'[q].consents = applying[q].consents
    <3>1. CASE DeleteTerms(d)
      BY <3>1 DEF DeleteTerms, SignupTypeOK
    <3>2. CASE UNCHANGED applying
      BY <3>2
    <3> QED
      BY <1>13, <3>1, <3>2 DEF Publish, SaveDraft, Unpublish
  <2> QED
    BY <2>1, <2>2, <2>3 DEF AllShown, Shown, Rows
<1> QED
  BY <1>2, <1>3, <1>4, <1>5, <1>7, <1>8, <1>9, <1>10, <1>11, <1>12, <1>13 DEF SignupNext

\* No step puts a request's consents behind what was active when it began, unless
\* the document was deleted (buildTermsConsents reads after the look-ups).
LEMMA FloorStep ==
  ASSUME SignupTypeOK, SignupTypeOK', FloorsStand, ConsentsNotSuperseded, SignupNext
  PROVE  FloorsStand' /\ ConsentsNotSuperseded'
<1> DEFINE Behind(q) ==
      /\ q.st \in {"service", "privacy"} => q.consents["service"] >= q.floor["service"]
      /\ q.st = "privacy" => q.consents["privacy"] >= q.floor["privacy"]
    Floored(q) == \A c \in Consents : q.floor[c] <= ActiveVersion(TermsCategory(c))
<1>0. \A c \in Consents : ActiveVersion(TermsCategory(c)) \in Nat
  BY ActiveIsVersion, SignupAssumption DEF TermsCategory, Categories, VersionIds
<1>1. \A r \in Applicants : Behind(applying[r]) /\ Floored(applying[r])
  BY DEF FloorsStand, ConsentsNotSuperseded
<1>2. ASSUME UNCHANGED <<terms, versions>>,
             \A r \in Applicants : Behind(applying'[r]) /\ Floored(applying'[r])
      PROVE  FloorsStand' /\ ConsentsNotSuperseded'
  <2>1. \A d : ActiveVersion(d)' = ActiveVersion(d)
    BY <1>2 DEF ActiveVersion, Published
  <2> QED
    BY <1>2, <2>1 DEF FloorsStand, ConsentsNotSuperseded
<1>3. ASSUME NEW r \in Applicants, NEW au \in Audiences, NEW l \in Logins,
             NEW e \in Emails, SiteRead(r, au, l, e)
      PROVE  FloorsStand' /\ ConsentsNotSuperseded'
  <2>1. /\ applying'[r].st = "open"
        /\ \A c \in Consents : applying'[r].floor[c] = ActiveVersion(TermsCategory(c))
        /\ \A q \in Applicants \ {r} : applying'[q] = applying[q]
    BY <1>3 DEF SiteRead, SignupTypeOK
  <2>2. Behind(applying'[r]) /\ Floored(applying'[r])
    BY <1>0, <2>1
  <2> QED
    BY <1>1, <1>2, <1>3, <2>1, <2>2 DEF SiteRead
<1>4. Behind(Idle) /\ Floored(Idle)
  BY <1>0 DEF Idle, NoConsent
<1>5. ASSUME NEW r \in Applicants, applying' = [applying EXCEPT ![r] = Idle],
             UNCHANGED <<terms, versions>>
      PROVE  FloorsStand' /\ ConsentsNotSuperseded'
  <2>1. \A q \in Applicants : applying'[q] = applying[q] \/ applying'[q] = Idle
    BY <1>5 DEF SignupTypeOK
  <2> QED
    BY <1>1, <1>2, <1>4, <1>5, <2>1
<1>6. ASSUME NEW r \in Applicants, LookUp(r) PROVE FloorsStand' /\ ConsentsNotSuperseded'
  <2>1. /\ applying'[r].st \in {"first", "second"}
        /\ applying'[r].floor = applying[r].floor
        /\ \A q \in Applicants \ {r} : applying'[q] = applying[q]
    BY <1>6 DEF LookUp, Move, SignupTypeOK
  <2>2. Behind(applying'[r]) /\ Floored(applying'[r])
    BY <1>1, <2>1
  <2> QED
    BY <1>1, <1>2, <1>6, <2>1, <2>2 DEF LookUp
<1>7. ASSUME NEW r \in Applicants, NEW c \in Consents, ReadConsent(r, c)
      PROVE  FloorsStand' /\ ConsentsNotSuperseded'
  <2> DEFINE v == ActiveVersion(TermsCategory(c))
  <2>1. /\ applying'[r].st = c /\ applying'[r].floor = applying[r].floor
        /\ applying'[r].consents = [applying[r].consents EXCEPT ![c] = v]
        /\ \A q \in Applicants \ {r} : applying'[q] = applying[q]
    BY <1>7 DEF ReadConsent, SignupTypeOK
  <2>2. applying[r].st = IF c = "service" THEN "second" ELSE "service"
    BY <1>7 DEF ReadConsent
  <2>3. v \in Nat /\ applying[r].floor[c] <= v
    BY <1>0, <1>1
  <2>4. /\ applying[r].consents \in [Consents -> VersionIds]
        /\ applying[r].floor \in [Consents -> VersionIds]
        /\ VersionIds \subseteq Nat
    BY SignupAssumption DEF SignupTypeOK, VersionIds
  <2>5. applying'[r].consents[c] = v
        /\ \A b \in Consents \ {c} : applying'[r].consents[b] = applying[r].consents[b]
    BY <2>1, <2>4
  <2> HIDE DEF v
  <2>6. Behind(applying'[r])
    <3>1. CASE c = "service"
      BY <2>1, <2>3, <2>4, <2>5, <3>1
    <3>2. CASE c = "privacy"
      <4>1. applying[r].consents["service"] >= applying[r].floor["service"]
        BY <1>1, <2>2, <3>2
      <4> QED
        BY <2>1, <2>3, <2>4, <2>5, <3>2, <4>1 DEF Consents
    <3> QED
      BY <3>1, <3>2 DEF Consents
  <2>7. Floored(applying'[r])
    BY <1>1, <2>1
  <2> QED
    BY <1>1, <1>2, <1>7, <2>1, <2>6, <2>7 DEF ReadConsent
<1>8. CASE UNCHANGED <<applying, terms, versions>>
  BY <1>1, <1>2, <1>8
<1>9. ASSUME NEW d \in Categories, Publish(d) \/ SaveDraft(d) \/ Unpublish(d)
      PROVE  FloorsStand' /\ ConsentsNotSuperseded'
  <2>1. UNCHANGED applying
    BY <1>9 DEF Publish, SaveDraft, Unpublish
  <2>2. terms'[d] # "none"
    BY <1>9 DEF Publish, SaveDraft, Unpublish, SignupTypeOK
  <2>3. ~DeleteTerms(d)
    BY <2>2 DEF DeleteTerms, SignupTypeOK
  <2>4. \A c \in Consents :
          /\ ActiveVersion(TermsCategory(c)) <= ActiveVersion(TermsCategory(c))'
          /\ ActiveVersion(TermsCategory(c))' \in Nat
    BY <1>9, <2>3, TermsMove DEF TermsCategory, Categories
  <2>5. \A r \in Applicants, c \in Consents : applying[r].floor[c] \in Nat
    BY SignupAssumption DEF SignupTypeOK, VersionIds
  <2>6. FloorsStand'
    BY <1>0, <1>1, <2>1, <2>4, <2>5 DEF FloorsStand
  <2> QED
    BY <2>1, <2>6 DEF ConsentsNotSuperseded
<1>10. ASSUME NEW d \in Categories, DeleteTerms(d)
       PROVE  FloorsStand' /\ ConsentsNotSuperseded'
  <2>1. \A r \in Applicants :
          /\ applying'[r].st = applying[r].st /\ applying'[r].consents = applying[r].consents
          /\ \A c \in Consents : applying'[r].floor[c] =
               IF TermsCategory(c) = d THEN 0 ELSE applying[r].floor[c]
    BY <1>10 DEF DeleteTerms, SignupTypeOK
  <2>2. \A r \in Applicants, c \in Consents :
          applying[r].floor[c] \in Nat /\ applying[r].consents[c] \in Nat
    BY SignupAssumption DEF SignupTypeOK, VersionIds
  <2>3. ActiveVersion(d)' = 0
    BY <1>10 DEF DeleteTerms, ActiveVersion, SignupTypeOK
  <2>4. \A c \in Consents : TermsCategory(c) # d =>
          /\ ActiveVersion(TermsCategory(c)) <= ActiveVersion(TermsCategory(c))'
          /\ ActiveVersion(TermsCategory(c))' \in Nat
    BY <1>10, TermsMove DEF TermsCategory, Categories
  <2>5. ASSUME NEW r \in Applicants, NEW c \in Consents
        PROVE  applying'[r].floor[c] <= ActiveVersion(TermsCategory(c))'
    <3>1. CASE TermsCategory(c) = d
      BY <2>1, <2>3, <3>1
    <3>2. CASE TermsCategory(c) # d
      BY <1>0, <1>1, <2>1, <2>2, <2>4, <3>2
    <3> QED
      BY <3>1, <3>2
  <2>6. FloorsStand'
    BY <2>5 DEF FloorsStand
  <2>7. ConsentsNotSuperseded'
    BY <2>1, <2>2 DEF ConsentsNotSuperseded, Consents
  <2> QED
    BY <2>6, <2>7
<1>11. \/ UNCHANGED <<applying, terms, versions>>
       \/ \E r \in Applicants, au \in Audiences, l \in Logins, e \in Emails :
            SiteRead(r, au, l, e)
       \/ \E r \in Applicants : /\ applying' = [applying EXCEPT ![r] = Idle]
                                /\ UNCHANGED <<terms, versions>>
       \/ \E r \in Applicants : LookUp(r)
       \/ \E r \in Applicants, c \in Consents : ReadConsent(r, c)
       \/ \E d \in Categories : Publish(d) \/ SaveDraft(d) \/ Unpublish(d) \/ DeleteTerms(d)
  BY DEF SignupNext, Refuse, Create, AdminCreate, AdminEdit, SetStatus, DeleteAccount,
         ToggleApproval
<1> QED
  BY <1>3, <1>5, <1>6, <1>7, <1>8, <1>9, <1>10, <1>11

\* The conjuncts hold together.
LEMMA SignupInvariance == SignupSpec => []SignupIInv
<1>1. SignupInit => SignupIInv
  <2> SUFFICES ASSUME SignupInit, SignupTypeOK PROVE SignupIInv
    BY SignupInitTyping
  <2>1. Rows = {}
    BY DEF SignupInit, Rows
  <2>2. \A r \in Applicants :
          /\ applying[r].st = "idle" /\ applying[r].status = "pending"
          /\ \A c \in Consents : applying[r].consents[c] = 0 /\ applying[r].floor[c] = 0
    BY DEF SignupInit, Idle, NoConsent
  <2>3. \A c \in Consents : ActiveVersion(TermsCategory(c)) \in Nat
    BY ActiveIsVersion, SignupAssumption DEF TermsCategory, Categories, VersionIds
  <2>4. KeysAreUnique /\ ActiveWasLet /\ ActiveWasFree
    BY <2>1, <2>2 DEF KeysAreUnique, ActiveWasLet, ActiveWasFree
  <2>5. AllShown
    BY <2>1, <2>2 DEF AllShown, Shown
  <2>6. FloorsStand /\ ConsentsNotSuperseded
    BY <2>2, <2>3 DEF FloorsStand, ConsentsNotSuperseded
  <2> QED
    BY <2>4, <2>5, <2>6 DEF SignupIInv
<1>2. SignupIInv /\ SignupTypeOK' /\ [SignupNext]_signupVars => SignupIInv'
  <2>1. CASE SignupNext
    BY <2>1, KeysStep, LetStep, ShownStep, FloorStep DEF SignupIInv
  <2>2. CASE UNCHANGED signupVars
    BY <2>2 DEF signupVars, SignupIInv, KeysAreUnique, SameLogin, SameEmail, ActiveWasLet,
       ActiveWasFree, AllShown, Shown, FloorsStand, ConsentsNotSuperseded, Rows,
       ActiveVersion, Published
  <2> QED
    BY <2>1, <2>2
<1> QED
  BY <1>1, <1>2, SignupTyping, PTL DEF SignupSpec

\* Every account has a login id and an e-mail of its own, and was let in by whom
\* the site asks, whatever requests, edits and moves between sites overlap
\* (submitMemberSignup, submitAccountRequest).
THEOREM AccountsAreSoundHolds == SignupSpec => []AccountsAreSound
<1>1. SignupIInv => AccountsAreSound
  BY DEF SignupIInv, AccountsAreSound
<1> QED
  BY <1>1, SignupInvariance, PTL

\* A consent on a member row names a version its category had published, not one
\* superseded before the request began (buildTermsConsents).
THEOREM ConsentsAreEvidenceHolds == SignupSpec => []ConsentsAreEvidence
<1>1. SignupIInv => ConsentsAreEvidence
  BY DEF SignupIInv, ConsentsAreEvidence, ConsentsWerePublished, AllShown, Shown
<1> QED
  BY <1>1, SignupInvariance, PTL

-----------------------------------------------------------------------------
(* Sessions.  The inductive invariant.                                     *)

\* Of the sessions on the row only remembered ones were live at a deactivation.
RowIsNew == member.sessions \cap old \subseteq raced

\* While the member is inactive, every login, recovery and own save under way was
\* overtaken by the deactivation, unless it leaves the status as it is.
OvertakenAreKnown ==
  member.status = "inactive" =>
    /\ \A l \in MemberLogins : logins[l] # "idle" => l \in raced
    /\ \A q \in Finders : finders[q] = "found" => q \in raced
    /\ \A u \in Edits :
         edits[u].st = "held" /\ edits[u].by = "self" /\ edits[u].status = "active"
           => u \in raced

\* A save under way that was not overtaken writes no session that was live at a
\* deactivation, and, if it leaves the row inactive, no unremembered one at all.
SavesAreNew ==
  \A u \in Edits :
    edits[u].st = "held" /\ u \notin raced =>
      /\ edits[u].sessions \cap old \subseteq raced
      /\ edits[u].status = "inactive" => edits[u].sessions \subseteq raced

MemberIInv ==
  MemberTypeOK /\ RowIsNew /\ InactiveRowIsEmpty /\ OvertakenAreKnown /\ SavesAreNew

-----------------------------------------------------------------------------

\* The row and the requests have their shape (memberHooks.ts, Members.ts).
LEMMA MemberTyping == MemberSpec => []MemberTypeOK
<1>1. MemberInit => MemberTypeOK
  BY DEF MemberInit, MemberTypeOK, MemberStatus, NoEdit
<1>2. MemberTypeOK /\ [MemberNext]_memberVars => MemberTypeOK'
  <2> SUFFICES ASSUME MemberTypeOK, [MemberNext]_memberVars PROVE MemberTypeOK'
    OBVIOUS
  <2> USE DEF MemberTypeOK, MemberStatus
  <2>1. ASSUME NEW l \in MemberLogins, NEW p \in Browsers \cup {"confirm"},
               MemberLoginStart(l, p)
        PROVE  MemberTypeOK'
    BY <2>1 DEF MemberLoginStart
  <2>2. ASSUME NEW l \in MemberLogins, NEW s \in Sids, MemberLoginEnd(l, s)
        PROVE  MemberTypeOK'
    BY <2>2 DEF MemberLoginEnd
  <2>3. ASSUME NEW b \in Browsers, MemberLogout(b) \/ AdminLogsIn(b) PROVE MemberTypeOK'
    BY <2>3 DEF MemberLogout, AdminLogsIn
  <2>4. ASSUME NEW s \in Sids, Expire(s) PROVE MemberTypeOK'
    BY <2>4 DEF Expire
  <2>5. ASSUME NEW u \in Edits, SelfAuth(u) PROVE MemberTypeOK'
    BY <2>5 DEF SelfAuth
  <2>6. ASSUME NEW u \in Edits, SelfBegin(u) PROVE MemberTypeOK'
    BY <2>6 DEF SelfBegin, Hold, Revoked
  <2>7. ASSUME NEW u \in Edits, NEW st \in MemberStatus, AdminBegin(u, st)
        PROVE  MemberTypeOK'
    BY <2>7 DEF AdminBegin, Hold, Revoked
  <2>8. ASSUME NEW u \in Edits, EditWrite(u) PROVE MemberTypeOK'
    BY <2>8 DEF EditWrite, NoEdit, InFlight
  <2>9. ASSUME NEW q \in Finders, FindActive(q) PROVE MemberTypeOK'
    BY <2>9 DEF FindActive
  <2>10. ASSUME NEW q \in Finders, NEW sent \in BOOLEAN, Forgot(q, sent)
         PROVE  MemberTypeOK'
    BY <2>10 DEF Forgot
  <2>11. CASE Reset
    BY <2>11 DEF Reset
  <2>12. CASE UNCHANGED memberVars
    BY <2>12 DEF memberVars
  <2> QED
    BY <2>1, <2>2, <2>3, <2>4, <2>5, <2>6, <2>7, <2>8, <2>9, <2>10, <2>11, <2>12
    DEF MemberNext
<1> QED
  BY <1>1, <1>2, PTL DEF MemberSpec

\* What is remembered of a deactivation covers whatever is still under way:
\* the conjuncts hold together, step by step (memberHooks.ts, site/member.ts).
LEMMA MemberInvariance == MemberSpec => []MemberIInv
<1>1. MemberInit => MemberIInv
  <2> SUFFICES ASSUME MemberInit PROVE MemberIInv
    OBVIOUS
  <2>1. MemberTypeOK
    BY DEF MemberInit, MemberTypeOK, MemberStatus, NoEdit
  <2>2. RowIsNew /\ InactiveRowIsEmpty /\ OvertakenAreKnown /\ SavesAreNew
    BY DEF MemberInit, RowIsNew, InactiveRowIsEmpty, OvertakenAreKnown, SavesAreNew, NoEdit
  <2> QED
    BY <2>1, <2>2 DEF MemberIInv
<1>2. MemberIInv /\ MemberTypeOK' /\ [MemberNext]_memberVars => MemberIInv'
  <2> SUFFICES ASSUME MemberIInv, MemberTypeOK', [MemberNext]_memberVars
               PROVE  MemberIInv'
    OBVIOUS
  <2> USE MemberAssumption DEF MemberIInv
  <2> DEFINE Rest == RowIsNew' /\ InactiveRowIsEmpty' /\ OvertakenAreKnown' /\ SavesAreNew'
  <2>1. ASSUME NEW l \in MemberLogins, NEW p \in Browsers \cup {"confirm"},
               MemberLoginStart(l, p)
        PROVE  Rest
    BY <2>1 DEF MemberLoginStart, LoginAllowed, MemberTypeOK, RowIsNew,
                InactiveRowIsEmpty, OvertakenAreKnown, SavesAreNew
  <2>2. ASSUME NEW l \in MemberLogins, NEW s \in Sids, MemberLoginEnd(l, s)
        PROVE  Rest
    <3> USE <2>2 DEF MemberLoginEnd, Fresh, MemberTypeOK
    <3>1. RowIsNew'
      BY DEF RowIsNew
    <3>2. InactiveRowIsEmpty'
      BY DEF InactiveRowIsEmpty, OvertakenAreKnown
    <3>3. OvertakenAreKnown'
      BY DEF OvertakenAreKnown
    <3>4. SavesAreNew'
      BY DEF SavesAreNew
    <3> QED
      BY <3>1, <3>2, <3>3, <3>4
  <2>3. ASSUME NEW b \in Browsers, MemberLogout(b) \/ AdminLogsIn(b) PROVE Rest
    BY <2>3 DEF MemberLogout, AdminLogsIn, RowIsNew, InactiveRowIsEmpty,
                OvertakenAreKnown, SavesAreNew
  <2>4. ASSUME NEW s \in Sids, Expire(s) PROVE Rest
    <3> USE <2>4 DEF Expire, MemberTypeOK
    <3>1. RowIsNew' /\ InactiveRowIsEmpty'
      BY DEF RowIsNew, InactiveRowIsEmpty
    <3>2. OvertakenAreKnown'
      BY DEF OvertakenAreKnown
    <3>3. SavesAreNew'
      BY DEF SavesAreNew
    <3> QED
      BY <3>1, <3>2, <3>3
  <2>5. ASSUME NEW u \in Edits, SelfAuth(u) PROVE Rest
    BY <2>5 DEF SelfAuth, MemberTypeOK, RowIsNew, InactiveRowIsEmpty,
                OvertakenAreKnown, SavesAreNew
  <2>6. ASSUME NEW u \in Edits, NEW by \in {"self", "admin"}, NEW st \in MemberStatus,
               Hold(u, by, st), by = "self" => st = member.status,
               UNCHANGED <<member, cookie, logins, finders, old, raced>>
        PROVE  Rest
    <3> USE <2>6 DEF Hold, Revoked, MemberTypeOK, MemberStatus
    <3>1. RowIsNew' /\ InactiveRowIsEmpty'
      BY DEF RowIsNew, InactiveRowIsEmpty
    <3>2. OvertakenAreKnown'
      BY DEF OvertakenAreKnown
    <3>3. SavesAreNew'
      BY DEF SavesAreNew, RowIsNew, InactiveRowIsEmpty
    <3> QED
      BY <3>1, <3>2, <3>3
  <2>7. ASSUME NEW u \in Edits, EditWrite(u) PROVE Rest
    <3> USE <2>7 DEF EditWrite, Deactivates, InFlight, NoEdit, MemberTypeOK, MemberStatus
    <3>1. RowIsNew'
      BY DEF RowIsNew, SavesAreNew
    <3>2. InactiveRowIsEmpty'
      BY DEF InactiveRowIsEmpty, SavesAreNew
    <3>3. OvertakenAreKnown'
      BY DEF OvertakenAreKnown
    <3>4. SavesAreNew'
      BY DEF SavesAreNew
    <3> QED
      BY <3>1, <3>2, <3>3, <3>4
  <2>8. ASSUME NEW q \in Finders, FindActive(q) PROVE Rest
    BY <2>8 DEF FindActive, MemberTypeOK, RowIsNew, InactiveRowIsEmpty,
                OvertakenAreKnown, SavesAreNew
  <2>9. ASSUME NEW q \in Finders, NEW sent \in BOOLEAN, Forgot(q, sent) PROVE Rest
    BY <2>9 DEF Forgot, MemberTypeOK, RowIsNew, InactiveRowIsEmpty,
                OvertakenAreKnown, SavesAreNew
  <2>10. CASE Reset
    BY <2>10 DEF Reset, MemberTypeOK, RowIsNew, InactiveRowIsEmpty,
                 OvertakenAreKnown, SavesAreNew
  <2>11. CASE UNCHANGED memberVars
    BY <2>11 DEF memberVars, RowIsNew, InactiveRowIsEmpty, OvertakenAreKnown, SavesAreNew
  <2>12. ASSUME NEW u \in Edits, SelfBegin(u) PROVE Rest
    BY <2>12, <2>6 DEF SelfBegin, MemberTypeOK
  <2>13. ASSUME NEW u \in Edits, NEW st \in MemberStatus, AdminBegin(u, st) PROVE Rest
    BY <2>13, <2>6 DEF AdminBegin
  <2>14. Rest
    BY <2>1, <2>2, <2>3, <2>4, <2>5, <2>7, <2>8, <2>9, <2>10, <2>11, <2>12, <2>13
    DEF MemberNext
  <2> QED
    BY <2>14
<1> QED
  BY <1>1, <1>2, MemberTyping, PTL DEF MemberSpec

-----------------------------------------------------------------------------
(* What deactivation ends.                                                 *)

\* A deactivated member is out for good: no session minted before is believed
\* again and none is left on the row, but for what was under way
\* (revokeMemberSessionsOnStatusChange, blockInactiveMemberLogin).
THEOREM DeactivatedIsOutHolds == MemberSpec => []DeactivatedIsOut
<1>1. MemberIInv => DeactivatedIsOut
  BY DEF MemberIInv, RowIsNew, DeactivatedIsOut, OldSessionsAreOut, Visitor, Principal
<1> QED
  BY <1>1, MemberInvariance, PTL

\* No save of the member's own undoes a deactivation, and no reset link is sent
\* afterwards, but for requests that had read the row before (profile/actions.ts,
\* findMemberPassword).
THEOREM InactiveGainsNothingHolds == MemberSpec => InactiveGainsNothing
<1>1. ASSUME MemberIInv, MemberNext, member.status = "inactive", member'.status = "active"
      PROVE  \E u \in Edits : /\ edits[u].st = "held" /\ edits'[u].st = "idle"
                              /\ u \in raced \/ edits[u].by = "admin"
  <2> USE DEF MemberIInv, MemberTypeOK
  <2>1. ASSUME NEW u \in Edits, EditWrite(u)
        PROVE  /\ edits[u].st = "held" /\ edits'[u].st = "idle"
               /\ u \in raced \/ edits[u].by = "admin"
    BY <1>1, <2>1 DEF EditWrite, NoEdit, OvertakenAreKnown
  <2>2. \E u \in Edits : EditWrite(u)
    BY <1>1 DEF MemberNext, MemberLoginStart, MemberLoginEnd, MemberLogout, AdminLogsIn,
       Expire, SelfAuth, SelfBegin, AdminBegin, FindActive, Forgot, Reset
  <2> QED
    BY <2>1, <2>2
<1>2. ASSUME MemberIInv, MemberNext, ~member.link, member'.link
      PROVE  member.status = "active" \/ \E q \in Finders : q \in raced /\ finders[q] = "found"
  <2> USE DEF MemberIInv, MemberTypeOK, MemberStatus
  <2>1. ASSUME NEW q \in Finders, NEW sent \in BOOLEAN, Forgot(q, sent)
        PROVE  member.status = "active" \/ (q \in raced /\ finders[q] = "found")
    BY <1>2, <2>1 DEF Forgot, OvertakenAreKnown
  <2>2. \E q \in Finders, sent \in BOOLEAN : Forgot(q, sent)
    BY <1>2 DEF MemberNext, MemberLoginStart, MemberLoginEnd, MemberLogout, AdminLogsIn,
       Expire, SelfAuth, SelfBegin, AdminBegin, EditWrite, FindActive, Reset
  <2> QED
    BY <2>1, <2>2
<1>3. MemberIInv /\ [MemberNext]_memberVars =>
        /\ [(member.status = "inactive" /\ member'.status = "active") =>
             \E u \in Edits : /\ edits[u].st = "held" /\ edits'[u].st = "idle"
                              /\ u \in raced \/ edits[u].by = "admin"]_memberVars
        /\ [(~member.link /\ member'.link) =>
             \/ member.status = "active"
             \/ \E q \in Finders : q \in raced /\ finders[q] = "found"]_memberVars
  BY <1>1, <1>2
<1> QED
  BY <1>3, MemberInvariance, PTL
  DEF MemberSpec, InactiveGainsNothing, ReactivationIsAdmins, LinksGoToActive
=============================================================================
