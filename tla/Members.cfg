CONSTANTS
  Accounts = {a1, a2}
  Logins = {l1}
  Emails = {e1}
  Tenants = {s1}
  Home = s1
  Applicants = {r1, r2}
  Absent = Absent
  MaxVersion = 2
  Sids = {t1, t2}
  Browsers = {b1, b2}
  MemberLogins = {m1}
  Edits = {u1, u2}
  Finders = {q1}
  NoCookie = NoCookie
  AdminCookie = AdminCookie
SPECIFICATION Spec
SYMMETRY Symmetry
INVARIANTS
  AccountsAreSound
  ConsentsAreEvidence
  DeactivatedIsOut

  
