CONSTANTS
  Users = {u1}
  Logins = {l1}
  Enrols = {e1, e2}
  Updates = {d1}
  Status = {"active", "dormant"}
  Secrets = {s1, s2}
  NoSecret = NoSecret
  MaxAttempts = 1
  LockTicks = 1
  MaxFailed = 1
SPECIFICATION Spec
SYMMETRY Symmetry
INVARIANTS
  ConfirmedMeansVerified
