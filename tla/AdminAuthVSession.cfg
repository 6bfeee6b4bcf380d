CONSTANTS
  Users = {u1}
  Logins = {l1}
  Enrols = {}
  Updates = {d1}
  Status = {"active", "dormant"}
  Secrets = {s1}
  NoSecret = NoSecret
  MaxAttempts = 1
  LockTicks = 1
  MaxFailed = 1
SPECIFICATION Spec
INVARIANTS
  InactiveHoldsNoSession
