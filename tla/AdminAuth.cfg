CONSTANTS
  Users = {u1}
  Logins = {l1, l2}
  Enrols = {}
  Updates = {d1}
  Status = {"active", "dormant"}
  Secrets = {s1}
  NoSecret = NoSecret
  MaxAttempts = 2
  LockTicks = 3
  MaxFailed = 2
SPECIFICATION Spec
SYMMETRY Symmetry
INVARIANTS
  
  LockedMeansExhausted
  InactiveSessionsAreRaced
