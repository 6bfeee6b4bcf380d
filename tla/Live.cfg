SPECIFICATION LiveSpec
CHECK_DEADLOCK FALSE
CONSTANTS
  Users = {u1}
  Logins = {l1, l2}
  Enrols = {}
  Updates = {}
  Status = {"active", "dormant"}
  Secrets = {s1}
  NoSecret = NoSecret
  MaxAttempts = 1
  LockTicks = 3
  MaxFailed = 1
  Triggers = {t1, t2}
  MaxTrouble = 1
INVARIANTS
  SeedIsSound
PROPERTIES
  LockRunsOut
  SeedCompletes
