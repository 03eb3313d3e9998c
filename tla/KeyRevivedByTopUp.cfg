CONSTANTS
  Clients = {c1}
  Admins = {a1, a2, a3}
  Ops = {"create", "revoke", "topup"}
  Params = {"hash", "plain"}
  InitQuota = 1
  Amounts = {1}
  RedisMayFail = FALSE
SPECIFICATION Spec
INVARIANTS StaysRevoked
CHECK_DEADLOCK FALSE
