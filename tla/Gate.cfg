CONSTANTS
  Clients = {c1, c2}
  Admins = {a1, a2, a3}
  Ops = {"create", "revoke", "topup", "reset"}
  Params = {"hash", "plain"}
  InitQuota = 1
  Amounts = {1, 2}
  RedisMayFail = TRUE
  TokenClients = {c1, c2}
  WindowTicks = 2
  MaxNow = 6
  Limits <- MCLimits
  Limited = {c1, c2}
  LimitLife = 2
  MaxArrivals = 5
  MaxLimitTicks = 4
  MaxLimitFaults = 1
  Platforms <- MCPlatforms
  FlagReaders = {c1, c2}
  FlagAdmins = {s1, s2}
  FlagLife = 1
  MaxToggles = 2
  MaxFlagTicks = 2
  MaxFlagFaults = 1
  Tokens = {s1, s2}
  SessionAdmins = {c1, c2}
  Cleaners = {g1, g2}
  SessionLife = 1
  MaxSessionTicks = 2
  MaxSessionFaults = 1
SPECIFICATION GateSpec
SYMMETRY GateSymmetry
INVARIANTS AdminWritesHold QuotaRespected TokenLife LimitsHold FlagsFollow SessionsAgree
CHECK_DEADLOCK FALSE
