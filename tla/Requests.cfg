CONSTANTS
  Clients = {c1, c2}
  Admins = {a1, a2, a3}
  Ops = {"create", "revoke"}
  Params = {"hash", "plain"}
  InitQuota = 1
  Amounts = {1}
  RedisMayFail = FALSE
  Categories <- TwoCategories
  Orders <- TwoOrders
  OrderAdmins = {a1, a2}
  MaxOrders = 2
  MaxOrderRefusals = 1
  ServedOrders <- MCServed
  MediaOf <- MCMedia
  Extractions = {x1}
  allowedFormats <- MCAllowed
  formatCompatibility <- MCCompatible
  supportedFormats <- MCSupported
  ConvertOrders <- MCConvertOrders
  Wanted <- MCWanted
  Conversions = {v1}
  MaxChanges = 2
SPECIFICATION RequestsSpec
INVARIANTS OrdersAreUsable  JobsStayKnown
PROPERTIES RevocationTakesEffect ListsAreFollowed EveryRequestEnds StreamsReturn
CHECK_DEADLOCK FALSE
