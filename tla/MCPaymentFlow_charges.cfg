SPECIFICATION FairFlowSpec
CONSTANTS
  User = {1, 2}
  Voucher = {1}
  Name <- Names
  Request <- ChargeRequests
  Charge <- OneCharge
  Price <- PriceOfOne
  Handler = {h1, h2}
  Fault = {}
CHECK_DEADLOCK FALSE
INVARIANTS
  FlowTypeOK
  PaidMeansDebited
  LedgerComplete
PROPERTIES
  ChargeSettles
