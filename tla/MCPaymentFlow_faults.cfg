SPECIFICATION FlowSpec
CONSTANTS
  User = {1, 2}
  Voucher = {1}
  Name <- Names
  Request <- VoucherRequests
  Charge <- OneCharge
  Price <- PriceOfOne
  Handler = {h1, h2}
  Fault = {"call", "restart"}
CHECK_DEADLOCK FALSE
INVARIANTS
  PaidMeansDebited
  LedgerOnlyOfSpending
