SPECIFICATION FairVoucherSpec
CONSTANTS
  User = {1, 2}
  Voucher = {1, 2}
  Name <- Names
  Request <- VoucherRequests
  Session = {s1, s2}
  s1 = s1
  s2 = s2
INVARIANTS
  JournalExplainsBalance
  VoucherSettledOnce
  NoDeadlock
PROPERTIES
  StepsImplementLedger
  TransactionEnds
