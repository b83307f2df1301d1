SPECIFICATION Spec
CONSTANTS
  User = {1, 2}
  Voucher = {1, 2}
  Name <- Names
  Request <- MoneyRequests
  Session = {s1, s2}
  s1 = s1
  s2 = s2
SYMMETRY SessionSymmetry
INVARIANTS
  TypeOK
  NoNegativeCredit
  BalanceReadIsCurrent
  JournalExplainsBalance
PROPERTIES
  ImplementsLedger
