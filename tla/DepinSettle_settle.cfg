SPECIFICATION FairDepinSpec
CONSTANTS
  Owner = {alice}
  alice = alice
  NoOwner = NoOwner
  Cap = 1
  Reconnect = {}
  MaxClaim = 0
  MaxLength = 2
  MaxNodes = 2
  Settler = {timer, manual}
  Timer = timer
  timer = timer
  manual = manual
  MaxUnheard = 1
  MaxPaid = 5
CHECK_DEADLOCK FALSE
INVARIANTS
  SettleTypeOK
  RewardConserved
  TotalsArePaid
PROPERTIES
  PendingIsSettled
