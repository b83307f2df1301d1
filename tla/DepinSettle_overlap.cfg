SPECIFICATION DepinSpec
CONSTANTS
  Owner = {alice, bob}
  alice = alice
  bob = bob
  NoOwner = NoOwner
  Cap = 1
  Reconnect = {"all"}
  MaxClaim = 0
  MaxLength = 2
  MaxNodes = 2
  Settler = {timer, manual}
  Timer = timer
  timer = timer
  manual = manual
  MaxUnheard = 0
  MaxPaid = 4
CHECK_DEADLOCK FALSE
INVARIANTS
  NeverDoublePaid
