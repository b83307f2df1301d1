SPECIFICATION FairClusterSpec
CONSTANTS
  Owner = {alice}
  alice = alice
  NoOwner = NoOwner
  Cap = 1
  Reconnect = {"all", "held"}
  MaxClaim = 1
  MaxLength = 3
  MaxNodes = 2
CHECK_DEADLOCK FALSE
INVARIANTS
  LocalCopiesAgree
  PhoneCatchesUp
  TruthfulEarnsStored
  AckedIsPhoneLength
PROPERTIES
  LiveEntriesMetered
