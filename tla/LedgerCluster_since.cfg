SPECIFICATION FairClusterSpec
CONSTANTS
  Owner = {alice, bob}
  alice = alice
  bob = bob
  NoOwner = NoOwner
  Cap = 1
  Reconnect = {"held"}
  MaxClaim = 0
  MaxLength = 2
  MaxNodes = 2
CHECK_DEADLOCK FALSE
PROPERTIES
  ReconnectEarns
