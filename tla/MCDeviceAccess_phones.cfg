SPECIFICATION FairAccessSpec
CONSTANTS
  Key = {k1, k2}
  k1 = k1
  k2 = k2
  Session = {s1, s2}
  s1 = s1
  s2 = s2
  Handler = {h1}
  h1 = h1
  Phone = k1
  Payment <- Payments
  Auth <- AuthFrames
CHECK_DEADLOCK FALSE
INVARIANTS
  AccessTypeOK
  KeyWasActive
  DebitsWhatWasSigned
PROPERTIES
  RebindTakesOver
  RebindEnds
  NeverLockedOut
  ConnectionsEnd
