SPECIFICATION Spec
CONSTANTS
  Phone = {phone}
  phone = phone
  Data = {coffee, bread}
  coffee = coffee
  bread = bread
  Reader = {reader}
  reader = reader
  Boot = 2
  MaxLength = 2
  MaxNodes = 3
  MaxKey = 2
CHECK_DEADLOCK FALSE
INVARIANTS
  ChainTypeOK
  AnswersCoherent
  TamperDetected
PROPERTIES
  ImplementsSignedLog
