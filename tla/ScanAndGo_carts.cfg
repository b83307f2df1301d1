SPECIFICATION ScanSpec
CONSTANTS
  Half = 8
  Quantities = 4
  MaxItems = 2
  Merchant = {kahve, demo}
  kahve = kahve
  demo = demo
  Barcode = {latte}
  latte = latte
CHECK_DEADLOCK FALSE
INVARIANTS
  TotalsExact
  LoggedIsDebited
  ScannedCartPayable
  ScanUnambiguous
