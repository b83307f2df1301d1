------------------------------- MODULE ScanAndGo -------------------------------
(***************************************************************************)
(* Carts filled from the merchants' catalog: a customer scans a barcode,   *)
(* the gateway answers with a product, and the customer's app puts it into *)
(* the cart it will send, while merchants list and delist products.  Other *)
(* requests send any cart (CartTotal).                                     *)
(***************************************************************************)
EXTENDS CartTotal

CONSTANTS
  Merchant,
  Barcode

VARIABLES
  products,  \* the catalog; a product's id names its record
  scanned    \* every item of the cart was scanned

scan == <<cart, products, scanned>>

Product == [merchant : Merchant, barcode : Barcode, price : Minor]

\* main seeds the catalog with priced products of different barcodes.
ScanInit ==
  /\ Init
  /\ \E p \in Product : p.price > 0 /\ products = {p}
  /\ scanned = TRUE

\* Create's checks; the mutants forget one of them.
AnyPrice(p) == TRUE
Priced(p) == p.price > 0
Untaken(p) == TRUE
BarcodeFree(p) == \A x \in products : x.merchant # p.merchant \/ x.barcode # p.barcode

ProductCreate(p) ==
  /\ Priced(p) /\ BarcodeFree(p)
  /\ products' = products \cup {p}
  /\ UNCHANGED <<cart, scanned>>

ProductDelete(p) ==
  /\ p \in products
  /\ products' = products \ {p}
  /\ UNCHANGED <<cart, scanned>>

\* ByBarcode returns the first match in the map's random order.
ByBarcode(barcode) == {p \in products : p.barcode = barcode}

\* The app (external) adds what it scanned, once or more.
Scan(barcode) ==
  /\ Len(cart) < MaxItems
  /\ \E p \in ByBarcode(barcode), item \in Item :
       /\ item.price = p.price /\ item.quantity > 0
       /\ cart' = Append(cart, item)
  /\ UNCHANGED <<products, scanned>>

\* An item of a request that does not come from the catalog.
Enter ==
  /\ Next
  /\ scanned' = FALSE
  /\ UNCHANGED products

ScanNext ==
  \/ \E p \in Product : ProductCreate(p) \/ ProductDelete(p)
  \/ \E barcode \in Barcode : Scan(barcode)
  \/ Enter

ScanSpec == ScanInit /\ [][ScanNext]_scan

(***************************************************************************)
(* Properties.                                                             *)
(***************************************************************************)
\* productCreate against cartTotal: a cart of scanned products, whatever was delisted
\* or listed at another price since, is refused only because its sum does not fit.
ScannedCartPayable ==
  scanned /\ cart # <<>> /\ WalletTotal(cart) = Error => ExactSum(cart) >= Half

\* ByBarcode: the answer depends on the map's order only where two merchants use one
\* barcode, never on one merchant's listing and delisting.
ScanUnambiguous ==
  \A barcode \in Barcode :
    \A p, x \in ByBarcode(barcode) : p # x => p.merchant # x.merchant
=============================================================================
