------------------------------- MODULE CartTotal -------------------------------
(***************************************************************************)
(* Summing a cart in fixed-width integers: the wallet's cartTotal, the     *)
(* copy of it in the gateway's charge store, and the gateway's unguarded   *)
(* sum for the ledger entry.  The model visits every small cart.           *)
(***************************************************************************)
EXTENDS Integers, SequencesExt

CONSTANTS
  Half,        \* half the range of a price or total (2^63 for the code's int64)
  Quantities,  \* how many quantities there are (2^32 for the code's uint32)
  MaxItems     \* bound: items in a cart

ASSUME CartAssumption ==
  Half \in Nat /\ Quantities \in Nat /\ MaxItems \in Nat /\ Quantities <= Half

VARIABLE cart

Minor == (0 - Half) .. (Half - 1)
Item == [price : Minor, quantity : 0 .. (Quantities - 1)]

\* Two's complement arithmetic, and division that truncates towards zero.
Wrap(n) == ((n + Half) % (2 * Half)) - Half
Quotient(n, d) == IF n < 0 THEN 0 - ((0 - n) \div d) ELSE n \div d

Error == 0 - 1

Line(item) == Wrap(item.price * item.quantity)

\* The guard against overflow of a line; the mutant tests the sign only.
SignOnly(item) == Line(item) < 0
LineOverflows(item) ==
  item.price # 0 /\ Quotient(Line(item), item.quantity) # item.price

\* One turn of the loop; a total below zero is an error met before.
AddItem(total, item) ==
  IF total < 0 \/ item.price < 0 \/ item.quantity = 0 \/ LineOverflows(item)
  THEN Error
  ELSE IF Wrap(total + Line(item)) < total THEN Error ELSE Wrap(total + Line(item))

\* The wallet also refuses the empty cart and a total of zero.
Positive(total) == IF total > 0 THEN total ELSE Error
WalletTotal(items) == IF items = <<>> THEN Error ELSE Positive(FoldLeft(AddItem, 0, items))

\* charges.Create refuses the empty cart before it sums.
ChargeTotal(items) == IF items = <<>> THEN Error ELSE Positive(FoldLeft(AddItem, 0, items))

\* The gateway sums without guards; the mutant forgets the quantities.
AddPrice(total, item) == Wrap(total + item.price)
AddLogged(total, item) == Wrap(total + Line(item))
LoggedTotal(items) == FoldLeft(AddLogged, 0, items)

Init == cart = <<>>
Next == Len(cart) < MaxItems /\ \E item \in Item : cart' = Append(cart, item)
Spec == Init /\ [][Next]_cart

(***************************************************************************)
(* Properties.                                                             *)
(***************************************************************************)
\* The reference: the sum in unbounded arithmetic, if the cart is valid and the sum
\* is positive and fits.
ExactSum(items) == FoldLeft(LAMBDA total, item : total + item.price * item.quantity, 0, items)
Valid(items) ==
  /\ \A i \in DOMAIN items : items[i].price >= 0 /\ items[i].quantity > 0
  /\ ExactSum(items) \in 1 .. (Half - 1)
Reference(items) == IF Valid(items) THEN ExactSum(items) ELSE Error

\* cartTotal in the wallet and in the charge store: no overflow gets past the
\* guards, and they refuse no cart whose total fits, so a charge that could be
\* created is never refused for its cart when it is approved.
TotalsExact == WalletTotal(cart) = Reference(cart) /\ ChargeTotal(cart) = Reference(cart)

\* settle: the amount in the ledger entry is the one the wallet debited, although
\* the gateway's sum has no guards.
LoggedIsDebited == WalletTotal(cart) # Error => LoggedTotal(cart) = WalletTotal(cart)
=============================================================================
