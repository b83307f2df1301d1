----------------------------- MODULE MCDeviceAccess -----------------------------
(***************************************************************************)
(* What the phones of one user send.                                       *)
(***************************************************************************)
EXTENDS DeviceAccess

Item(sku, price, quantity) == [sku |-> sku, price |-> price, quantity |-> quantity]
Bill(code, items) == [code |-> code, items |-> items]

\* The words 7, 8 and 9 are a code and two skus.  Edited has the text of Signed, with
\* other prices and the second item taken into the first one's sku; Cheaper has another.
Signed == Bill(<<7>>, <<Item(<<8>>, 1, 1), Item(<<9>>, 2, 1)>>)
Edited == Bill(<<7>>, <<Item(<<8, Colon, 1, Comma, 9>>, 3, 1)>>)
Cheaper == Bill(<<7>>, <<Item(<<8>>, 1, 1), Item(<<9>>, 1, 1)>>)

\* The text of Barred, whose sku contains a "|", is that of Shifted, whose total is less.
Barred == Bill(<<7>>, <<Item(<<1, Bar, 8>>, 2, 1)>>)
Shifted == Bill(<<7, Bar, 2>>, <<Item(<<8>>, 1, 1)>>)

CONSTANT Phone   \* the key of the phone that pays and connects, one of the user's

Pay(signed, bill) ==
  [kind |-> "pay", key |-> Phone, signer |-> Phone, bill |-> bill, signed |-> signed]
Frame(signer, nonce) ==
  [kind |-> "auth", key |-> Phone, signer |-> signer, signed |-> nonce]

\* The bill is edited after the phone signed it; the phone answers an earlier challenge,
\* or another phone signs.
Payments == {Pay(Signed, Edited), Pay(Signed, Cheaper), Pay(Barred, Shifted)}
AuthFrames ==
  {Frame(k, "this nonce") : k \in Key} \cup {Frame(Phone, "earlier nonce")}
=============================================================================
