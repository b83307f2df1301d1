----------------------------- MODULE MCPaymentFlow -----------------------------
(***************************************************************************)
(* Small request sets for PaymentFlow.                                     *)
(***************************************************************************)
EXTENDS PaymentFlow

Call(op, u, w, n, v, c) ==
  [op |-> op, user |-> u, to |-> w, amount |-> n, voucher |-> v, code |-> c]

\* One charge.  Its id is public: the requests below use it as their code, too.
ID == <<9>>
OneCharge == {ID}
PriceOfOne == [c \in OneCharge |-> 1]

\* What other callers choose as their codes.
One == <<1>>
Two == <<2>>
Names == {One, Two, ID}

\* Two customers who may approve the charge, and a payment and a transfer under the
\* charge's id and under another code.
ChargeRequests ==
  {Call("deposit", 1, 1, 2, 1, One), Call("deposit", 2, 2, 1, 1, One),
   Call("deduct", 1, 1, 1, 1, One), Call("transfer", 1, 2, 1, 1, One),
   Call("deduct", 1, 1, 1, 1, ID), Call("transfer", 1, 2, 1, 1, ID)}

\* A voucher, redeemed under the charge's id, which clashes with the charge's approval; a
\* payment and a transfer under the same id; rewards, one of them of nothing, and an
\* expiry sweep.  The redemption's request names another user than the owner.
VoucherRequests ==
  {Call("deposit", 1, 1, 2, 1, One), Call("deposit", 2, 2, 0, 1, One),
   Call("issue", 1, 1, 1, 1, One),
   Call("redeem", 2, 2, 3, 1, ID), Call("deduct", 1, 1, 1, 1, ID),
   Call("transfer", 1, 2, 1, 1, ID),
   Call("reward", 1, 1, 1, 1, Two), Call("reward", 1, 1, 0, 1, One),
   Call("expire", 1, 1, 1, 1, One)}
=============================================================================
