----------------------------- MODULE MCWalletStore -----------------------------
(***************************************************************************)
(* Small request sets that make the interesting cases of WalletStore meet. *)
(***************************************************************************)
EXTENDS WalletStore, TLC

Call(op, u, w, n, v, c) ==
  [op |-> op, user |-> u, to |-> w, amount |-> n, voucher |-> v, code |-> c]
A == <<1>>
B == <<2>>
DepositOf(u, n) == Call("deposit", u, u, n, 1, A)
DeductOf(u, n, c) == Call("deduct", u, u, n, 1, c)
TransferOf(u, w, n, c) == Call("transfer", u, w, n, 1, c)
RewardOf(u, n, c) == Call("reward", u, u, n, 1, c)
IssueOf(v, u, n) == Call("issue", u, u, n, v, A)
RedeemOf(v, c) == Call("redeem", 1, 1, 1, v, c)
ExpireAll == Call("expire", 1, 1, 1, 1, A)

\* Deposits that may be repeated, a charge, a transfer and a voucher that together
\* exceed the balance, transfers in both directions, a reward under the code of one
\* transfer's debit, and an expiry sweep, whose audit row has the code of the charge.
MoneyRequests ==
  {DepositOf(1, 2), DepositOf(2, 1), DeductOf(1, 2, ExpireCode(1)),
   TransferOf(1, 2, 1, A), TransferOf(2, 1, 2, B), RewardOf(2, 1, OutCode(A)),
   IssueOf(1, 1, 1), ExpireAll}

\* Two vouchers of one owner or of two, one of them issued already, expiry sweeps, and
\* transfers that lock the accounts in the order of user_id while a sweep locks them in
\* voucher order; the redemption uses the code of one transfer's debit.
VoucherRequests ==
  {IssueOf(1, 1, 1), IssueOf(1, 2, 1), RedeemOf(1, OutCode(A)),
   TransferOf(1, 2, 1, A), TransferOf(2, 1, 1, B), ExpireAll}
Names == {A, B, OutCode(A), ExpireCode(1)}

\* The state that deposits of two users and the issue of voucher 2 lead to; its
\* expiry has passed on the clock of the wallet, not yet on that of the database.
VoucherInit ==
  /\ open = User
  /\ account = [u \in User |-> [limit |-> 2, avail |-> IF u = 1 THEN 1 ELSE 2]]
  /\ voucher = [v \in Voucher |->
       IF v = 2 THEN [state |-> "issued", user |-> 1, amount |-> 1] ELSE NoVoucher]
  /\ trx = {IssueRow(IssueOf(2, 1, 1))}
  /\ lapsed = [c \in Clock |-> IF c = "wallet" THEN {2} ELSE {}]
  /\ before = [u \in User |-> {}]
  /\ pc = [s \in Session |-> "idle"]
  /\ req = [s \in Session |-> NoRequest]
  /\ bal = [s \in Session |-> 0]
  /\ todo = [s \in Session |-> {}]
  /\ work = [s \in Session |-> NoWork]
  /\ locks = [r \in Row |-> {}]
VoucherSpec == VoucherInit /\ [][Next]_vars
FairVoucherSpec == VoucherSpec /\ Fairness

\* From there, too, every commit is one step of WalletLedger.
StepsImplementLedger == [][Ledger!Next]_(Ledger!vars)

\* The sessions differ only in their names.
SessionSymmetry == Permutations(Session)
=============================================================================
