----------------------------- MODULE WalletLedger -----------------------------
(***************************************************************************)
(* What the wallet's store promises its callers: every operation is atomic,*)
(* spends no more than the available credit, and is applied at most once   *)
(* per other_trx_code.  WalletStore implements this specification.         *)
(***************************************************************************)
EXTENDS WalletData, FiniteSetsExt

VARIABLES
  open,      \* users with an account row
  account,   \* account rows
  voucher,   \* voucher rows
  trx,       \* rows of the transactions table
  lapsed     \* lapsed[c]: vouchers whose expires_at is past on clock c

vars == <<open, account, voucher, trx, lapsed>>

Init ==
  /\ open = {}
  /\ account = [u \in User |-> Grant(0)]
  /\ voucher = [v \in Voucher |-> NoVoucher]
  /\ trx = {}
  /\ lapsed = [c \in Clock |-> {}]

Journal(rows) == Disjoint(rows, trx) /\ trx' = trx \cup rows

Spend(u, n) ==
  /\ u \in open /\ n <= account[u].avail
  /\ account' = [account EXCEPT ![u].avail = @ - n]

Deposit(r) ==
  /\ open' = open \cup {r.user}
  /\ account' = [account EXCEPT ![r.user] = Grant(r.amount)]
  /\ UNCHANGED <<voucher, trx, lapsed>>

Deduct(r) ==
  /\ Spend(r.user, r.amount)
  /\ Journal({DeductRow(r)})
  /\ UNCHANGED <<open, voucher, lapsed>>

Transfer(r) ==
  /\ r.user # r.to /\ {r.user, r.to} \subseteq open
  /\ r.amount <= account[r.user].avail
  /\ account' = [account EXCEPT ![r.user].avail = @ - r.amount,
                                ![r.to].avail = @ + r.amount]
  /\ Journal(TransferRows(r))
  /\ UNCHANGED <<open, voucher, lapsed>>

Reward(r) ==
  /\ r.user \in open
  /\ account' = [account EXCEPT ![r.user].limit = @ + r.amount,
                                ![r.user].avail = @ + r.amount]
  /\ Journal({RewardRow(r)})
  /\ UNCHANGED <<open, voucher, lapsed>>

Issue(r) ==
  /\ voucher[r.voucher].state = "none"
  /\ Spend(r.user, r.amount)
  /\ voucher' = [voucher EXCEPT ![r.voucher] =
                   [state |-> "issued", user |-> r.user, amount |-> r.amount]]
  /\ Journal({IssueRow(r)})
  /\ UNCHANGED <<open, lapsed>>

Redeem(r) ==
  /\ voucher[r.voucher].state = "issued"
  /\ voucher' = [voucher EXCEPT ![r.voucher].state = "redeemed"]
  /\ Journal({RedeemRow(r, voucher[r.voucher])})
  /\ UNCHANGED <<open, account, lapsed>>

\* What the batch D gives back to user u.
Refund(D, u) ==
  MapThenSumSet(LAMBDA v : voucher[v].amount, {v \in D : voucher[v].user = u})

Expire(D) ==
  /\ D # {} /\ D \subseteq lapsed["postgres"]
  /\ \A v \in D : voucher[v].state = "issued"
  /\ voucher' = [v \in Voucher |->
       IF v \in D THEN [voucher[v] EXCEPT !.state = "expired"] ELSE voucher[v]]
  /\ account' = [u \in User |->
       [account[u] EXCEPT !.avail = @ + Refund(D, u)]]
  /\ Journal({ExpireRow(v, voucher[v]) : v \in D})
  /\ UNCHANGED <<open, lapsed>>

Lapse(c, v) ==
  /\ voucher[v].state = "issued"
  /\ lapsed' = [lapsed EXCEPT ![c] = @ \cup {v}]
  /\ UNCHANGED <<open, account, voucher, trx>>

Apply(r) ==
  \/ r.op = "deposit" /\ Deposit(r)
  \/ r.op = "deduct" /\ Deduct(r)
  \/ r.op = "transfer" /\ Transfer(r)
  \/ r.op = "reward" /\ Reward(r)
  \/ r.op = "issue" /\ Issue(r)
  \/ r.op = "redeem" /\ Redeem(r)
  \/ r.op = "expire" /\ \E D \in SUBSET Voucher : Expire(D)

Next ==
  \/ \E r \in Request : Apply(r)
  \/ \E c \in Clock, v \in Voucher : Lapse(c, v)

Spec == Init /\ [][Next]_vars
=============================================================================
