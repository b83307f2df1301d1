------------------------------ MODULE WalletData ------------------------------
(***************************************************************************)
(* The data the wallet's Postgres store works on: the requests it serves,  *)
(* account and voucher rows, and the rows of the transactions table.       *)
(* Money is kurus (BIGINT); ids are numbers because the store orders its   *)
(* row locks by user_id and scans vouchers in one physical order.          *)
(***************************************************************************)
EXTENDS Integers, Sequences

CONSTANTS
  User,      \* user_id of accounts
  Voucher,   \* ids of vouchers, numbered in the order a table scan meets them
  Name,      \* other_trx_code / ref values the callers choose
  Request    \* the store calls the environment may make, see RequestType

Op == {"deposit", "deduct", "transfer", "reward", "issue", "redeem", "expire"}

\* One record type for every call; an operation ignores the fields it has no
\* parameter for.  The services refuse amounts that are not positive; the
\* amount of a deposit is the L0 of CalculateLimit, zero or more as long as the
\* apy is not negative and the margin at most one, which nothing checks.
RequestType ==
  [op : Op, user : User, to : User, amount : Nat,
   voucher : Voucher, code : Name]

ASSUME DataAssumption ==
  /\ User \subseteq Nat /\ User # {}
  /\ Voucher \subseteq Nat
  /\ Request \subseteq RequestType

(***************************************************************************)
(* Table rows.  An account keeps the two columns money moves through.      *)
(***************************************************************************)
Account == [limit : Int, avail : Int]
Grant(l0) == [limit |-> l0, avail |-> l0]

VoucherState == {"none", "issued", "redeemed", "expired"}
VoucherRow == [state : VoucherState, user : User, amount : Nat]
NoVoucher == [state |-> "none", user |-> CHOOSE u \in User : TRUE, amount |-> 0]

(***************************************************************************)
(* other_trx_code: a text, as a sequence of words.  The words the store's  *)
(* formats add are negative numbers, a voucher's id is its number.  The    *)
(* caller's own code is any text, one the store derives included.          *)
(***************************************************************************)
OutWord == 0 - 1       \* ":out"
InWord == 0 - 2        \* ":in"
IssueWord == 0 - 3     \* "voucher-issue:"
ExpireWord == 0 - 4    \* "voucher-expire:"
Code == Seq(Int)
ASSUME CodeAssumption == Name \subseteq Code

OutCode(ref) == Append(ref, OutWord)
InCode(ref) == Append(ref, InWord)
IssueCode(v) == <<IssueWord, v>>
ExpireCode(v) == <<ExpireWord, v>>

\* "kind" is the operation that wrote the row; the table itself tells a debit from a
\* credit only by the format of the code.
Kind == {"deduct", "out", "in", "reward", "issue", "redeem", "expire"}
TrxRow == [code : Code, user : User, amount : Nat, kind : Kind]

Trx(kind, code, user, amount) ==
  [code |-> code, user |-> user, amount |-> amount, kind |-> kind]

DeductRow(r) == Trx("deduct", r.code, r.user, r.amount)
\* Both rows of a transfer carry the amount; the mutant signs the debit.
SignedTransferRows(r) == {Trx("out", OutCode(r.code), r.user, 0 - r.amount),
                          Trx("in", InCode(r.code), r.to, r.amount)}
TransferRows(r) == {Trx("out", OutCode(r.code), r.user, r.amount),
                    Trx("in", InCode(r.code), r.to, r.amount)}
RewardRow(r) == Trx("reward", r.code, r.user, r.amount)
IssueRow(r) == Trx("issue", IssueCode(r.voucher), r.user, r.amount)
RedeemRow(r, row) == Trx("redeem", r.code, row.user, row.amount)
ExpireRow(v, row) == Trx("expire", ExpireCode(v), row.user, row.amount)

\* UNIQUE(other_trx_code): no row of A carries the code of a row of B.
Disjoint(A, B) == \A x \in A, y \in B : x.code # y.code

\* A voucher's expires_at is compared with two clocks: the wallet process
\* (time.Now) when it redeems, the database (now()) when it expires.
Clock == {"wallet", "postgres"}
=============================================================================
