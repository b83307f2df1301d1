------------------------------ MODULE PaymentFlow ------------------------------
(***************************************************************************)
(* The gateway's money path: each HTTP handler asks the wallet to move     *)
(* money and, once it has, appends an entry to the gateway's ledger; the   *)
(* approval of a merchant's charge also marks the charge paid.  The wallet *)
(* is the abstract store of WalletLedger, which WalletStore implements.    *)
(***************************************************************************)
EXTENDS WalletLedger, Sequences

CONSTANTS
  Charge,    \* ids of merchants' charges; approving one uses its id as the code, and
             \* so may any other request: the id is public
  Price,     \* Price[c]: the total of charge c's cart
  Handler,   \* HTTP requests the gateway serves at a time
  Fault      \* what may go wrong: "call" (a wallet call fails), "restart"

ASSUME FlowAssumption ==
  /\ Charge \subseteq Name
  /\ Price \in [Charge -> Nat \ {0}]
  /\ Fault \subseteq {"call", "restart"}
  /\ IsFiniteSet(Handler)

VARIABLES
  charge,    \* the charge store
  past,      \* charges whose expires_at is past
  chain,     \* the entries of the ledger: code, payer, amount, and whether Moka settled it
  job,       \* job[h]: the wallet call of handler h, or NoJob
  at,        \* at[h]: what h does next
  moka,      \* codes Moka has settled (external)
  recorded   \* codes whose moka_payment_id the wallet has recorded

gateway == <<charge, past, chain, job, at>>
wallet == <<vars, moka, recorded>>
flow == <<gateway, wallet>>

\* "none": not created yet; "lost": forgotten when the gateway restarted.
Status == {"none", "pending", "paid", "canceled", "expired", "lost"}
ChargeRow == [status : Status, customer : SUBSET User]
NoCharge == [status |-> "none", customer |-> {}]
NoJob == [op |-> "none"]
Entry == [code : Name, user : User, amount : Nat, moka_ref : BOOLEAN]

FlowInit ==
  /\ Init
  /\ charge = [c \in Charge |-> NoCharge]
  /\ past = {}
  /\ chain = <<>>
  /\ job = [h \in Handler |-> NoJob]
  /\ at = [h \in Handler |-> "idle"]
  /\ moka = {} /\ recorded = {}

(***************************************************************************)
(* The charge store; each operation runs under its mutex.                  *)
(***************************************************************************)
\* expireLocked: a pending charge past its TTL turns out expired when looked at.
Stale(c) == charge[c].status = "pending" /\ c \in past
Seen(c) == IF Stale(c) THEN [charge EXCEPT ![c].status = "expired"] ELSE charge

Create(c) ==
  /\ charge[c].status = "none"
  /\ charge' = [charge EXCEPT ![c].status = "pending"]
  /\ UNCHANGED <<past, chain, job, at, wallet>>

PassTTL(c) ==
  /\ charge[c].status = "pending" /\ c \notin past
  /\ past' = past \cup {c}
  /\ UNCHANGED <<charge, chain, job, at, wallet>>

\* A poll.
Get(c) ==
  /\ charge' = Seen(c)
  /\ UNCHANGED <<past, chain, job, at, wallet>>

\* The list of a merchant, whose charges are C, looks at each of them.
ChargesForMerchant(C) ==
  /\ charge' = [c \in Charge |-> IF c \in C THEN Seen(c)[c] ELSE charge[c]]
  /\ UNCHANGED <<past, chain, job, at, wallet>>

Cancel(c) ==
  /\ charge[c].status = "pending"
  /\ charge' = [charge EXCEPT ![c].status = "canceled"]
  /\ UNCHANGED <<past, chain, job, at, wallet>>

(***************************************************************************)
(* Handlers.                                                               *)
(***************************************************************************)
Start(h, call) ==
  /\ job' = [job EXCEPT ![h] = call]
  /\ at' = [at EXCEPT ![h] = "wallet"]

Answer(h) ==
  /\ job' = [job EXCEPT ![h] = NoJob]
  /\ at' = [at EXCEPT ![h] = "idle"]

\* What chargeApprove asks of settle: the id of the charge is the code.
ApproveCall(c, u) == [op |-> "deduct", user |-> u, amount |-> Price[c], code |-> c]

\* The charge store's BeginApprove refuses a charge that is not pending, and reserves
\* nothing.
Approvable(c) == Seen(c)[c].status = "pending"

BeginApprove(h, c, u) ==
  /\ at[h] = "idle" /\ charge[c].status \notin {"none", "lost"}
  /\ charge' = Seen(c)
  /\ \/ Approvable(c) /\ Start(h, ApproveCall(c, u))
     \/ ~Approvable(c) /\ UNCHANGED <<job, at>>
  /\ UNCHANGED <<past, chain, wallet>>

Begin(h, r) ==
  /\ at[h] = "idle"
  /\ Start(h, r)
  /\ UNCHANGED <<charge, past, chain, wallet>>

PostPay(h, r) == r.op = "deduct" /\ Begin(h, r)
PostTransfer(h, r) == r.op = "transfer" /\ Begin(h, r)
PostVoucherRedeem(h, r) == r.op = "redeem" /\ Begin(h, r)

IsApproval(h) == \E c \in Charge, u \in User : job[h] = ApproveCall(c, u)

\* A debit goes on to Moka, outside the transaction; the mutant records the
\* payment without settling it.
SkipMoka(r) == IF r.op = "deduct" THEN "record" ELSE "append"
AfterCommit(r) == IF r.op = "deduct" THEN "settle" ELSE "append"

\* The wallet applies the call.
Move(h) ==
  /\ at[h] = "wallet"
  /\ Apply(job[h])
  /\ at' = [at EXCEPT ![h] = AfterCommit(job[h])]
  /\ UNCHANGED <<charge, past, chain, job, moka, recorded>>

\* The wallet declines or refuses: no account, not enough credit, a code or ref
\* already used, a voucher that is not open any more.
CannotSpend(r) == r.user \notin open \/ r.amount > account[r.user].avail

DebitRefused(r) == CannotSpend(r) \/ ~Disjoint({DeductRow(r)}, trx)

TransferRefused(r) ==
  r.user = r.to \/ r.to \notin open \/ CannotSpend(r) \/ ~Disjoint(TransferRows(r), trx)

RedeemRefused(r) ==
  \/ voucher[r.voucher].state # "issued" \/ r.voucher \in lapsed["wallet"]
  \/ ~Disjoint({RedeemRow(r, voucher[r.voucher])}, trx)

Refusable(r) ==
  \/ r.op = "deduct" /\ DebitRefused(r)
  \/ r.op = "transfer" /\ TransferRefused(r)
  \/ r.op = "redeem" /\ RedeemRefused(r)

\* The mutant takes a refusal for an approval given earlier.
RefuseAsApproved(h) ==
  /\ at[h] = "wallet" /\ Refusable(job[h])
  /\ at' = [at EXCEPT ![h] = "append"]
  /\ UNCHANGED <<charge, past, chain, job, wallet>>

Refuse(h) ==
  /\ at[h] = "wallet" /\ Refusable(job[h])
  /\ Answer(h)
  /\ UNCHANGED <<charge, past, chain, wallet>>

\* moka.Settle; the mock always succeeds.
MokaSettle(h) ==
  /\ at[h] = "settle"
  /\ moka' = moka \cup {job[h].code}
  /\ at' = [at EXCEPT ![h] = "record"]
  /\ UNCHANGED <<charge, past, chain, job, vars, recorded>>

SetMokaPaymentID(h) ==
  /\ at[h] = "record"
  /\ recorded' = recorded \cup {job[h].code}
  /\ at' = [at EXCEPT ![h] = "append"]
  /\ UNCHANGED <<charge, past, chain, job, vars, moka>>

\* The call ends in an error wherever it is: the customer went away and cancelled
\* its context, the connection broke, the wallet crashed.
CallFails(h) ==
  /\ "call" \in Fault /\ at[h] \in {"wallet", "settle", "record", "append"}
  /\ Answer(h)
  /\ UNCHANGED <<charge, past, chain, wallet>>

\* The entry a call leaves in the ledger; a redemption's comes from the answer; the
\* mutant's from the request.
EntryOfRequest(r) ==
  [code |-> r.code, user |-> r.user, amount |-> r.amount, moka_ref |-> r.op = "deduct"]
RedemptionEntry(r, v) ==
  [code |-> r.code, user |-> v.user, amount |-> v.amount, moka_ref |-> FALSE]
EntryOf(r) ==
  IF r.op = "redeem" THEN RedemptionEntry(r, voucher[r.voucher])
  ELSE [code |-> r.code, user |-> r.user, amount |-> r.amount, moka_ref |-> r.op = "deduct"]

\* The chain with one more entry; the mutant's keeps one entry per code.
AppendNew(e) ==
  IF \E i \in DOMAIN chain : chain[i].code = e.code THEN chain ELSE Append(chain, e)
AppendEntry(e) == Append(chain, e)

AppendPayment(h) ==
  /\ at[h] = "append"
  /\ chain' = AppendEntry(EntryOf(job[h]))
  /\ \/ IsApproval(h) /\ at' = [at EXCEPT ![h] = "mark"] /\ UNCHANGED job
     \/ ~IsApproval(h) /\ Answer(h)
  /\ UNCHANGED <<charge, past, wallet>>

\* A pending charge can be finalized, whether or not its TTL is past; the mutant
\* minds the TTL.
InTime(c) == charge[c].status = "pending" /\ c \notin past
Payable(c) == charge[c].status = "pending"

MarkPaid(h) ==
  LET c == job[h].code
  IN  /\ at[h] = "mark"
      /\ \/ /\ Payable(c)
            /\ charge' = [charge EXCEPT ![c] = [status |-> "paid", customer |-> {job[h].user}]]
         \/ ~Payable(c) /\ UNCHANGED charge
      /\ Answer(h)
      /\ UNCHANGED <<past, chain, wallet>>

\* The gateway keeps charges and ledger in memory; the wallet completes or loses
\* the calls under way as it does when a call fails.
Restart ==
  /\ "restart" \in Fault
  /\ charge' = [c \in Charge |->
       IF charge[c].status = "none" THEN NoCharge ELSE [status |-> "lost", customer |-> {}]]
  /\ past' = {}
  /\ chain' = <<>>
  /\ job' = [h \in Handler |-> NoJob]
  /\ at' = [h \in Handler |-> "idle"]
  /\ UNCHANGED wallet

Handle(h) ==
  \/ Move(h) \/ Refuse(h) \/ MokaSettle(h) \/ SetMokaPaymentID(h)
  \/ AppendPayment(h) \/ MarkPaid(h)

(***************************************************************************)
(* Endpoints that append nothing to the ledger: the wallet's one store call*)
(* is all they do.  The wallet's services refuse amounts that are not      *)
(* positive; a limit of zero is granted.                                   *)
(***************************************************************************)
CalculateLimit(r) == r.op = "deposit" /\ Deposit(r)
CreditNodeReward(r) == r.op = "reward" /\ r.amount > 0 /\ Reward(r)
IssueVoucher(r) == r.op = "issue" /\ r.amount > 0 /\ Issue(r)

Elsewhere == UNCHANGED <<gateway, moka, recorded>>

PostDeposit(r) == CalculateLimit(r) /\ Elsewhere
PostNodeReward(r) == CreditNodeReward(r) /\ Elsewhere
PostVoucherIssue(r) == IssueVoucher(r) /\ Elsewhere
PostVoucherExpire == (\E D \in SUBSET Voucher : Expire(D)) /\ Elsewhere
VoucherLapses == (\E c \in Clock, v \in Voucher : Lapse(c, v)) /\ Elsewhere

OtherCalls ==
  \/ \E r \in Request : PostDeposit(r) \/ PostNodeReward(r) \/ PostVoucherIssue(r)
  \/ PostVoucherExpire \/ VoucherLapses

\* The merchant's endpoints, one operation of the charge store each.
MerchantCalls ==
  \/ \E c \in Charge : Create(c) \/ Get(c) \/ Cancel(c)
  \/ \E C \in SUBSET Charge : ChargesForMerchant(C)

FlowNext ==
  \/ MerchantCalls
  \/ \E c \in Charge : PassTTL(c)
  \/ \E h \in Handler, c \in Charge, u \in User : BeginApprove(h, c, u)
  \/ \E h \in Handler, r \in Request :
       PostPay(h, r) \/ PostTransfer(h, r) \/ PostVoucherRedeem(h, r)
  \/ \E h \in Handler : Handle(h) \/ CallFails(h)
  \/ OtherCalls
  \/ Restart

FlowSpec == FlowInit /\ [][FlowNext]_flow

\* Every request runs in a goroutine of its own, and the wallet answers.
FairFlowSpec == FlowSpec /\ \A h \in Handler : WF_flow(Handle(h))

(***************************************************************************)
(* Properties.                                                             *)
(***************************************************************************)
\* The type invariant of the gateway's payment state; the wallet records payment
\* ids of codes that Moka settled only.
FlowTypeOK ==
  /\ charge \in [Charge -> ChargeRow]
  /\ past \subseteq Charge
  /\ chain \in Seq(Entry)
  /\ \A h \in Handler :
       \/ at[h] = "idle" /\ job[h] = NoJob
       \/ /\ at[h] \in {"wallet", "settle", "record", "append", "mark"}
          /\ \/ job[h] \in Request
             \/ \E c \in Charge, u \in User : job[h] = ApproveCall(c, u)
  /\ moka \subseteq Name /\ recorded \subseteq moka

\* chargeApprove: a charge is shown as paid by a customer only if that customer
\* was debited its price under its id, Moka's id is recorded, and the ledger holds
\* that customer's entry and no other payment with the id; whoever else approves it,
\* pays, transfers or redeems under its id at the same time.
PaidMeansDebited ==
  \A c \in Charge : charge[c].status = "paid" =>
    \E u \in charge[c].customer :
      /\ DeductRow(ApproveCall(c, u)) \in trx
      /\ c \in recorded
      /\ \E i \in DOMAIN chain :
           /\ chain[i] = EntryOf(ApproveCall(c, u))
           /\ \A j \in DOMAIN chain : chain[j].code = c /\ chain[j].moka_ref => j = i

\* What left an account (or a voucher), as the ledger records it, and how often it
\* was spent, logged, and spent by a handler that has still to log it.
CallersCode(x) == IF x.kind = "out" THEN SubSeq(x.code, 1, Len(x.code) - 1) ELSE x.code
RowEntry(x) == [code |-> CallersCode(x), user |-> x.user, amount |-> x.amount,
                moka_ref |-> x.kind = "deduct"]
Spending == {x \in trx : x.kind \in {"deduct", "out", "redeem"}}
Entries == {RowEntry(x) : x \in Spending} \cup {chain[i] : i \in DOMAIN chain}
Spent(e) == Cardinality({x \in Spending : RowEntry(x) = e})
Logged(e) == Cardinality({i \in DOMAIN chain : chain[i] = e})
Unlogged(e) == Cardinality({h \in Handler :
  at[h] \in {"settle", "record", "append"} /\ EntryOf(job[h]) = e})

\* settle, transfer, voucherRedeem: without failures every payment, transfer and
\* redemption is logged exactly once, with the payer and amount the wallet booked.
LedgerComplete == \A e \in Entries : Logged(e) + Unlogged(e) = Spent(e)

\* The ledger records no spending that did not happen and none twice, whatever
\* calls fail and however often the gateway restarts.
LedgerOnlyOfSpending == \A e \in Entries : Logged(e) + Unlogged(e) <= Spent(e)

\* An approval for which the wallet has committed the debit, and which is not over.
DebitedFor(c) == \E h \in Handler :
  IsApproval(h) /\ job[h].code = c /\ at[h] \in {"settle", "record", "append", "mark"}

\* A charge whose approval debited a customer does not stay pending, whatever else
\* uses its id: it ends up paid, or was canceled or expired meanwhile.
ChargeSettles == \A c \in Charge : DebitedFor(c) ~> charge[c].status # "pending"

\* ADR-0014: approving an expired or canceled charge is rejected, so nobody is
\* debited by an approval of one.
RejectedNotDebited ==
  \A c \in Charge : charge[c].status \in {"canceled", "expired"} => ~DebitedFor(c)
=============================================================================
