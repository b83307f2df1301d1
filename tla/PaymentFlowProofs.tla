--------------------------- MODULE PaymentFlowProofs ---------------------------
(***************************************************************************)
(* For any customers, charges, codes and concurrent handlers: a charge is  *)
(* shown as paid only after its debit, and the ledger records no spending  *)
(* twice and none that did not happen.                                     *)
(***************************************************************************)
EXTENDS PaymentFlow, FiniteSetTheorems, TLAPS

(***************************************************************************)
(* The inductive invariant.  Its parts name the state they read, so that   *)
(* they are the same predicates before and after a step.                   *)
(***************************************************************************)
Calls == {r \in Request : r.op \in {"deduct", "transfer", "redeem"}}
Approvals == {ApproveCall(c, u) : c \in Charge, u \in User}

\* Where a handler is after the wallet has committed, and before it has logged that.
Owing == {"settle", "record", "append"}
Moved == Owing \cup {"mark"}

\* The ledger's only payment with the code of r is the one r leaves; transfers and
\* redemptions may have used the code as well.
PaysUnder(e, code) == e.code = code /\ e.moka_ref

LoggedOnce(entries, r) ==
  \E i \in DOMAIN entries :
    /\ entries[i] = EntryOfRequest(r)
    /\ \A j \in DOMAIN entries : PaysUnder(entries[j], r.code) => j = i

NotLogged(entries, r) == \A i \in DOMAIN entries : ~PaysUnder(entries[i], r.code)

\* What the position of a handler says about its call: a debit's row, Moka's id and
\* its record come in this order, an approval's entry last.
Place(a, r) ==
  /\ a \in {"idle", "wallet"} \cup Moved
  /\ r \in IF a = "idle" THEN {NoJob} ELSE Calls \cup Approvals
  /\ a \in {"settle", "record"} => r.op = "deduct"
  /\ a = "mark" => r \in Approvals

Settled(a, r, settled, noted) ==
  r.op = "deduct" =>
    /\ a \in {"record", "append", "mark"} => r.code \in settled
    /\ a \in {"append", "mark"} => r.code \in noted

Approved(a, r, rows, entries) ==
  r.op = "deduct" =>
    /\ a \in Moved => DeductRow(r) \in rows
    /\ a \in Owing => NotLogged(entries, r)
    /\ a = "mark" => LoggedOnce(entries, r)

Redeemed(a, r, vouchers) ==
  a = "append" /\ r.op = "redeem" => vouchers[r.voucher].state = "redeemed"

\* One debit per code: whoever else pays under it, or approves the charge whose id it
\* is, has been refused or will be.
OneDebit(ats, jobs) ==
  \A g, h \in Handler :
    /\ ats[g] \in Moved /\ jobs[g].op = "deduct"
    /\ ats[h] \in Moved /\ jobs[h].op = "deduct"
    /\ jobs[g].code = jobs[h].code
    => g = h

\* A payment in the ledger has a row with its code.
PaymentsBooked(entries, rows) ==
  \A i \in DOMAIN entries : entries[i].moka_ref =>
    \E x \in rows : x.code = entries[i].code

PaidBy(row, c, rows, noted, entries) ==
  row.status = "paid" =>
    \E u \in row.customer :
      /\ u \in User
      /\ DeductRow(ApproveCall(c, u)) \in rows
      /\ c \in noted
      /\ LoggedOnce(entries, ApproveCall(c, u))

FlowInv ==
  /\ charge \in [Charge -> ChargeRow] /\ past \subseteq Charge
  /\ chain \in Seq(Entry)
  /\ job \in [Handler -> Calls \cup Approvals \cup {NoJob}]
  /\ at \in [Handler -> {"idle", "wallet"} \cup Moved]
  /\ moka \subseteq Name /\ recorded \subseteq moka
  /\ voucher \in [Voucher -> VoucherRow] /\ IsFiniteSet(Spending)
  /\ \A h \in Handler :
       /\ Place(at[h], job[h])
       /\ Settled(at[h], job[h], moka, recorded)
       /\ Approved(at[h], job[h], trx, chain)
       /\ Redeemed(at[h], job[h], voucher)
  /\ OneDebit(at, job)
  /\ PaymentsBooked(chain, trx)
  /\ \A c \in Charge : PaidBy(charge[c], c, trx, recorded, chain)

(***************************************************************************)
(* What calls and rows look like.                                          *)
(***************************************************************************)
LEMMA CallFields ==
  ASSUME NEW r \in Calls \cup Approvals
  PROVE  /\ r.op \in {"deduct", "transfer", "redeem"}
         /\ r.user \in User /\ r.amount \in Nat /\ r.code \in Name
         /\ r \in Approvals => r.op = "deduct" /\ r.code \in Charge
         /\ r # NoJob
         /\ r \notin Approvals => r \in Request
<1>1. CASE r \in Calls
  <2>1. r \in Request /\ r \in RequestType
    BY <1>1, DataAssumption DEF Calls
  <2>2. r.op \in {"deduct", "transfer", "redeem"}
    BY <1>1 DEF Calls
  <2>3. r.user \in User /\ r.amount \in Nat /\ r.code \in Name
    BY <2>1 DEF RequestType
  <2>4. r \in Approvals => r.op = "deduct" /\ r.code \in Charge
    BY DEF Approvals, ApproveCall
  <2>5. r # NoJob
    <3>1. NoJob.op = "none"
      BY DEF NoJob
    <3> QED
      BY <3>1, <2>2
  <2> QED
    BY <2>1, <2>2, <2>3, <2>4, <2>5
<1>2. CASE r \in Approvals
  <2>1. PICK c \in Charge : \E u \in User : r = ApproveCall(c, u)
    BY <1>2 DEF Approvals
  <2>2. PICK u \in User : r = ApproveCall(c, u)
    BY <2>1
  <2>3. r.op = "deduct" /\ r.user = u /\ r.amount = Price[c] /\ r.code = c
    BY <2>2 DEF ApproveCall
  <2>4. Price[c] \in Nat /\ c \in Name
    BY FlowAssumption
  <2>5. r # NoJob
    <3>1. NoJob.op = "none"
      BY DEF NoJob
    <3> QED
      BY <3>1, <2>3
  <2> QED
    BY <1>2, <2>3, <2>4, <2>5
<1> QED
  BY <1>1, <1>2

LEMMA ApprovalOf ==
  ASSUME NEW r \in Approvals
  PROVE  /\ r.code \in Charge /\ r.user \in User /\ r.op = "deduct"
         /\ r = ApproveCall(r.code, r.user)
  BY DEF Approvals, ApproveCall

\* What chargeApprove asks for.
LEMMA CallOfJob ==
  ASSUME NEW h \in Handler
  PROVE  IsApproval(h) <=> job[h] \in Approvals
  BY DEF IsApproval, Approvals

LEMMA EntryFields ==
  ASSUME NEW r \in Calls \cup Approvals
  PROVE  /\ EntryOfRequest(r) \in Entry
         /\ EntryOfRequest(r).code = r.code
         /\ EntryOfRequest(r).moka_ref = (r.op = "deduct")
  BY CallFields DEF EntryOfRequest, Entry

LEMMA EntryOfCall ==
  ASSUME FlowInv, NEW r \in Calls \cup Approvals
  PROVE  /\ EntryOf(r) \in Entry /\ EntryOf(r).code = r.code
         /\ EntryOf(r).moka_ref => r.op = "deduct"
         /\ r.op # "redeem" => EntryOf(r) = EntryOfRequest(r)
<1>1. CASE r.op # "redeem"
  BY <1>1, EntryFields DEF EntryOf, EntryOfRequest
<1>2. CASE r.op = "redeem"
  <2>1. r \in RequestType
    BY <1>2, CallFields, DataAssumption
  <2>2. r.voucher \in Voucher /\ r.code \in Name
    BY <2>1 DEF RequestType
  <2>3. voucher[r.voucher] \in VoucherRow
    BY <2>2 DEF FlowInv
  <2>4. voucher[r.voucher].user \in User /\ voucher[r.voucher].amount \in Nat
    BY <2>3 DEF VoucherRow
  <2> QED
    BY <1>2, <2>2, <2>4 DEF EntryOf, RedemptionEntry, Entry
<1> QED
  BY <1>1, <1>2

LEMMA RowCodes ==
  ASSUME NEW r
  PROVE  /\ DeductRow(r).code = r.code /\ DeductRow(r).kind = "deduct"
         /\ \A row : RedeemRow(r, row).code = r.code
         /\ \A row : RedeemRow(r, row).kind = "redeem"
  BY DEF DeductRow, RedeemRow, Trx

(***************************************************************************)
(* What a handler's position says survives the steps of others that add    *)
(* rows and Moka's ids and redeem vouchers.                                *)
(***************************************************************************)
LEMMA HandlerKeeps ==
  ASSUME NEW a, NEW r, NEW rows, NEW rows2, rows \subseteq rows2, NEW entries,
         NEW settled, NEW settled2, settled \subseteq settled2,
         NEW noted, NEW noted2, noted \subseteq noted2,
         Settled(a, r, settled, noted), Approved(a, r, rows, entries)
  PROVE  Settled(a, r, settled2, noted2) /\ Approved(a, r, rows2, entries)
  BY DEF Settled, Approved

LEMMA PaidKeeps ==
  ASSUME NEW row, NEW c, NEW entries, NEW rows, NEW rows2, rows \subseteq rows2,
         NEW noted, NEW noted2, noted \subseteq noted2,
         PaidBy(row, c, rows, noted, entries)
  PROVE  PaidBy(row, c, rows2, noted2, entries)
  BY DEF PaidBy

LEMMA IdleHandler ==
  ASSUME NEW a \in {"idle", "wallet"}, NEW r, NEW rows, NEW entries, NEW settled,
         NEW noted, NEW vouchers,
         r \in IF a = "idle" THEN {NoJob} ELSE Calls \cup Approvals
  PROVE  /\ Place(a, r) /\ Settled(a, r, settled, noted)
         /\ Approved(a, r, rows, entries) /\ Redeemed(a, r, vouchers)
  BY DEF Place, Settled, Approved, Redeemed, Moved, Owing

(***************************************************************************)
(* The gateway's steps, then the wallet's.                                 *)
(***************************************************************************)
LEMMA InitFlow == FlowInit => FlowInv
<1> SUFFICES ASSUME FlowInit PROVE FlowInv
  OBVIOUS
<1>1. /\ charge \in [Charge -> ChargeRow] /\ past \subseteq Charge
      /\ \A c \in Charge : charge[c].status # "paid"
  BY DEF FlowInit, NoCharge, ChargeRow, Status
<1>2. chain \in Seq(Entry) /\ chain = <<>> /\ DOMAIN chain = {}
  BY DEF FlowInit
<1>3. /\ job \in [Handler -> Calls \cup Approvals \cup {NoJob}]
      /\ at \in [Handler -> {"idle", "wallet"} \cup Moved]
      /\ \A h \in Handler : at[h] = "idle" /\ job[h] = NoJob
  BY DEF FlowInit
<1>4. \A h \in Handler :
        /\ Place(at[h], job[h]) /\ Settled(at[h], job[h], moka, recorded)
        /\ Approved(at[h], job[h], trx, chain) /\ Redeemed(at[h], job[h], voucher)
  <2> SUFFICES ASSUME NEW h \in Handler
               PROVE  /\ Place(at[h], job[h]) /\ Settled(at[h], job[h], moka, recorded)
                      /\ Approved(at[h], job[h], trx, chain)
                      /\ Redeemed(at[h], job[h], voucher)
    OBVIOUS
  <2> QED
    BY <1>3, IdleHandler
<1>5. moka \subseteq Name /\ recorded \subseteq moka
  BY DEF FlowInit
<1>6. voucher \in [Voucher -> VoucherRow]
  <2>1. NoVoucher \in VoucherRow
    BY DataAssumption DEF NoVoucher, VoucherRow, VoucherState
  <2> QED
    BY <2>1 DEF FlowInit, Init
<1>7. IsFiniteSet(Spending)
  <2>1. Spending = {}
    BY DEF FlowInit, Init, Spending
  <2> QED
    BY <2>1, FS_EmptySet
<1>8. OneDebit(at, job)
  BY <1>3 DEF OneDebit, Moved, Owing
<1>9. PaymentsBooked(chain, trx)
  BY <1>2 DEF PaymentsBooked
<1>10. \A c \in Charge : PaidBy(charge[c], c, trx, recorded, chain)
  BY <1>1 DEF PaidBy
<1> QED
  BY <1>1, <1>2, <1>3, <1>4, <1>5, <1>6, <1>7, <1>8, <1>9, <1>10 DEF FlowInv

\* Charges move on without being paid: TTLs, polls, cancellations.
LEMMA ChargesMove ==
  ASSUME FlowInv, charge' \in [Charge -> ChargeRow], past' \subseteq Charge,
         \A c \in Charge : charge'[c].status = "paid" => charge'[c] = charge[c],
         UNCHANGED <<chain, job, at, wallet>>
  PROVE  FlowInv'
<1>1. UNCHANGED <<voucher, trx, moka, recorded, chain, job, at>> /\ Spending' = Spending
  BY DEF wallet, vars, Spending
<1>2. \A c \in Charge : PaidBy(charge'[c], c, trx, recorded, chain)
  <2> SUFFICES ASSUME NEW c \in Charge PROVE PaidBy(charge'[c], c, trx, recorded, chain)
    OBVIOUS
  <2>1. PaidBy(charge[c], c, trx, recorded, chain)
    BY DEF FlowInv
  <2>2. CASE charge'[c].status = "paid"
    BY <2>1, <2>2
  <2>3. CASE charge'[c].status # "paid"
    BY <2>3 DEF PaidBy
  <2> QED
    BY <2>2, <2>3
<1> QED
  BY <1>1, <1>2 DEF FlowInv

LEMMA SeenType ==
  ASSUME charge \in [Charge -> ChargeRow], NEW c \in Charge
  PROVE  /\ Seen(c) \in [Charge -> ChargeRow]
         /\ \A d \in Charge : Seen(c)[d].status = "paid" => Seen(c)[d] = charge[d]
<1>1. CASE ~Stale(c)
  BY <1>1 DEF Seen
<1>2. CASE Stale(c)
  <2>1. Seen(c) = [charge EXCEPT ![c].status = "expired"]
    BY <1>2 DEF Seen
  <2>2. charge[c] \in ChargeRow
    OBVIOUS
  <2>3. [charge[c] EXCEPT !.status = "expired"] \in ChargeRow
    BY <2>2 DEF ChargeRow, Status
  <2>4. [charge[c] EXCEPT !.status = "expired"].status = "expired"
    BY <2>2 DEF ChargeRow
  <2> QED
    BY <2>1, <2>3, <2>4
<1> QED
  BY <1>1, <1>2

LEMMA StatusType ==
  ASSUME charge \in [Charge -> ChargeRow], NEW c \in Charge, NEW s \in Status, s # "paid"
  PROVE  /\ [charge EXCEPT ![c].status = s] \in [Charge -> ChargeRow]
         /\ \A d \in Charge : [charge EXCEPT ![c].status = s][d].status = "paid" =>
              [charge EXCEPT ![c].status = s][d] = charge[d]
<1>1. charge[c] \in ChargeRow
  OBVIOUS
<1>2. [charge[c] EXCEPT !.status = s] \in ChargeRow
  BY <1>1 DEF ChargeRow
<1>3. [charge[c] EXCEPT !.status = s].status = s
  BY <1>1 DEF ChargeRow
<1> QED
  BY <1>2, <1>3

LEMMA MerchantStep ==
  ASSUME FlowInv, MerchantCalls \/ \E c \in Charge : PassTTL(c)
  PROVE  FlowInv'
<1>0. charge \in [Charge -> ChargeRow] /\ past \subseteq Charge
  BY DEF FlowInv
<1>1. ASSUME NEW c \in Charge, Create(c) PROVE FlowInv'
  <2>1. charge' = [charge EXCEPT ![c].status = "pending"] /\ past' = past
    BY <1>1 DEF Create
  <2>2. UNCHANGED <<chain, job, at, wallet>>
    BY <1>1 DEF Create
  <2>3. "pending" \in Status
    BY DEF Status
  <2>4. /\ charge' \in [Charge -> ChargeRow]
        /\ \A d \in Charge : charge'[d].status = "paid" => charge'[d] = charge[d]
    BY <1>0, <2>1, <2>3, StatusType
  <2> QED
    BY <1>0, <2>1, <2>2, <2>4, ChargesMove
<1>2. ASSUME NEW c \in Charge, Get(c) PROVE FlowInv'
  <2>1. charge' = Seen(c) /\ past' = past
    BY <1>2 DEF Get
  <2>2. UNCHANGED <<chain, job, at, wallet>>
    BY <1>2 DEF Get
  <2> QED
    BY <1>0, <2>1, <2>2, SeenType, ChargesMove
<1>3. ASSUME NEW c \in Charge, Cancel(c) PROVE FlowInv'
  <2>1. charge' = [charge EXCEPT ![c].status = "canceled"] /\ past' = past
    BY <1>3 DEF Cancel
  <2>2. UNCHANGED <<chain, job, at, wallet>>
    BY <1>3 DEF Cancel
  <2>3. "canceled" \in Status
    BY DEF Status
  <2>4. /\ charge' \in [Charge -> ChargeRow]
        /\ \A d \in Charge : charge'[d].status = "paid" => charge'[d] = charge[d]
    BY <1>0, <2>1, <2>3, StatusType
  <2> QED
    BY <1>0, <2>1, <2>2, <2>4, ChargesMove
<1>4. ASSUME NEW C \in SUBSET Charge, ChargesForMerchant(C) PROVE FlowInv'
  <2>1. charge' = [c \in Charge |-> IF c \in C THEN Seen(c)[c] ELSE charge[c]]
    BY <1>4 DEF ChargesForMerchant
  <2>2. UNCHANGED <<chain, job, at, wallet>> /\ past' = past
    BY <1>4 DEF ChargesForMerchant
  <2>3. \A c \in Charge : Seen(c)[c] \in ChargeRow
    BY <1>0, SeenType
  <2>4. \A c \in Charge : Seen(c)[c].status = "paid" => Seen(c)[c] = charge[c]
    BY <1>0, SeenType
  <2>5. /\ charge' \in [Charge -> ChargeRow]
        /\ \A d \in Charge : charge'[d].status = "paid" => charge'[d] = charge[d]
    BY <1>0, <2>1, <2>3, <2>4
  <2> QED
    BY <1>0, <2>2, <2>5, ChargesMove
<1>5. ASSUME NEW c \in Charge, PassTTL(c) PROVE FlowInv'
  <2>1. charge' = charge /\ past' = past \cup {c} /\ UNCHANGED <<chain, job, at, wallet>>
    BY <1>5 DEF PassTTL
  <2> QED
    BY <1>0, <2>1, ChargesMove
<1> QED
  BY <1>1, <1>2, <1>3, <1>4, <1>5 DEF MerchantCalls

\* A handler takes a request or answers one: what is true of the others stays true.
LEMMA HandlerTurns ==
  ASSUME FlowInv, NEW h \in Handler, NEW a \in {"idle", "wallet"},
         NEW r \in IF a = "idle" THEN {NoJob} ELSE Calls \cup Approvals,
         at' = [at EXCEPT ![h] = a], job' = [job EXCEPT ![h] = r],
         charge' \in [Charge -> ChargeRow], UNCHANGED <<past, chain, wallet>>,
         \A c \in Charge : PaidBy(charge'[c], c, trx, recorded, chain)
  PROVE  FlowInv'
<1>1. UNCHANGED <<voucher, trx, moka, recorded, chain, past>> /\ Spending' = Spending
  BY DEF wallet, vars, Spending
<1>2. /\ job \in [Handler -> Calls \cup Approvals \cup {NoJob}]
      /\ at \in [Handler -> {"idle", "wallet"} \cup Moved]
  BY DEF FlowInv
<1>3. /\ job' \in [Handler -> Calls \cup Approvals \cup {NoJob}]
      /\ at' \in [Handler -> {"idle", "wallet"} \cup Moved]
      /\ \A g \in Handler : g # h => at'[g] = at[g] /\ job'[g] = job[g]
      /\ at'[h] = a /\ job'[h] = r
  BY <1>2
<1>4. ASSUME NEW g \in Handler
      PROVE  /\ Place(at'[g], job'[g]) /\ Settled(at'[g], job'[g], moka, recorded)
             /\ Approved(at'[g], job'[g], trx, chain) /\ Redeemed(at'[g], job'[g], voucher)
  <2>1. CASE g = h
    BY <1>3, <2>1, IdleHandler
  <2>2. CASE g # h
    BY <1>3, <2>2 DEF FlowInv
  <2> QED
    BY <2>1, <2>2
<1>5. OneDebit(at', job')
  <2>1. OneDebit(at, job)
    BY DEF FlowInv
  <2>2. a \notin Moved
    BY DEF Moved, Owing
  <2> QED
    BY <1>3, <2>1, <2>2 DEF OneDebit
<1> QED
  BY <1>1, <1>3, <1>4, <1>5 DEF FlowInv

LEMMA AnswerKeeps ==
  ASSUME FlowInv, NEW h \in Handler, Answer(h), UNCHANGED <<charge, past, chain, wallet>>
  PROVE  FlowInv'
<1>1. at' = [at EXCEPT ![h] = "idle"] /\ job' = [job EXCEPT ![h] = NoJob]
  BY DEF Answer
<1>2. /\ charge' \in [Charge -> ChargeRow]
      /\ \A c \in Charge : PaidBy(charge'[c], c, trx, recorded, chain)
  BY DEF FlowInv
<1> QED
  BY <1>1, <1>2, HandlerTurns

\* What any call of the wallet leaves alone.
WalletKeeps ==
  /\ trx \subseteq trx'
  /\ voucher' \in [Voucher -> VoucherRow]
  /\ \A v \in Voucher : voucher[v].state = "redeemed" => voucher'[v] = voucher[v]

\* What leaves an account or a voucher by call r, as the transactions table has it.
Spends(r, x) ==
  /\ x \notin trx /\ x \in trx' /\ Spending' = Spending \cup {x}
  /\ \A y \in trx : y.code # x.code
  /\ RowEntry(x) = EntryOf(r)'

LEMMA JournalAdds ==
  ASSUME NEW rows, Journal(rows)
  PROVE  /\ trx \subseteq trx' /\ rows \subseteq trx'
         /\ Spending' = Spending \cup {x \in rows : x.kind \in {"deduct", "out", "redeem"}}
         /\ \A x \in rows : x \notin trx /\ \A y \in trx : y.code # x.code
  BY DEF Journal, Disjoint, Spending

LEMMA DeductApplied ==
  ASSUME FlowInv, NEW r \in Calls \cup Approvals, r.op = "deduct", Deduct(r)
  PROVE  WalletKeeps /\ Spends(r, DeductRow(r)) /\ DeductRow(r) \in trx'
<1> DEFINE x == DeductRow(r)
<1>1. Journal({x}) /\ voucher' = voucher
  BY DEF Deduct
<1>2. x.kind = "deduct"
  BY RowCodes
<1>3. RowEntry(x) = [code |-> r.code, user |-> r.user, amount |-> r.amount,
                     moka_ref |-> TRUE]
  BY DEF RowEntry, CallersCode, DeductRow, Trx
<1>4. EntryOf(r)' = [code |-> r.code, user |-> r.user, amount |-> r.amount,
                     moka_ref |-> TRUE]
  BY DEF EntryOf
<1> HIDE DEF x
<1>5. /\ trx \subseteq trx' /\ x \in trx' /\ x \notin trx
      /\ Spending' = Spending \cup {y \in {x} : y.kind \in {"deduct", "out", "redeem"}}
      /\ \A y \in trx : y.code # x.code
  BY <1>1, JournalAdds
<1>6. Spending' = Spending \cup {x}
  BY <1>2, <1>5
<1>7. voucher' \in [Voucher -> VoucherRow]
  BY <1>1 DEF FlowInv
<1>8. WalletKeeps /\ Spends(r, x) /\ x \in trx'
  BY <1>1, <1>3, <1>4, <1>5, <1>6, <1>7 DEF WalletKeeps, Spends
<1> QED
  BY <1>8 DEF x

LEMMA OutCodeOf ==
  ASSUME NEW ref \in Seq(Int)
  PROVE  SubSeq(OutCode(ref), 1, Len(OutCode(ref)) - 1) = ref
<1> DEFINE out == Append(ref, OutWord)
<1>1. OutWord \in Int
  BY DEF OutWord
<1>2. /\ out \in Seq(Int) /\ Len(out) = Len(ref) + 1
      /\ \A i \in 1 .. Len(ref) : out[i] = ref[i]
  BY <1>1
<1> HIDE DEF out
<1>3. SubSeq(out, 1, Len(out) - 1) = ref
  BY <1>2
<1> QED
  BY <1>3 DEF out, OutCode

LEMMA TransferApplied ==
  ASSUME FlowInv, NEW r \in Calls, r.op = "transfer", Transfer(r)
  PROVE  WalletKeeps /\ \E x : Spends(r, x)
<1> DEFINE x == Trx("out", OutCode(r.code), r.user, r.amount)
           y == Trx("in", InCode(r.code), r.to, r.amount)
<1>1. Journal({x, y}) /\ voucher' = voucher
  BY DEF Transfer, TransferRows
<1>2. x.kind = "out" /\ y.kind = "in"
  BY DEF Trx
<1>3. RowEntry(x) = [code |-> r.code, user |-> r.user, amount |-> r.amount,
                     moka_ref |-> FALSE]
  <2>1. r.code \in Seq(Int)
    BY CallFields, CodeAssumption DEF Code
  <2>2. CallersCode(x) = r.code
    BY <2>1, OutCodeOf DEF CallersCode, Trx
  <2> QED
    BY <2>2 DEF RowEntry, Trx
<1>4. EntryOf(r)' = [code |-> r.code, user |-> r.user, amount |-> r.amount,
                     moka_ref |-> FALSE]
  BY DEF EntryOf
<1> HIDE DEF x, y
<1>5. /\ trx \subseteq trx' /\ x \in trx' /\ x \notin trx
      /\ Spending' = Spending \cup {z \in {x, y} : z.kind \in {"deduct", "out", "redeem"}}
      /\ \A z \in trx : z.code # x.code
  BY <1>1, JournalAdds
<1>6. Spending' = Spending \cup {x}
  BY <1>2, <1>5
<1>7. voucher' \in [Voucher -> VoucherRow]
  BY <1>1 DEF FlowInv
<1>8. WalletKeeps /\ Spends(r, x)
  BY <1>1, <1>3, <1>4, <1>5, <1>6, <1>7 DEF WalletKeeps, Spends
<1> QED
  BY <1>8

LEMMA RedeemApplied ==
  ASSUME FlowInv, NEW r \in Calls, r.op = "redeem", Redeem(r)
  PROVE  /\ WalletKeeps /\ \E x : Spends(r, x)
         /\ voucher'[r.voucher].state = "redeemed"
<1> DEFINE x == RedeemRow(r, voucher[r.voucher])
<1>0. r.voucher \in Voucher
  BY DataAssumption DEF Calls, RequestType
<1>1. /\ Journal({x})
      /\ voucher[r.voucher].state = "issued"
      /\ voucher' = [voucher EXCEPT ![r.voucher].state = "redeemed"]
  BY DEF Redeem
<1>2. voucher \in [Voucher -> VoucherRow] /\ voucher[r.voucher] \in VoucherRow
  BY <1>0 DEF FlowInv
<1>3. [voucher[r.voucher] EXCEPT !.state = "redeemed"] \in VoucherRow
  BY <1>2 DEF VoucherRow, VoucherState
<1>4. /\ voucher' \in [Voucher -> VoucherRow]
      /\ \A v \in Voucher : v # r.voucher => voucher'[v] = voucher[v]
      /\ voucher'[r.voucher].state = "redeemed"
      /\ voucher'[r.voucher].user = voucher[r.voucher].user
      /\ voucher'[r.voucher].amount = voucher[r.voucher].amount
  BY <1>0, <1>1, <1>2, <1>3 DEF VoucherRow
<1>5. x.kind = "redeem"
  BY RowCodes
<1>6. RowEntry(x) = [code |-> r.code, user |-> voucher[r.voucher].user,
                     amount |-> voucher[r.voucher].amount, moka_ref |-> FALSE]
  BY DEF RowEntry, CallersCode, RedeemRow, Trx
<1>7. EntryOf(r)' = [code |-> r.code, user |-> voucher[r.voucher].user,
                     amount |-> voucher[r.voucher].amount, moka_ref |-> FALSE]
  BY <1>4 DEF EntryOf, RedemptionEntry
<1> HIDE DEF x
<1>8. /\ trx \subseteq trx' /\ x \in trx' /\ x \notin trx
      /\ Spending' = Spending \cup {y \in {x} : y.kind \in {"deduct", "out", "redeem"}}
      /\ \A y \in trx : y.code # x.code
  BY <1>1, JournalAdds
<1>9. Spending' = Spending \cup {x}
  BY <1>5, <1>8
<1>10. WalletKeeps
  BY <1>1, <1>4, <1>8 DEF WalletKeeps
<1>11. Spends(r, x)
  BY <1>6, <1>7, <1>8, <1>9 DEF Spends
<1> QED
  BY <1>4, <1>10, <1>11

\* Rewards, issues and expiries write rows that spend nothing.
LEMMA NothingSpent ==
  ASSUME NEW rows, Journal(rows), \A x \in rows : x.kind \notin {"deduct", "out", "redeem"}
  PROVE  trx \subseteq trx' /\ Spending' = Spending
  BY JournalAdds

LEMMA OtherApplied ==
  ASSUME FlowInv, OtherCalls
  PROVE  WalletKeeps /\ Spending' = Spending /\ UNCHANGED <<gateway, moka, recorded>>
<1>0. voucher \in [Voucher -> VoucherRow]
  BY DEF FlowInv
<1>1. ASSUME NEW r \in Request, PostDeposit(r)
      PROVE  WalletKeeps /\ Spending' = Spending /\ UNCHANGED <<gateway, moka, recorded>>
  <2>1. UNCHANGED <<voucher, trx>> /\ UNCHANGED <<gateway, moka, recorded>>
    BY <1>1 DEF PostDeposit, CalculateLimit, Deposit, Elsewhere
  <2> QED
    BY <1>0, <2>1 DEF WalletKeeps, Spending
<1>2. ASSUME NEW r \in Request, PostNodeReward(r)
      PROVE  WalletKeeps /\ Spending' = Spending /\ UNCHANGED <<gateway, moka, recorded>>
  <2>1. /\ UNCHANGED voucher /\ UNCHANGED <<gateway, moka, recorded>>
        /\ Journal({RewardRow(r)})
    BY <1>2 DEF PostNodeReward, CreditNodeReward, Reward, Elsewhere
  <2>2. RewardRow(r).kind = "reward"
    BY DEF RewardRow, Trx
  <2>3. trx \subseteq trx' /\ Spending' = Spending
    BY <2>1, <2>2, NothingSpent
  <2> QED
    BY <1>0, <2>1, <2>3 DEF WalletKeeps
<1>3. ASSUME NEW r \in Request, PostVoucherIssue(r)
      PROVE  WalletKeeps /\ Spending' = Spending /\ UNCHANGED <<gateway, moka, recorded>>
  <2> DEFINE new == [state |-> "issued", user |-> r.user, amount |-> r.amount]
  <2>1. /\ voucher[r.voucher].state = "none" /\ voucher' = [voucher EXCEPT ![r.voucher] = new]
        /\ UNCHANGED <<gateway, moka, recorded>>
        /\ Journal({IssueRow(r)})
    BY <1>3 DEF PostVoucherIssue, IssueVoucher, Issue, Elsewhere
  <2>2. IssueRow(r).kind = "issue"
    BY DEF IssueRow, Trx
  <2>3. trx \subseteq trx' /\ Spending' = Spending
    BY <2>1, <2>2, NothingSpent
  <2>4. r.voucher \in Voucher /\ r.user \in User /\ r.amount \in Nat
    BY <1>3, DataAssumption DEF RequestType
  <2>5. new \in VoucherRow
    BY <2>4 DEF VoucherRow, VoucherState
  <2> HIDE DEF new
  <2>6. /\ voucher' \in [Voucher -> VoucherRow]
        /\ \A v \in Voucher : voucher[v].state = "redeemed" => voucher'[v] = voucher[v]
    BY <1>0, <2>1, <2>5
  <2> QED
    BY <2>1, <2>3, <2>6 DEF WalletKeeps
<1>4. ASSUME NEW D \in SUBSET Voucher, Expire(D), Elsewhere
      PROVE  WalletKeeps /\ Spending' = Spending /\ UNCHANGED <<gateway, moka, recorded>>
  <2>1. /\ \A v \in D : voucher[v].state = "issued"
        /\ voucher' = [v \in Voucher |->
             IF v \in D THEN [voucher[v] EXCEPT !.state = "expired"] ELSE voucher[v]]
        /\ Journal({ExpireRow(v, voucher[v]) : v \in D})
        /\ UNCHANGED <<gateway, moka, recorded>>
    BY <1>4 DEF Expire, Elsewhere
  <2>2. \A v \in D : ExpireRow(v, voucher[v]).kind = "expire"
    BY DEF ExpireRow, Trx
  <2>3. \A x \in {ExpireRow(v, voucher[v]) : v \in D} : x.kind = "expire"
    BY <2>2
  <2>4. trx \subseteq trx' /\ Spending' = Spending
    <3> DEFINE rows == {ExpireRow(v, voucher[v]) : v \in D}
    <3>1. Journal(rows) /\ \A x \in rows : x.kind = "expire"
      BY <2>1, <2>3
    <3> HIDE DEF rows
    <3> QED
      BY <3>1, NothingSpent
  <2>5. \A v \in Voucher : [voucher[v] EXCEPT !.state = "expired"] \in VoucherRow
    BY <1>0 DEF VoucherRow, VoucherState
  <2>6. /\ voucher' \in [Voucher -> VoucherRow]
        /\ \A v \in Voucher : voucher[v].state = "redeemed" => voucher'[v] = voucher[v]
    BY <1>0, <2>1, <2>5
  <2> QED
    BY <2>1, <2>4, <2>6 DEF WalletKeeps
<1>5. ASSUME VoucherLapses
      PROVE  WalletKeeps /\ Spending' = Spending /\ UNCHANGED <<gateway, moka, recorded>>
  <2>1. UNCHANGED <<voucher, trx>> /\ UNCHANGED <<gateway, moka, recorded>>
    BY <1>5 DEF VoucherLapses, Lapse, Elsewhere
  <2> QED
    BY <1>0, <2>1 DEF WalletKeeps, Spending
<1> QED
  BY <1>1, <1>2, <1>3, <1>4, <1>5 DEF OtherCalls, PostVoucherExpire

LEMMA RedeemedKeeps ==
  ASSUME FlowInv, WalletKeeps, NEW h \in Handler
  PROVE  Redeemed(at[h], job[h], voucher')
<1>1. SUFFICES ASSUME at[h] = "append", job[h].op = "redeem"
               PROVE  voucher'[job[h].voucher].state = "redeemed"
  BY DEF Redeemed
<1>2. voucher[job[h].voucher].state = "redeemed" /\ job[h] \in Calls \cup Approvals
  BY <1>1 DEF FlowInv, Redeemed, Place
<1>3. job[h] \in RequestType
  BY <1>1, <1>2, CallFields, DataAssumption
<1>4. job[h].voucher \in Voucher
  BY <1>3 DEF RequestType
<1> QED
  BY <1>2, <1>4 DEF WalletKeeps

\* While the wallet serves others, what the handlers' positions say stays true.
LEMMA OthersKeep ==
  ASSUME FlowInv, OtherCalls
  PROVE  FlowInv'
<1>1. /\ WalletKeeps /\ Spending' = Spending
      /\ UNCHANGED <<charge, past, chain, job, at, moka, recorded>>
  BY OtherApplied DEF gateway
<1>2. ASSUME NEW h \in Handler
      PROVE  /\ Place(at[h], job[h]) /\ Settled(at[h], job[h], moka, recorded)
             /\ Approved(at[h], job[h], trx', chain) /\ Redeemed(at[h], job[h], voucher')
  <2>1. /\ Place(at[h], job[h]) /\ Settled(at[h], job[h], moka, recorded)
        /\ Approved(at[h], job[h], trx, chain) /\ Redeemed(at[h], job[h], voucher)
    BY DEF FlowInv
  <2>2. Approved(at[h], job[h], trx', chain)
    BY <1>1, <2>1, HandlerKeeps DEF WalletKeeps
  <2>3. Redeemed(at[h], job[h], voucher')
    BY <1>1, RedeemedKeeps
  <2> QED
    BY <2>1, <2>2, <2>3
<1>3. PaymentsBooked(chain, trx')
  BY <1>1 DEF FlowInv, PaymentsBooked, WalletKeeps
<1>4. \A c \in Charge : PaidBy(charge[c], c, trx', recorded, chain)
  BY <1>1, PaidKeeps DEF FlowInv, WalletKeeps
<1> QED
  BY <1>1, <1>2, <1>3, <1>4 DEF FlowInv, WalletKeeps

(***************************************************************************)
(* The steps of a handler.                                                 *)
(***************************************************************************)
LEMMA RequestArrives ==
  ASSUME FlowInv, NEW h \in Handler, NEW r \in Request,
         PostPay(h, r) \/ PostTransfer(h, r) \/ PostVoucherRedeem(h, r)
  PROVE  FlowInv'
<1>1. r \in Calls /\ Begin(h, r)
  BY DEF PostPay, PostTransfer, PostVoucherRedeem, Calls
<1>2. /\ at' = [at EXCEPT ![h] = "wallet"] /\ job' = [job EXCEPT ![h] = r]
      /\ UNCHANGED <<charge, past, chain, wallet>>
  BY <1>1 DEF Begin, Start
<1>3. /\ charge' \in [Charge -> ChargeRow]
      /\ \A c \in Charge : PaidBy(charge'[c], c, trx, recorded, chain)
  BY <1>2 DEF FlowInv
<1> QED
  BY <1>1, <1>2, <1>3, HandlerTurns

LEMMA ApprovalBegins ==
  ASSUME FlowInv, NEW h \in Handler, NEW c \in Charge, NEW u \in User,
         BeginApprove(h, c, u)
  PROVE  FlowInv'
<1>1. charge \in [Charge -> ChargeRow] /\ past \subseteq Charge
  BY DEF FlowInv
<1>2. /\ charge' = Seen(c)
      /\ UNCHANGED <<past, chain, wallet>>
      /\ Start(h, ApproveCall(c, u)) \/ UNCHANGED <<job, at>>
  BY DEF BeginApprove
<1>3. /\ charge' \in [Charge -> ChargeRow]
      /\ \A d \in Charge : charge'[d].status = "paid" => charge'[d] = charge[d]
  BY <1>1, <1>2, SeenType
<1>4. CASE UNCHANGED <<job, at>>
  BY <1>1, <1>2, <1>3, <1>4, ChargesMove
<1>5. CASE Start(h, ApproveCall(c, u))
  <2> DEFINE r == ApproveCall(c, u)
  <2>1. at' = [at EXCEPT ![h] = "wallet"] /\ job' = [job EXCEPT ![h] = r]
    BY <1>5 DEF Start
  <2>2. r \in Approvals
    BY DEF Approvals
  <2> HIDE DEF r
  <2>3. \A d \in Charge : PaidBy(charge'[d], d, trx, recorded, chain)
    <3> SUFFICES ASSUME NEW d \in Charge, charge'[d].status = "paid"
                 PROVE  PaidBy(charge'[d], d, trx, recorded, chain)
      BY DEF PaidBy
    <3> QED
      BY <1>3 DEF FlowInv
  <2> QED
    BY <1>2, <1>3, <2>1, <2>2, <2>3, HandlerTurns
<1> QED
  BY <1>2, <1>4, <1>5

\* What the wallet's commit of a handler's call does to the tables.
LEMMA MoveSpends ==
  ASSUME FlowInv, NEW h \in Handler, Move(h)
  PROVE  /\ WalletKeeps /\ \E x : Spends(job[h], x)
         /\ job[h].op = "deduct" =>
              Spends(job[h], DeductRow(job[h])) /\ DeductRow(job[h]) \in trx'
         /\ job[h].op = "redeem" => voucher'[job[h].voucher].state = "redeemed"
<1> DEFINE r == job[h]
<1>1. at[h] = "wallet" /\ Apply(r)
  BY DEF Move
<1>2. r \in Calls \cup Approvals
  BY <1>1 DEF FlowInv, Place
<1>3. /\ r.op \in {"deduct", "transfer", "redeem"}
      /\ r \in Approvals => r.op = "deduct"
  BY <1>2, CallFields
<1> HIDE DEF r
<1>4. /\ r.op = "deduct" => Deduct(r)
      /\ r.op = "transfer" => Transfer(r)
      /\ r.op = "redeem" => Redeem(r)
  BY <1>1, <1>3 DEF Apply
<1>5. /\ WalletKeeps /\ \E x : Spends(r, x)
      /\ r.op = "deduct" => Spends(r, DeductRow(r)) /\ DeductRow(r) \in trx'
      /\ r.op = "redeem" => voucher'[r.voucher].state = "redeemed"
  <2>1. CASE r.op = "deduct"
    BY <1>2, <1>4, <2>1, DeductApplied
  <2>2. CASE r.op = "transfer"
    BY <1>2, <1>3, <1>4, <2>2, TransferApplied
  <2>3. CASE r.op = "redeem"
    BY <1>2, <1>3, <1>4, <2>3, RedeemApplied
  <2> QED
    BY <1>3, <2>1, <2>2, <2>3
<1> QED
  BY <1>5 DEF r

\* Approvals of one charge by several customers: only one debit gets its code.
LEMMA MoveKeeps ==
  ASSUME FlowInv, NEW h \in Handler, Move(h)
  PROVE  FlowInv'
<1> DEFINE r == job[h]
           a == AfterCommit(r)
<1>1. /\ at[h] = "wallet" /\ Apply(r) /\ at' = [at EXCEPT ![h] = a]
      /\ UNCHANGED <<charge, past, chain, job, moka, recorded>>
  BY DEF Move
<1>2. r \in Calls \cup Approvals
  BY <1>1 DEF FlowInv, Place
<1>3. /\ r.op \in {"deduct", "transfer", "redeem"}
      /\ r \in Approvals => r.op = "deduct"
  BY <1>2, CallFields
<1>5. a = IF r.op = "deduct" THEN "settle" ELSE "append"
  BY DEF AfterCommit
<1> HIDE DEF r, a
<1>7. /\ WalletKeeps /\ \E x : Spends(r, x)
      /\ r.op = "deduct" => Spends(r, DeductRow(r)) /\ DeductRow(r) \in trx'
      /\ r.op = "redeem" => voucher'[r.voucher].state = "redeemed"
  BY MoveSpends DEF r
<1>8. IsFiniteSet(Spending')
  <2>1. PICK x : Spending' = Spending \cup {x}
    BY <1>7 DEF Spends
  <2>2. IsFiniteSet(Spending)
    BY DEF FlowInv
  <2> QED
    BY <2>1, <2>2, FS_AddElement
<1>9. r.op = "deduct" => \A y \in trx : y.code # r.code
  BY <1>7, RowCodes DEF Spends
<1>10. /\ at \in [Handler -> {"idle", "wallet"} \cup Moved]
       /\ \A g \in Handler : g # h => at'[g] = at[g]
       /\ at'[h] = a /\ a \in Owing
       /\ at' \in [Handler -> {"idle", "wallet"} \cup Moved]
  BY <1>1, <1>5 DEF FlowInv, Moved, Owing
<1>11. ASSUME NEW g \in Handler, at[g] \in Moved, job[g].op = "deduct", r.op = "deduct"
       PROVE  job[g].code # r.code
  <2>1. DeductRow(job[g]) \in trx
    BY <1>11 DEF FlowInv, Approved
  <2>2. DeductRow(job[g]).code = job[g].code
    BY RowCodes
  <2> QED
    BY <1>9, <1>11, <2>1, <2>2
<1>12. ASSUME NEW g \in Handler
       PROVE  /\ Place(at'[g], job[g]) /\ Settled(at'[g], job[g], moka, recorded)
              /\ Approved(at'[g], job[g], trx', chain) /\ Redeemed(at'[g], job[g], voucher')
  <2>1. CASE g = h
    <3>1. job[g] = r /\ at'[g] = a
      BY <1>10, <2>1 DEF r
    <3>2. Place(a, r)
      BY <1>2, <1>3, <1>5, <1>10 DEF Place, Moved, Owing
    <3>3. Settled(a, r, moka, recorded)
      BY <1>5 DEF Settled
    <3>4. Redeemed(a, r, voucher')
      BY <1>7 DEF Redeemed
    <3>5. Approved(a, r, trx', chain)
      <4> SUFFICES ASSUME r.op = "deduct"
                   PROVE  DeductRow(r) \in trx' /\ NotLogged(chain, r) /\ a # "mark"
        BY DEF Approved
      <4>1. DeductRow(r) \in trx' /\ a = "settle"
        BY <1>5, <1>7
      <4>2. NotLogged(chain, r)
        BY <1>9 DEF FlowInv, PaymentsBooked, NotLogged, PaysUnder
      <4> QED
        BY <4>1, <4>2
    <3> QED
      BY <3>1, <3>2, <3>3, <3>4, <3>5
  <2>2. CASE g # h
    <3>1. at'[g] = at[g]
      BY <1>10, <2>2
    <3>2. /\ Place(at[g], job[g]) /\ Settled(at[g], job[g], moka, recorded)
          /\ Approved(at[g], job[g], trx, chain)
      BY DEF FlowInv
    <3>3. Approved(at[g], job[g], trx', chain)
      BY <1>7, <3>2, HandlerKeeps DEF WalletKeeps
    <3>4. Redeemed(at[g], job[g], voucher')
      BY <1>7, RedeemedKeeps
    <3> QED
      BY <3>1, <3>2, <3>3, <3>4
  <2> QED
    BY <2>1, <2>2
<1>13. OneDebit(at', job)
  <2>1. OneDebit(at, job)
    BY DEF FlowInv
  <2>2. job[h] = r
    BY DEF r
  <2> QED
    BY <1>10, <1>11, <2>1, <2>2 DEF OneDebit
<1>14. PaymentsBooked(chain, trx')
  BY <1>7 DEF FlowInv, PaymentsBooked, WalletKeeps
<1>15. \A c \in Charge : PaidBy(charge[c], c, trx', recorded, chain)
  BY <1>7, PaidKeeps DEF FlowInv, WalletKeeps
<1> QED
  BY <1>1, <1>7, <1>8, <1>10, <1>12, <1>13, <1>14, <1>15 DEF FlowInv, WalletKeeps

LEMMA MokaSettleKeeps ==
  ASSUME FlowInv, NEW h \in Handler, MokaSettle(h)
  PROVE  FlowInv'
<1> DEFINE r == job[h]
<1>1. /\ at[h] = "settle" /\ moka' = moka \cup {r.code} /\ at' = [at EXCEPT ![h] = "record"]
      /\ UNCHANGED <<charge, past, chain, job, recorded, voucher, trx>>
      /\ Spending' = Spending
  BY DEF MokaSettle, vars, Spending
<1>2. r \in Calls \cup Approvals /\ r.op = "deduct"
  BY <1>1 DEF FlowInv, Place
<1>3. r.code \in Name /\ r.code \in moka'
  BY <1>1, <1>2, CallFields
<1>4. Approved("settle", r, trx, chain)
  BY <1>1 DEF FlowInv
<1>5. job[h] = r
  OBVIOUS
<1> HIDE DEF r
<1>6. /\ \A g \in Handler : g # h => at'[g] = at[g]
      /\ at'[h] = "record"
      /\ at' \in [Handler -> {"idle", "wallet"} \cup Moved]
  BY <1>1 DEF FlowInv, Moved, Owing
<1>7. moka \subseteq moka' /\ moka' \subseteq Name /\ recorded \subseteq moka'
  BY <1>1, <1>3 DEF FlowInv
<1>8. ASSUME NEW g \in Handler
      PROVE  /\ Place(at'[g], job[g]) /\ Settled(at'[g], job[g], moka', recorded)
             /\ Approved(at'[g], job[g], trx, chain) /\ Redeemed(at'[g], job[g], voucher)
  <2>1. CASE g = h
    <3>1. Place("record", r)
      BY <1>2 DEF Place, Moved, Owing
    <3>2. Settled("record", r, moka', recorded)
      BY <1>3 DEF Settled
    <3>3. Approved("record", r, trx, chain)
      BY <1>4 DEF Approved, Moved, Owing
    <3>4. Redeemed("record", r, voucher)
      BY DEF Redeemed
    <3> QED
      BY <1>5, <1>6, <2>1, <3>1, <3>2, <3>3, <3>4
  <2>2. CASE g # h
    <3>1. /\ Place(at[g], job[g]) /\ Settled(at[g], job[g], moka, recorded)
          /\ Approved(at[g], job[g], trx, chain) /\ Redeemed(at[g], job[g], voucher)
      BY DEF FlowInv
    <3>2. Settled(at[g], job[g], moka', recorded)
      BY <1>7, <3>1, HandlerKeeps
    <3> QED
      BY <1>6, <2>2, <3>1, <3>2
  <2> QED
    BY <2>1, <2>2
<1>9. OneDebit(at', job)
  BY <1>1, <1>6 DEF FlowInv, OneDebit, Moved, Owing
<1> QED
  BY <1>1, <1>6, <1>7, <1>8, <1>9 DEF FlowInv

LEMMA RecordKeeps ==
  ASSUME FlowInv, NEW h \in Handler, SetMokaPaymentID(h)
  PROVE  FlowInv'
<1> DEFINE r == job[h]
<1>1. /\ at[h] = "record" /\ recorded' = recorded \cup {r.code}
      /\ at' = [at EXCEPT ![h] = "append"]
      /\ UNCHANGED <<charge, past, chain, job, moka, voucher, trx>>
      /\ Spending' = Spending
  BY DEF SetMokaPaymentID, vars, Spending
<1>2. /\ r \in Calls \cup Approvals /\ r.op = "deduct"
      /\ Settled("record", r, moka, recorded)
      /\ Approved("record", r, trx, chain)
  BY <1>1 DEF FlowInv, Place
<1>3. r.code \in moka /\ r.code \in recorded'
  BY <1>1, <1>2 DEF Settled
<1>4. job[h] = r
  OBVIOUS
<1> HIDE DEF r
<1>5. /\ \A g \in Handler : g # h => at'[g] = at[g]
      /\ at'[h] = "append"
      /\ at' \in [Handler -> {"idle", "wallet"} \cup Moved]
  BY <1>1 DEF FlowInv, Moved, Owing
<1>6. recorded \subseteq recorded' /\ recorded' \subseteq moka
  BY <1>1, <1>3 DEF FlowInv
<1>7. ASSUME NEW g \in Handler
      PROVE  /\ Place(at'[g], job[g]) /\ Settled(at'[g], job[g], moka, recorded')
             /\ Approved(at'[g], job[g], trx, chain) /\ Redeemed(at'[g], job[g], voucher)
  <2>1. CASE g = h
    <3>1. Place("append", r)
      BY <1>2 DEF Place, Moved, Owing
    <3>2. Settled("append", r, moka, recorded')
      BY <1>3 DEF Settled
    <3>3. Approved("append", r, trx, chain)
      BY <1>2 DEF Approved, Moved, Owing
    <3>4. Redeemed("append", r, voucher)
      BY <1>2 DEF Redeemed
    <3> QED
      BY <1>4, <1>5, <2>1, <3>1, <3>2, <3>3, <3>4
  <2>2. CASE g # h
    <3>1. /\ Place(at[g], job[g]) /\ Settled(at[g], job[g], moka, recorded)
          /\ Approved(at[g], job[g], trx, chain) /\ Redeemed(at[g], job[g], voucher)
      BY DEF FlowInv
    <3>2. Settled(at[g], job[g], moka, recorded')
      BY <1>6, <3>1, HandlerKeeps
    <3> QED
      BY <1>5, <2>2, <3>1, <3>2
  <2> QED
    BY <2>1, <2>2
<1>8. OneDebit(at', job)
  BY <1>1, <1>5 DEF FlowInv, OneDebit, Moved, Owing
<1>9. \A c \in Charge : PaidBy(charge[c], c, trx, recorded', chain)
  BY <1>6, PaidKeeps DEF FlowInv
<1> QED
  BY <1>1, <1>5, <1>6, <1>7, <1>8, <1>9 DEF FlowInv

(***************************************************************************)
(* The chain with one more entry.                                          *)
(***************************************************************************)
LEMMA Appended ==
  ASSUME NEW entries \in Seq(Entry), NEW e \in Entry
  PROVE  /\ Append(entries, e) \in Seq(Entry)
         /\ DOMAIN Append(entries, e) = DOMAIN entries \cup {Len(entries) + 1}
         /\ Len(entries) + 1 \notin DOMAIN entries
         /\ Append(entries, e)[Len(entries) + 1] = e
         /\ \A i \in DOMAIN entries : Append(entries, e)[i] = entries[i]
  OBVIOUS

LEMMA LoggedOnceKeeps ==
  ASSUME NEW entries \in Seq(Entry), NEW e \in Entry, NEW r, ~PaysUnder(e, r.code),
         LoggedOnce(entries, r)
  PROVE  LoggedOnce(Append(entries, e), r)
<1> DEFINE more == Append(entries, e)
           n == Len(entries) + 1
<1>1. /\ DOMAIN more = DOMAIN entries \cup {n} /\ more[n] = e
      /\ \A i \in DOMAIN entries : more[i] = entries[i]
  BY Appended
<1> HIDE DEF more, n
<1>2. LoggedOnce(more, r)
  BY <1>1 DEF LoggedOnce
<1> QED
  BY <1>2 DEF more

LEMMA NotLoggedKeeps ==
  ASSUME NEW entries \in Seq(Entry), NEW e \in Entry, NEW r, ~PaysUnder(e, r.code),
         NotLogged(entries, r)
  PROVE  NotLogged(Append(entries, e), r)
<1> DEFINE more == Append(entries, e)
           n == Len(entries) + 1
<1>1. /\ DOMAIN more = DOMAIN entries \cup {n} /\ more[n] = e
      /\ \A i \in DOMAIN entries : more[i] = entries[i]
  BY Appended
<1> HIDE DEF more, n
<1>2. NotLogged(more, r)
  BY <1>1 DEF NotLogged
<1> QED
  BY <1>2 DEF more

LEMMA LogsOnce ==
  ASSUME NEW entries \in Seq(Entry), NEW r \in Calls \cup Approvals,
         NotLogged(entries, r)
  PROVE  LoggedOnce(Append(entries, EntryOfRequest(r)), r)
<1> DEFINE e == EntryOfRequest(r)
           more == Append(entries, e)
           n == Len(entries) + 1
<1>1. e \in Entry
  BY EntryFields
<1>2. /\ DOMAIN more = DOMAIN entries \cup {n} /\ more[n] = e
      /\ \A i \in DOMAIN entries : more[i] = entries[i]
  BY <1>1, Appended
<1> HIDE DEF more, n
<1>3. LoggedOnce(more, r)
  BY <1>2 DEF LoggedOnce, NotLogged
<1> QED
  BY <1>3 DEF more

\* settle, chargeApprove: the entry of a payment is the first and last with its code.
LEMMA AppendKeeps ==
  ASSUME FlowInv, NEW h \in Handler, AppendPayment(h)
  PROVE  FlowInv'
<1> DEFINE r == job[h]
           e == EntryOf(r)
<1>1. /\ at[h] = "append" /\ chain' = Append(chain, e)
      /\ UNCHANGED <<charge, past, moka, recorded, voucher, trx>>
      /\ Spending' = Spending
      /\ \/ IsApproval(h) /\ at' = [at EXCEPT ![h] = "mark"] /\ job' = job
         \/ /\ ~IsApproval(h) /\ at' = [at EXCEPT ![h] = "idle"]
            /\ job' = [job EXCEPT ![h] = NoJob]
  BY DEF AppendPayment, AppendEntry, Answer, wallet, vars, Spending
<1>2. /\ r \in Calls \cup Approvals
      /\ Settled("append", r, moka, recorded) /\ Approved("append", r, trx, chain)
  BY <1>1 DEF FlowInv, Place
<1>3. /\ IsApproval(h) <=> r \in Approvals
      /\ r \in Approvals => r.op = "deduct"
  BY <1>2, CallFields, CallOfJob
<1>4. /\ e \in Entry /\ e.code = r.code
      /\ e.moka_ref => r.op = "deduct"
      /\ r \in Approvals => e = EntryOfRequest(r)
  BY <1>2, <1>3, EntryOfCall
<1>5. r.op = "deduct" => DeductRow(r) \in trx /\ NotLogged(chain, r)
  BY <1>2 DEF Approved, Moved, Owing
<1>6. job[h] = r /\ chain \in Seq(Entry)
  BY DEF FlowInv
<1> HIDE DEF r, e
<1>7. /\ at \in [Handler -> {"idle", "wallet"} \cup Moved]
      /\ job \in [Handler -> Calls \cup Approvals \cup {NoJob}]
      /\ \A g \in Handler : g # h => at'[g] = at[g] /\ job'[g] = job[g]
      /\ at' \in [Handler -> {"idle", "wallet"} \cup Moved]
      /\ job' \in [Handler -> Calls \cup Approvals \cup {NoJob}]
      /\ \/ r \in Approvals /\ at'[h] = "mark" /\ job'[h] = r
         \/ r \notin Approvals /\ at'[h] = "idle" /\ job'[h] = NoJob
  BY <1>1, <1>3, <1>6 DEF FlowInv, Moved, Owing
<1>8. ASSUME NEW g \in Handler, g # h, at[g] \in Moved, job[g].op = "deduct"
      PROVE  ~PaysUnder(e, job[g].code)
  <2>1. OneDebit(at, job) /\ at[h] \in Moved
    BY <1>1 DEF FlowInv, Moved, Owing
  <2> QED
    BY <1>4, <1>6, <1>8, <2>1 DEF OneDebit, PaysUnder
<1>9. ASSUME NEW g \in Handler
      PROVE  /\ Place(at'[g], job'[g]) /\ Settled(at'[g], job'[g], moka, recorded)
             /\ Approved(at'[g], job'[g], trx, chain') /\ Redeemed(at'[g], job'[g], voucher)
  <2>1. CASE g = h /\ r \in Approvals
    <3>1. Place("mark", r)
      BY <2>1 DEF Place, Moved
    <3>2. Settled("mark", r, moka, recorded)
      BY <1>2 DEF Settled
    <3>3. LoggedOnce(chain', r)
      BY <1>1, <1>2, <1>3, <1>4, <1>5, <1>6, <2>1, LogsOnce
    <3>4. Approved("mark", r, trx, chain')
      BY <1>3, <1>5, <2>1, <3>3 DEF Approved, Moved, Owing
    <3>5. Redeemed("mark", r, voucher)
      BY DEF Redeemed
    <3> QED
      BY <1>7, <2>1, <3>1, <3>2, <3>4, <3>5
  <2>2. CASE g = h /\ r \notin Approvals
    <3>1. at'[g] = "idle" /\ job'[g] = NoJob
      BY <1>7, <2>2
    <3> QED
      BY <3>1, IdleHandler
  <2>3. CASE g # h
    <3>1. at'[g] = at[g] /\ job'[g] = job[g]
      BY <1>7, <2>3
    <3>2. /\ Place(at[g], job[g]) /\ Settled(at[g], job[g], moka, recorded)
          /\ Approved(at[g], job[g], trx, chain) /\ Redeemed(at[g], job[g], voucher)
      BY DEF FlowInv
    <3>3. Approved(at[g], job[g], trx, chain')
      <4>1. SUFFICES ASSUME at[g] \in Moved, job[g].op = "deduct"
                     PROVE  Approved(at[g], job[g], trx, chain')
        BY DEF Approved, Moved, Owing
      <4>2. ~PaysUnder(e, job[g].code)
        BY <1>8, <2>3, <4>1
      <4>3. NotLogged(chain, job[g]) => NotLogged(chain', job[g])
        BY <1>1, <1>4, <1>6, <4>2, NotLoggedKeeps
      <4>4. LoggedOnce(chain, job[g]) => LoggedOnce(chain', job[g])
        BY <1>1, <1>4, <1>6, <4>2, LoggedOnceKeeps
      <4> QED
        BY <3>2, <4>3, <4>4 DEF Approved
    <3> QED
      BY <3>1, <3>2, <3>3
  <2> QED
    BY <2>1, <2>2, <2>3
<1>10. OneDebit(at', job')
  <2>1. OneDebit(at, job) /\ at[h] \in Moved /\ "idle" \notin Moved
    BY <1>1 DEF FlowInv, Moved, Owing
  <2> QED
    BY <1>6, <1>7, <2>1 DEF OneDebit
<1>11. PaymentsBooked(chain', trx)
  <2>1. PaymentsBooked(chain, trx)
    BY DEF FlowInv
  <2>2. DeductRow(r).code = r.code
    BY RowCodes
  <2>3. e.moka_ref => \E x \in trx : x.code = e.code
    BY <1>4, <1>5, <2>2
  <2>4. /\ DOMAIN chain' = DOMAIN chain \cup {Len(chain) + 1}
        /\ chain'[Len(chain) + 1] = e
        /\ \A i \in DOMAIN chain : chain'[i] = chain[i]
    BY <1>1, <1>4, <1>6, Appended
  <2> QED
    BY <2>1, <2>3, <2>4 DEF PaymentsBooked
<1>12. ASSUME NEW c \in Charge PROVE PaidBy(charge[c], c, trx, recorded, chain')
  <2>1. PaidBy(charge[c], c, trx, recorded, chain)
    BY DEF FlowInv
  <2>2. ASSUME NEW u \in User, LoggedOnce(chain, ApproveCall(c, u))
        PROVE  LoggedOnce(chain', ApproveCall(c, u))
    <3> DEFINE q == ApproveCall(c, u)
    <3>1. q \in Approvals /\ q.code = c
      BY DEF Approvals, ApproveCall
    <3> HIDE DEF q
    <3>2. LoggedOnce(chain, q)
      BY <2>2 DEF q
    <3>3. \E i \in DOMAIN chain : PaysUnder(chain[i], c)
      BY <3>1, <3>2, EntryFields, ApprovalOf DEF LoggedOnce, PaysUnder
    <3>4. ~PaysUnder(e, c)
      BY <1>4, <1>5, <3>3 DEF NotLogged, PaysUnder
    <3>5. LoggedOnce(chain', q)
      BY <1>1, <1>4, <1>6, <3>1, <3>2, <3>4, LoggedOnceKeeps
    <3> QED
      BY <3>5 DEF q
  <2> QED
    BY <2>1, <2>2 DEF PaidBy
<1>13. chain' \in Seq(Entry)
  BY <1>1, <1>4, <1>6
<1> QED
  BY <1>1, <1>7, <1>9, <1>10, <1>11, <1>12, <1>13 DEF FlowInv

LEMMA MarkKeeps ==
  ASSUME FlowInv, NEW h \in Handler, MarkPaid(h)
  PROVE  FlowInv'
<1> DEFINE r == job[h]
           c == r.code
<1>1. /\ at[h] = "mark" /\ Answer(h) /\ UNCHANGED <<past, chain, wallet>>
      /\ \/ charge' = charge
         \/ charge' = [charge EXCEPT ![c] = [status |-> "paid", customer |-> {r.user}]]
  BY DEF MarkPaid
<1>2. /\ r \in Approvals /\ r.op = "deduct"
      /\ Settled("mark", r, moka, recorded) /\ Approved("mark", r, trx, chain)
  BY <1>1, CallFields DEF FlowInv, Place
<1>3. /\ DeductRow(r) \in trx /\ LoggedOnce(chain, r) /\ c \in recorded
      /\ c \in Charge /\ r.user \in User /\ r = ApproveCall(c, r.user)
  BY <1>2, ApprovalOf DEF Settled, Approved, Moved
<1>4. at' = [at EXCEPT ![h] = "idle"] /\ job' = [job EXCEPT ![h] = NoJob]
  BY <1>1 DEF Answer
<1> HIDE DEF r, c
<1>5. charge \in [Charge -> ChargeRow] /\ \A d \in Charge : PaidBy(charge[d], d, trx, recorded, chain)
  BY DEF FlowInv
<1>6. CASE charge' = charge
  BY <1>1, <1>4, <1>5, <1>6, HandlerTurns
<1>7. CASE charge' = [charge EXCEPT ![c] = [status |-> "paid", customer |-> {r.user}]]
  <2> DEFINE row == [status |-> "paid", customer |-> {r.user}]
  <2>1. row \in ChargeRow
    BY <1>3 DEF ChargeRow, Status
  <2>2. PaidBy(row, c, trx, recorded, chain)
    BY <1>3 DEF PaidBy
  <2>3. charge' = [charge EXCEPT ![c] = row]
    BY <1>7
  <2> HIDE DEF row
  <2>4. charge' \in [Charge -> ChargeRow]
    BY <1>5, <2>1, <2>3
  <2>5. \A d \in Charge : PaidBy(charge'[d], d, trx, recorded, chain)
    BY <1>3, <1>5, <2>2, <2>3
  <2> QED
    BY <1>1, <1>4, <2>4, <2>5, HandlerTurns
<1> QED
  BY <1>1, <1>6, <1>7

\* What the wallet and Moka did stays done; the gateway starts with nothing.
LEMMA RestartKeeps ==
  ASSUME FlowInv, Restart
  PROVE  FlowInv'
<1>1. /\ charge' = [c \in Charge |->
           IF charge[c].status = "none" THEN NoCharge ELSE [status |-> "lost", customer |-> {}]]
      /\ past' = {} /\ chain' = <<>>
      /\ job' = [h \in Handler |-> NoJob] /\ at' = [h \in Handler |-> "idle"]
      /\ UNCHANGED <<moka, recorded, voucher, trx>> /\ Spending' = Spending
  BY DEF Restart, wallet, vars, Spending
<1>2. /\ charge' \in [Charge -> ChargeRow]
      /\ \A c \in Charge : charge'[c].status # "paid"
  BY <1>1 DEF NoCharge, ChargeRow, Status
<1>3. /\ job' \in [Handler -> Calls \cup Approvals \cup {NoJob}]
      /\ at' \in [Handler -> {"idle", "wallet"} \cup Moved]
      /\ \A h \in Handler : at'[h] = "idle" /\ job'[h] = NoJob
      /\ chain' \in Seq(Entry) /\ DOMAIN chain' = {}
  BY <1>1
<1>4. ASSUME NEW h \in Handler
      PROVE  /\ Place(at'[h], job'[h]) /\ Settled(at'[h], job'[h], moka, recorded)
             /\ Approved(at'[h], job'[h], trx, chain') /\ Redeemed(at'[h], job'[h], voucher)
  BY <1>3, IdleHandler
<1>5. OneDebit(at', job')
  BY <1>3 DEF OneDebit, Moved, Owing
<1>6. PaymentsBooked(chain', trx)
  BY <1>3 DEF PaymentsBooked
<1>7. \A c \in Charge : PaidBy(charge'[c], c, trx, recorded, chain')
  BY <1>2 DEF PaidBy
<1> QED
  BY <1>1, <1>2, <1>3, <1>4, <1>5, <1>6, <1>7 DEF FlowInv

LEMMA HandleKeeps ==
  ASSUME FlowInv, NEW h \in Handler, Handle(h) \/ CallFails(h)
  PROVE  FlowInv'
<1>1. CASE Refuse(h) \/ CallFails(h)
  <2>1. Answer(h) /\ UNCHANGED <<charge, past, chain, wallet>>
    BY <1>1 DEF Refuse, CallFails
  <2> QED
    BY <2>1, AnswerKeeps
<1> QED
  BY <1>1, MoveKeeps, MokaSettleKeeps, RecordKeeps, AppendKeeps, MarkKeeps DEF Handle

LEMMA FlowStep ==
  ASSUME FlowInv, [FlowNext]_flow
  PROVE  FlowInv'
<1>1. CASE UNCHANGED flow
  BY <1>1 DEF flow, gateway, wallet, vars, FlowInv, Spending
<1>2. CASE FlowNext
  BY <1>2, MerchantStep, ApprovalBegins, RequestArrives, HandleKeeps, OthersKeep,
     RestartKeeps DEF FlowNext
<1> QED
  BY <1>1, <1>2

\* The inductive invariant, whatever calls fail and however often the gateway restarts.
THEOREM FlowInvariant == FlowSpec => []FlowInv
BY InitFlow, FlowStep, PTL DEF FlowSpec

\* Charges, calls and ledger entries keep their types, and the wallet records payment
\* ids of codes Moka settled only.
THEOREM FlowTypeCorrect == FlowSpec => []FlowTypeOK
<1>1. FlowInv => FlowTypeOK
  <2> SUFFICES ASSUME FlowInv PROVE FlowTypeOK
    OBVIOUS
  <2>1. ASSUME NEW h \in Handler
        PROVE  \/ at[h] = "idle" /\ job[h] = NoJob
               \/ /\ at[h] \in {"wallet", "settle", "record", "append", "mark"}
                  /\ \/ job[h] \in Request
                     \/ \E c \in Charge, u \in User : job[h] = ApproveCall(c, u)
    <3>1. Place(at[h], job[h])
      BY DEF FlowInv
    <3> QED
      BY <3>1 DEF Place, Moved, Owing, Calls, Approvals
  <2> QED
    BY <2>1 DEF FlowInv, FlowTypeOK
<1> QED
  BY <1>1, FlowInvariant, PTL

\* chargeApprove, MarkPaid: a charge is paid by a customer only after that customer's
\* debit, Moka's record of it and the ledger's one entry, for any number of customers
\* approving it at the same time.
THEOREM PaidWasDebited == FlowSpec => []PaidMeansDebited
<1>1. FlowInv => PaidMeansDebited
  <2> SUFFICES ASSUME FlowInv, NEW c \in Charge, charge[c].status = "paid"
               PROVE  \E u \in charge[c].customer :
                        /\ DeductRow(ApproveCall(c, u)) \in trx
                        /\ c \in recorded
                        /\ \E i \in DOMAIN chain :
                             /\ chain[i] = EntryOf(ApproveCall(c, u))
                             /\ \A j \in DOMAIN chain :
                                  chain[j].code = c /\ chain[j].moka_ref => j = i
    BY DEF PaidMeansDebited
  <2>1. PICK u \in charge[c].customer :
          /\ u \in User
          /\ DeductRow(ApproveCall(c, u)) \in trx /\ c \in recorded
          /\ LoggedOnce(chain, ApproveCall(c, u))
    BY DEF FlowInv, PaidBy
  <2>2. /\ EntryOf(ApproveCall(c, u)) = EntryOfRequest(ApproveCall(c, u))
        /\ ApproveCall(c, u).code = c
    BY DEF EntryOf, EntryOfRequest, ApproveCall
  <2> QED
    BY <2>1, <2>2 DEF LoggedOnce, PaysUnder
<1> QED
  BY <1>1, FlowInvariant, PTL

(***************************************************************************)
(* How often the ledger has an entry, and how often it was spent.          *)
(***************************************************************************)
\* The handlers that have still to log e.
Owes(e) == {h \in Handler : at[h] \in Owing /\ EntryOf(job[h]) = e}
LogOf(e) == {i \in DOMAIN chain : chain[i] = e}
SpentOn(e) == {x \in Spending : RowEntry(x) = e}

Counted == \A e : Logged(e) + Unlogged(e) <= Spent(e)
Balanced == \A e : Logged(e) + Unlogged(e) = Spent(e)

LEMMA CountsAre ==
  \A e : /\ Logged(e) = Cardinality(LogOf(e)) /\ Unlogged(e) = Cardinality(Owes(e))
         /\ Spent(e) = Cardinality(SpentOn(e))
  BY DEF Logged, Unlogged, Spent, LogOf, Owes, SpentOn, Owing

LEMMA FiniteCounts ==
  ASSUME FlowInv, NEW e
  PROVE  /\ IsFiniteSet(LogOf(e)) /\ IsFiniteSet(Owes(e)) /\ IsFiniteSet(SpentOn(e))
         /\ Logged(e) \in Nat /\ Unlogged(e) \in Nat /\ Spent(e) \in Nat
<1>1. IsFiniteSet(LogOf(e))
  <2>1. chain \in Seq(Entry)
    BY DEF FlowInv
  <2>2. Len(chain) \in Nat /\ DOMAIN chain = 1 .. Len(chain)
    BY <2>1
  <2>3. IsFiniteSet(1 .. Len(chain))
    BY <2>2, FS_Interval
  <2> QED
    BY <2>2, <2>3, FS_Subset DEF LogOf
<1>2. IsFiniteSet(Owes(e))
  BY FlowAssumption, FS_Subset DEF Owes
<1>3. IsFiniteSet(SpentOn(e))
  BY FS_Subset DEF SpentOn, FlowInv
<1> QED
  BY <1>1, <1>2, <1>3, CountsAre, FS_CardinalityType

\* A handler that owes an entry owes the same one after any call of the wallet.
LEMMA OwesKeeps ==
  ASSUME FlowInv, WalletKeeps, NEW h \in Handler, at[h] \in Owing, job'[h] = job[h]
  PROVE  EntryOf(job[h])' = EntryOf(job[h])
<1>1. job[h] \in Calls \cup Approvals
  BY DEF FlowInv, Place, Owing
<1>2. CASE job[h].op # "redeem"
  BY <1>2 DEF EntryOf
<1>3. CASE job[h].op = "redeem"
  <2>1. at[h] = "append"
    BY <1>3 DEF FlowInv, Place, Owing
  <2>2. voucher[job[h].voucher].state = "redeemed"
    BY <1>3, <2>1 DEF FlowInv, Redeemed
  <2>3. job[h] \in RequestType
    BY <1>1, <1>3, CallFields, DataAssumption
  <2>4. job[h].voucher \in Voucher
    BY <2>3 DEF RequestType
  <2>5. voucher'[job[h].voucher] = voucher[job[h].voucher]
    BY <2>2, <2>4 DEF WalletKeeps
  <2> QED
    BY <1>3, <2>5 DEF EntryOf
<1> QED
  BY <1>2, <1>3

LEMMA WalletStill ==
  ASSUME FlowInv, UNCHANGED <<voucher, trx>>
  PROVE  WalletKeeps /\ Spending' = Spending
  BY DEF FlowInv, WalletKeeps, Spending

\* The counts of a state, of one entry.
Counts(e) == <<Logged(e), Unlogged(e), Spent(e)>>

\* Steps at which nobody spends and nobody comes to owe an entry or logs one.
LEMMA CountsKeep ==
  ASSUME FlowInv, chain' = chain, Spending' = Spending, WalletKeeps,
         \A h \in Handler : at'[h] \in Owing <=> at[h] \in Owing,
         \A h \in Handler : at[h] \in Owing => job'[h] = job[h]
  PROVE  \A e : Counts(e)' = Counts(e)
<1> SUFFICES ASSUME NEW e PROVE Counts(e)' = Counts(e)
  OBVIOUS
<1>1. LogOf(e)' = LogOf(e) /\ SpentOn(e)' = SpentOn(e)
  BY DEF LogOf, SpentOn, RowEntry, CallersCode
<1>2. Owes(e)' = Owes(e)
  <2>1. \A h \in Handler : at[h] \in Owing => EntryOf(job[h])' = EntryOf(job[h])
    BY OwesKeeps
  <2> QED
    BY <2>1 DEF Owes
<1> QED
  BY <1>1, <1>2 DEF Counts, Logged, Unlogged, Spent, LogOf, Owes, SpentOn, Owing

\* The wallet's commit is one spending more, and the handler owes its entry.
LEMMA MoveCounts ==
  ASSUME FlowInv, NEW h \in Handler, Move(h), NEW e
  PROVE  /\ Logged(e)' = Logged(e)
         /\ \/ Unlogged(e)' = Unlogged(e) /\ Spent(e)' = Spent(e)
            \/ Unlogged(e)' = Unlogged(e) + 1 /\ Spent(e)' = Spent(e) + 1
<1> DEFINE r == job[h]
<1>1. /\ at[h] = "wallet" /\ at' = [at EXCEPT ![h] = AfterCommit(r)]
      /\ chain' = chain /\ job' = job
  BY DEF Move
<1>2. WalletKeeps /\ \E x : Spends(r, x)
  BY MoveSpends
<1>3. PICK x : Spends(r, x)
  BY <1>2
<1>4. /\ \A g \in Handler : g # h => at'[g] = at[g]
      /\ at'[h] \in Owing /\ at[h] \notin Owing
  BY <1>1 DEF FlowInv, AfterCommit, Owing
<1>5. \A g \in Handler : at[g] \in Owing => EntryOf(job[g])' = EntryOf(job[g])
  BY <1>1, <1>2, OwesKeeps
<1>6. Owes(e)' = IF EntryOf(job[h])' = e THEN Owes(e) \cup {h} ELSE Owes(e)
  BY <1>4, <1>5 DEF Owes
<1>7. SpentOn(e)' = IF RowEntry(x) = e THEN SpentOn(e) \cup {x} ELSE SpentOn(e)
  BY <1>3 DEF Spends, SpentOn, RowEntry, CallersCode
<1>8. RowEntry(x) = EntryOf(job[h])'
  BY <1>1, <1>3 DEF Spends
<1>9. x \notin SpentOn(e) /\ h \notin Owes(e)
  BY <1>3, <1>4 DEF Spends, SpentOn, Spending, Owes
<1>10. LogOf(e)' = LogOf(e)
  BY <1>1 DEF LogOf
<1>11. /\ Logged(e)' = Cardinality(LogOf(e)') /\ Unlogged(e)' = Cardinality(Owes(e)')
       /\ Spent(e)' = Cardinality(SpentOn(e)')
  BY DEF Logged, Unlogged, Spent, LogOf, Owes, SpentOn, Owing
<1>12. CASE RowEntry(x) = e
  <2>1. Owes(e)' = Owes(e) \cup {h} /\ SpentOn(e)' = SpentOn(e) \cup {x}
    BY <1>6, <1>7, <1>8, <1>12
  <2>2. /\ Cardinality(Owes(e) \cup {h}) = Cardinality(Owes(e)) + 1
        /\ Cardinality(SpentOn(e) \cup {x}) = Cardinality(SpentOn(e)) + 1
    BY <1>9, FiniteCounts, FS_AddElement
  <2> QED
    BY <1>10, <1>11, <2>1, <2>2, CountsAre
<1>13. CASE RowEntry(x) # e
  BY <1>6, <1>7, <1>8, <1>10, <1>11, <1>13, CountsAre
<1> QED
  BY <1>12, <1>13

\* AppendPayment: one entry more in the ledger, one fewer owed.
LEMMA AppendCounts ==
  ASSUME FlowInv, NEW h \in Handler, AppendPayment(h), NEW e
  PROVE  /\ Spent(e)' = Spent(e)
         /\ \/ Logged(e)' = Logged(e) /\ Unlogged(e)' = Unlogged(e)
            \/ Logged(e)' = Logged(e) + 1 /\ Unlogged(e)' = Unlogged(e) - 1
<1> DEFINE n == Len(chain) + 1
           new == EntryOf(job[h])
<1>1. /\ at[h] = "append" /\ chain' = Append(chain, new)
      /\ UNCHANGED <<voucher, trx>>
      /\ \/ at' = [at EXCEPT ![h] = "mark"] /\ job' = job
         \/ /\ at' = [at EXCEPT ![h] = "idle"]
            /\ job' = [job EXCEPT ![h] = NoJob]
  BY DEF AppendPayment, AppendEntry, Answer, wallet, vars
<1>2. /\ \A g \in Handler : g # h => at'[g] = at[g] /\ job'[g] = job[g]
      /\ at'[h] \notin Owing /\ at[h] \in Owing
  BY <1>1 DEF FlowInv, Owing
<1>3. job[h] \in Calls \cup Approvals /\ chain \in Seq(Entry)
  BY <1>1 DEF FlowInv, Place
<1>4. new \in Entry
  BY <1>3, EntryOfCall
<1> HIDE DEF new
<1>5. /\ DOMAIN chain' = DOMAIN chain \cup {n} /\ n \notin DOMAIN chain
      /\ chain'[n] = new /\ \A i \in DOMAIN chain : chain'[i] = chain[i]
  BY <1>1, <1>3, <1>4, Appended
<1> HIDE DEF n
<1>6. WalletKeeps /\ Spending' = Spending
  BY <1>1, WalletStill
<1>7. \A g \in Handler : g # h /\ at[g] \in Owing => EntryOf(job[g])' = EntryOf(job[g])
  BY <1>2, <1>6, OwesKeeps
<1>8. Owes(e)' = Owes(e) \ {h}
  BY <1>2, <1>7 DEF Owes
<1>9. h \in Owes(e) <=> new = e
  BY <1>2 DEF Owes, new
<1>10. LogOf(e)' = IF new = e THEN LogOf(e) \cup {n} ELSE LogOf(e)
  BY <1>5 DEF LogOf
<1>11. SpentOn(e)' = SpentOn(e) /\ n \notin LogOf(e)
  BY <1>5, <1>6 DEF SpentOn, RowEntry, CallersCode, LogOf
<1>12. /\ Logged(e)' = Cardinality(LogOf(e)') /\ Unlogged(e)' = Cardinality(Owes(e)')
       /\ Spent(e)' = Cardinality(SpentOn(e)')
  BY DEF Logged, Unlogged, Spent, LogOf, Owes, SpentOn, Owing
<1>13. CASE new = e
  <2>1. /\ Cardinality(LogOf(e) \cup {n}) = Cardinality(LogOf(e)) + 1
        /\ Cardinality(Owes(e) \ {h}) = Cardinality(Owes(e)) - 1
    BY <1>9, <1>11, <1>13, FiniteCounts, FS_AddElement, FS_RemoveElement
  <2> QED
    BY <1>8, <1>10, <1>11, <1>12, <1>13, <2>1, CountsAre
<1>14. CASE new # e
  <2>1. Owes(e)' = Owes(e) /\ LogOf(e)' = LogOf(e)
    BY <1>8, <1>9, <1>10, <1>14
  <2> QED
    BY <1>11, <1>12, <2>1, CountsAre
<1> QED
  BY <1>13, <1>14

\* A call that fails after its commit leaves a spending nobody will log.
LEMMA FailureCounts ==
  ASSUME FlowInv, NEW h \in Handler, CallFails(h), NEW e
  PROVE  /\ Spent(e)' = Spent(e) /\ Logged(e)' = Logged(e)
         /\ Unlogged(e)' \in {Unlogged(e), Unlogged(e) - 1}
<1>1. /\ at' = [at EXCEPT ![h] = "idle"] /\ job' = [job EXCEPT ![h] = NoJob]
      /\ UNCHANGED <<chain, voucher, trx>>
  BY DEF CallFails, Answer, wallet, vars
<1>2. /\ \A g \in Handler : g # h => at'[g] = at[g] /\ job'[g] = job[g]
      /\ at'[h] \notin Owing
  BY <1>1 DEF FlowInv, Owing
<1>3. WalletKeeps /\ Spending' = Spending
  BY <1>1, WalletStill
<1>4. \A g \in Handler : g # h /\ at[g] \in Owing => EntryOf(job[g])' = EntryOf(job[g])
  BY <1>2, <1>3, OwesKeeps
<1>5. Owes(e)' = Owes(e) \ {h}
  BY <1>2, <1>4 DEF Owes
<1>6. SpentOn(e)' = SpentOn(e) /\ LogOf(e)' = LogOf(e)
  BY <1>1, <1>3 DEF SpentOn, RowEntry, CallersCode, LogOf
<1>7. /\ Logged(e)' = Cardinality(LogOf(e)') /\ Unlogged(e)' = Cardinality(Owes(e)')
      /\ Spent(e)' = Cardinality(SpentOn(e)')
  BY DEF Logged, Unlogged, Spent, LogOf, Owes, SpentOn, Owing
<1>8. Cardinality(Owes(e) \ {h}) \in {Cardinality(Owes(e)), Cardinality(Owes(e)) - 1}
  BY FiniteCounts, FS_RemoveElement
<1> QED
  BY <1>5, <1>6, <1>7, <1>8, CountsAre

LEMMA RestartCounts ==
  ASSUME FlowInv, Restart, NEW e
  PROVE  Spent(e)' = Spent(e) /\ Logged(e)' = 0 /\ Unlogged(e)' = 0
<1>1. chain' = <<>> /\ at' = [h \in Handler |-> "idle"] /\ UNCHANGED <<voucher, trx>>
  BY DEF Restart, wallet, vars
<1>2. LogOf(e)' = {} /\ Owes(e)' = {} /\ SpentOn(e)' = SpentOn(e)
  BY <1>1 DEF LogOf, Owes, SpentOn, Spending, RowEntry, CallersCode, Owing
<1>3. /\ Logged(e)' = Cardinality(LogOf(e)') /\ Unlogged(e)' = Cardinality(Owes(e)')
      /\ Spent(e)' = Cardinality(SpentOn(e)')
  BY DEF Logged, Unlogged, Spent, LogOf, Owes, SpentOn, Owing
<1> QED
  BY <1>2, <1>3, CountsAre, FS_EmptySet

\* Everything else a handler, a merchant or the wallet's other callers do.
LEMMA OtherCounts ==
  ASSUME FlowInv,
         \/ UNCHANGED flow \/ MerchantCalls \/ \E c \in Charge : PassTTL(c)
         \/ \E h \in Handler, c \in Charge, u \in User : BeginApprove(h, c, u)
         \/ \E h \in Handler, r \in Request :
              PostPay(h, r) \/ PostTransfer(h, r) \/ PostVoucherRedeem(h, r)
         \/ \E h \in Handler : Refuse(h) \/ MokaSettle(h) \/ SetMokaPaymentID(h) \/ MarkPaid(h)
         \/ OtherCalls
  PROVE  \A e : Counts(e)' = Counts(e)
<1>0. /\ at \in [Handler -> {"idle", "wallet"} \cup Moved]
      /\ job \in [Handler -> Calls \cup Approvals \cup {NoJob}]
  BY DEF FlowInv
<1>1. CASE UNCHANGED flow \/ MerchantCalls \/ \E c \in Charge : PassTTL(c)
  <2>1. UNCHANGED <<chain, job, at, voucher, trx>>
    BY <1>1 DEF MerchantCalls, PassTTL, Create, Get, Cancel, ChargesForMerchant,
       flow, gateway, wallet, vars
  <2> QED
    BY <2>1, WalletStill, CountsKeep
<1>2. ASSUME NEW h \in Handler, at[h] \notin Owing, at'[h] \notin Owing,
             UNCHANGED <<chain, voucher, trx>>,
             \A g \in Handler : g # h => at'[g] = at[g] /\ job'[g] = job[g]
      PROVE  \A e : Counts(e)' = Counts(e)
  BY <1>2, WalletStill, CountsKeep
<1>3. ASSUME NEW h \in Handler, NEW c \in Charge, NEW u \in User, BeginApprove(h, c, u)
      PROVE  \A e : Counts(e)' = Counts(e)
  <2>1. /\ at[h] = "idle" /\ UNCHANGED <<chain, voucher, trx>>
        /\ Start(h, ApproveCall(c, u)) \/ UNCHANGED <<job, at>>
    BY <1>3 DEF BeginApprove, wallet, vars
  <2>2. \/ /\ at' = [at EXCEPT ![h] = "wallet"]
           /\ \E r : job' = [job EXCEPT ![h] = r]
        \/ at' = at /\ job' = job
    BY <2>1 DEF Start
  <2>3. /\ at[h] \notin Owing /\ at'[h] \notin Owing
        /\ \A g \in Handler : g # h => at'[g] = at[g] /\ job'[g] = job[g]
    BY <1>0, <2>1, <2>2 DEF Owing
  <2> QED
    BY <1>2, <2>1, <2>3
<1>4. ASSUME NEW h \in Handler, NEW r \in Request,
             PostPay(h, r) \/ PostTransfer(h, r) \/ PostVoucherRedeem(h, r)
      PROVE  \A e : Counts(e)' = Counts(e)
  <2>1. at[h] = "idle" /\ UNCHANGED <<chain, voucher, trx>> /\ Start(h, r)
    BY <1>4 DEF PostPay, PostTransfer, PostVoucherRedeem, Begin, wallet, vars
  <2>2. /\ at[h] \notin Owing /\ at'[h] \notin Owing
        /\ \A g \in Handler : g # h => at'[g] = at[g] /\ job'[g] = job[g]
    BY <1>0, <2>1 DEF Start, Owing
  <2> QED
    BY <1>2, <2>1, <2>2
<1>5. ASSUME NEW h \in Handler, Refuse(h) \/ MarkPaid(h)
      PROVE  \A e : Counts(e)' = Counts(e)
  <2>1. at[h] \in {"wallet", "mark"} /\ UNCHANGED <<chain, voucher, trx>> /\ Answer(h)
    BY <1>5 DEF Refuse, MarkPaid, wallet, vars
  <2>2. /\ at[h] \notin Owing /\ at'[h] \notin Owing
        /\ \A g \in Handler : g # h => at'[g] = at[g] /\ job'[g] = job[g]
    BY <1>0, <2>1 DEF Answer, Owing
  <2> QED
    BY <1>2, <2>1, <2>2
<1>6. ASSUME NEW h \in Handler, MokaSettle(h) \/ SetMokaPaymentID(h)
      PROVE  \A e : Counts(e)' = Counts(e)
  <2>1. /\ UNCHANGED <<chain, job, voucher, trx>>
        /\ at[h] \in {"settle", "record"}
        /\ \E a \in {"record", "append"} : at' = [at EXCEPT ![h] = a]
    BY <1>6 DEF MokaSettle, SetMokaPaymentID, vars
  <2>2. \A g \in Handler : at'[g] \in Owing <=> at[g] \in Owing
    BY <1>0, <2>1 DEF Owing
  <2> QED
    BY <2>1, <2>2, WalletStill, CountsKeep
<1>7. CASE OtherCalls
  <2>1. UNCHANGED <<chain, job, at>> /\ WalletKeeps /\ Spending' = Spending
    BY <1>7, OtherApplied DEF gateway
  <2> QED
    BY <2>1, CountsKeep
<1> QED
  BY <1>1, <1>3, <1>4, <1>5, <1>6, <1>7

LEMMA SameCounts ==
  ASSUME NEW e, Counts(e)' = Counts(e)
  PROVE  Logged(e)' = Logged(e) /\ Unlogged(e)' = Unlogged(e) /\ Spent(e)' = Spent(e)
BY DEF Counts

LEMMA InitCounts ==
  ASSUME FlowInit, NEW e
  PROVE  Logged(e) = 0 /\ Unlogged(e) = 0 /\ Spent(e) = 0
<1>1. LogOf(e) = {} /\ Owes(e) = {} /\ SpentOn(e) = {}
  BY DEF FlowInit, Init, LogOf, Owes, SpentOn, Spending, Owing
<1> QED
  BY <1>1, CountsAre, FS_EmptySet

LEMMA CountedStep ==
  ASSUME FlowInv, Counted, [FlowNext]_flow
  PROVE  Counted'
<1> SUFFICES ASSUME NEW e PROVE (Logged(e) + Unlogged(e) <= Spent(e))'
  BY DEF Counted
<1>1. /\ Logged(e) \in Nat /\ Unlogged(e) \in Nat /\ Spent(e) \in Nat
      /\ Logged(e) + Unlogged(e) <= Spent(e)
  BY FiniteCounts DEF Counted
<1>2. ASSUME NEW h \in Handler, Move(h) PROVE (Logged(e) + Unlogged(e) <= Spent(e))'
  BY <1>1, <1>2, MoveCounts
<1>3. ASSUME NEW h \in Handler, AppendPayment(h)
      PROVE  (Logged(e) + Unlogged(e) <= Spent(e))'
  BY <1>1, <1>3, AppendCounts
<1>4. ASSUME NEW h \in Handler, CallFails(h)
      PROVE  (Logged(e) + Unlogged(e) <= Spent(e))'
  BY <1>1, <1>4, FailureCounts
<1>5. CASE Restart
  BY <1>1, <1>5, RestartCounts
<1>6. CASE Counts(e)' = Counts(e)
  BY <1>1, <1>6, SameCounts
<1> QED
  BY <1>2, <1>3, <1>4, <1>5, <1>6, OtherCounts DEF FlowNext, Handle

LEMMA BalancedStep ==
  ASSUME Fault = {}, FlowInv, Balanced, [FlowNext]_flow
  PROVE  Balanced'
<1> SUFFICES ASSUME NEW e PROVE (Logged(e) + Unlogged(e) = Spent(e))'
  BY DEF Balanced
<1>1. /\ Logged(e) \in Nat /\ Unlogged(e) \in Nat /\ Spent(e) \in Nat
      /\ Logged(e) + Unlogged(e) = Spent(e)
  BY FiniteCounts DEF Balanced
<1>2. ASSUME NEW h \in Handler, Move(h) PROVE (Logged(e) + Unlogged(e) = Spent(e))'
  BY <1>1, <1>2, MoveCounts
<1>3. ASSUME NEW h \in Handler, AppendPayment(h)
      PROVE  (Logged(e) + Unlogged(e) = Spent(e))'
  BY <1>1, <1>3, AppendCounts
<1>4. CASE Counts(e)' = Counts(e)
  BY <1>1, <1>4, SameCounts
<1>5. ~Restart /\ \A h \in Handler : ~CallFails(h)
  BY DEF Restart, CallFails
<1> QED
  BY <1>2, <1>3, <1>4, <1>5, OtherCounts DEF FlowNext, Handle

\* The ledger holds no entry that was not spent, and no more of one than were spent,
\* whatever calls fail and however often the gateway restarts.
THEOREM LedgerNeverInvents == FlowSpec => []LedgerOnlyOfSpending
<1>1. FlowInit => Counted
  BY InitCounts DEF Counted
<1>2. Counted => LedgerOnlyOfSpending
  BY DEF Counted, LedgerOnlyOfSpending
<1> QED
  BY <1>1, <1>2, InitFlow, FlowStep, CountedStep, PTL DEF FlowSpec

\* Without failing calls and restarts the ledger records every payment, transfer and
\* redemption once, with the payer and the amount the wallet booked.
THEOREM LedgerIsComplete == Fault = {} => (FlowSpec => []LedgerComplete)
<1> SUFFICES ASSUME Fault = {} PROVE FlowSpec => []LedgerComplete
  OBVIOUS
<1>1. FlowInit => Balanced
  BY InitCounts DEF Balanced
<1>2. FlowInv /\ Balanced /\ [FlowNext]_flow => Balanced'
  BY BalancedStep
<1>3. Balanced => LedgerComplete
  BY DEF Balanced, LedgerComplete
<1> QED
  BY <1>1, <1>2, <1>3, InitFlow, FlowStep, PTL DEF FlowSpec

===============================================================================
