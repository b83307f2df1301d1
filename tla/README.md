# A TLA+ model of the wallet and gateway

TLA+ modules, TLC configurations and TLAPS proofs for the two Go services of this
repository: the **wallet** (gRPC over Postgres: accounts, transactions, vouchers,
device keys) and the **gateway** (REST and WebSocket, a replicated ledger with DePIN
rewards, merchant charges, all in memory). The modules are written from the code
under `src/`; `PROJECT.json` maps every definition to the lines it stands for.

To check a run: `tlc -config <cfg> <module>`; to check the proofs: `tlapm` on `Sums.tla`
and on each `*Proofs.tla`.

## 1. Inventory

| Component | State | Operations | Hard behaviour | Correct when |
|---|---|---|---|---|
| Wallet store, money (`wallet/internal/store/account.go`, `store.go`) | rows of `accounts`, `transactions` | Deposit, Deduct, TransferCredit, CreditNodeReward, SetMokaPaymentID; reads | concurrent READ COMMITTED transactions, row lock order, check-then-write, rollback, duplicate codes | no lost update, no negative credit, each code applied once, every transaction ends, callers see atomic operations |
| Wallet store, vouchers (`vouchers.go`) | rows of `vouchers` | IssueVoucher, RedeemVoucher, ExpireVouchers | redemption races expiry under two clocks; a sweep locks many accounts in an order of its own | a voucher is spent or refunded once; the sweep is atomic |
| Wallet store, device registry (`devices.go`) | rows of `devices` | EnrollDevice, RevokeDevice, RebindDevices, list | two-statement rebind under snapshots; concurrent rebinds | after a rebind the new key is active, the keys it found are not |
| Wallet services (`wallet/internal/service`) | the voucher-signing key | ValidateTransaction, Transfer, Deposit, vouchers, devices | debit, Moka and its id are separate steps; int64 totals | a payment recorded at Moka was debited; totals are exact or refused |
| Day-Zero yield (`calc`) | none | CalculateLimit | floating point | the limit is positive and rounded down |
| Moka client (`moka`) | none (a mock) | Settle | external service | called for debits only |
| Ledger nodes (`gateway/internal/ledgerp2p/ledgerp2p.go`) | each node's chain | AppendPayment, Receive, Verify, Entries | hash links and signatures; a new key after a restart | every copy is a prefix of one signed log, damage is found |
| Ledger cluster (`cluster.go`) | anchor, replicas, meters, channels to phones | AppendPayment, AddReplica, AddWSReplica, AckWSReplica, KillReplica, Meter, ClearPending, Verify, Nodes | fan-out under a lock while others read; a full channel drops entries; acknowledgements in order, and of any number a phone sends | a phone that tells the truth is metered for what it holds, each entry once; views raise no false alarm |
| Ledger WebSocket (`httpapi/ledgerws.go`) | per connection: back-fill, channel, reader | handshake, welcome, stream, acks, pings | look-up of the key against revocation, phones that never answer or vanish, back-fill against live stream, reconnects | a revoked key opens no session, the phone sees a gap-free chain |
| Gateway settlement (`settleDepin` in `httpapi/api.go`, timer in `cmd/gateway/main.go`) | reward totals | tick, POST /v1/depin/settle | read, credit and clear are separate; overlaps; lost replies | every replicated unit is paid once |
| Gateway payments (`httpapi/api.go`, `vouchers.go`) | none of its own | pay, transfer, redeem, signed pay, deposit, voucher issue | the wallet commits, then the ledger entry is appended; failures in between | the ledger records what was spent |
| Merchant charges (`charges/charges.go`) | charges with status and TTL | Create, Get, list, BeginApprove, MarkPaid, Cancel | approval checks early and marks late | paid means debited |
| Catalog (`catalog/catalog.go`) | products by id | Create, Delete, ForMerchant, ByBarcode | one barcode at two merchants; carts older than a price | a scanned cart is payable, a barcode names one product of a merchant |
| Clients, biometric stub, generated code | - | - | - | - |

How they interact: an HTTP handler of the gateway calls the wallet over gRPC, the
wallet runs one Postgres transaction (and, for a debit, Moka and a second statement),
and the handler then appends to the ledger cluster, which pushes the entry to
replicas and phones. Phones acknowledge; the cluster meters; the settlement timer
reads the meters and calls the wallet's CreditNodeReward. Charges tie the two
together: approving one is a payment whose code is the charge's id, and that id is public
(the QR code, the merchant's list), so other requests may use it as their code, too.

## 2. Modules

| Module | Models | State and actions |
|---|---|---|
| `WalletData` | requests, rows and codes of the wallet's tables | constants and row constructors (`DeductRow`, `TransferRows`, ...) |
| `WalletLedger` | what the store promises: atomic operations | `open, account, voucher, trx, lapsed`; one action per store method |
| `WalletStore` | the store statement by statement | the same tables plus, per session, `pc`, `req`, the balance read, the sweep's worklist, private row versions, and row `locks`; one action per SQL statement, `Commit`, `Fail` (error, cancelled context, crash), `AbortVictim` |
| `MCWalletStore` | request sets for TLC | |
| `LedgerCluster` | anchor, replicas, WebSocket phones | `length` (a chain is its length: the anchor is the only author), `replica` records, `socket`, `phone`; one action per method under `Cluster.mu`, `Deliver`, `Claim` and `Disconnect` for the phone and the network |
| `DepinSettle` | extends it with settleDepin and the wallet's side of it | `stage`, `meters`, `sum`, `total`; `BeginSettle`, `Credit`, `Clear`, `EndSettle` |
| `PaymentFlow` | extends `WalletLedger` with the gateway's handlers, charges, Moka and the ledger | `charge`, `past`, `chain`, `job`, `at`; one action per step of a handler between which others run |
| `MCPaymentFlow` | request sets | |
| `CartTotal` | fixed-width cart sums of wallet, charge store and gateway | `cart` grows; the sums are operators |
| `ScanAndGo` | extends it with the merchants' catalog and carts scanned from it | `products`; Create, Delete, Scan, and `Enter` for any other item |
| `SignedLog` | what the replicated ledger promises: one author per key, copies that hold a prefix of its log | `log`, `holds`; `Author`, `Store`, `Join`, `Leave`, `NewKey` |
| `LedgerNodes` | the chain: entries with hashes and signatures, Receive and Verify, the fan-out under `Cluster.mu`, the views of the REST API, a gateway restart | `chain`, `copy`, `fanout`, what phones `stored` and whom they `trusted`, the `view` a request has read so far |
| `DeviceRegistry` | the registry of one user | `status` and, per rebinding session, its statement, private versions and locks |
| `DeviceAccess` | extends it with the gateway's users of the registry: signed payments, the WebSocket handshake and session, the endpoints and RPCs that change the registry | `at` and `job` of each handler, phones that are `gone`; one action per step between which the registry may change |
| `MCDeviceAccess` | what the user's phones send | |
| `WalletStoreProofs`, `DeviceAccessProofs`, `LedgerClusterProofs`, `DepinSettleProofs`, `LedgerNodesProofs`, `PaymentFlowProofs`, `ScanAndGoProofs` | theorems about the module they are named after, and about the modules it extends | |
| `Sums` | facts about the sums and folds of the community modules, for the proofs | |

Two detailed modules implement an abstract one. `WalletStore` implements `WalletLedger`
(`ImplementsLedger`), and `PaymentFlow` is built on `WalletLedger`: what it shows about
the gateway rests on that refinement, which is proved (section 4). `LedgerNodes`
implements `SignedLog` (`ImplementsSignedLog`, proved too; it forgets hashes and
signatures), and that is why `LedgerCluster` and `DepinSettle` may take a copy of the
chain for its length. They run within one life of the gateway; `LedgerNodes` and
`PaymentFlow` restart it.

Abstractions that matter. Money keeps two columns of an account, `credit_limit` and
`available_credit`; yields and timestamps do not influence any guard. A code is a text, as
a sequence of words: the words the store adds (":out", ":in", "voucher-issue:",
"voucher-expire:") and a voucher's id are words like any other, so a caller's own code may
be one the store derives, and all of them meet in one UNIQUE column. A voucher's expiry is a fact that becomes true on each
clock at its own time (`lapsed["wallet"]`, `lapsed["postgres"]`), because redemption
compares with Go's time and the sweep with `now()`. Postgres is modelled as external:
row locks with the conflicts of FOR UPDATE, UPDATE and FOR KEY SHARE, the newest
committed row once a lock is granted, the unique index that makes an INSERT wait for an
uncommitted equal code, rollback, and a deadlock detector that aborts a member of a
cycle of waiters. A signature or a hash is modelled as the value it is computed from
(the key and the content, the content and the signature), so two are equal only if
what they were computed from is; `LedgerCluster` and `PaymentFlow` have none. The text of
a signed payment is not taken for the bill it was made from: `CanonicalCart` joins code,
total, skus and quantities with the separators of the code and without escaping, and codes
and skus may contain them, so different bills may have one text.

The phone is not part of the repository. `LedgerNodes` lets it apply `Receive`'s checks
to entries in any order under the key it was welcomed with and keep its copy across a
gateway restart; `LedgerCluster` says which frames it is sent, lets it acknowledge what it
stores (`Deliver`) or, `Claim`, any number it likes, which is all AckWSReplica sees;
`DeviceAccess` lets it sign, edit a signed bill, answer an old challenge, stay silent or
vanish.

## 3. Runs

| Run | Question and answer |
|---|---|
| `money` | Two sessions run a charge, transfers in both directions, a reward, a voucher issue and expiry sweeps, with deposits repeated in between. `NoNegativeCredit`, `BalanceReadIsCurrent` (the absolute UPDATE of Deduct loses nothing), `JournalExplainsBalance` (columns and journal agree), and `ImplementsLedger` hold, with a reward and a charge whose codes are ones the store derives. |
| `vouchers` | From a state with one voucher issued: issues, a redemption under the code of a transfer's debit, sweeps and transfers in both directions. `VoucherSettledOnce`, `JournalExplainsBalance`, `StepsImplementLedger`. Sessions do wait in a circle here and one is aborted; `NoDeadlock` says which: in every circle there is a sweep, or a redemption that inserted a code another session inserts. `TransactionEnds` holds all the same, under the fairness below. |
| `nodes` | Nodes join, leave, reconnect (with and without `?since=`) while entries are appended into channels of capacity one. `LocalCopiesAgree`, `PhoneCatchesUp`, `AckedIsPhoneLength`, and `LiveEntriesMetered`; `TruthfulEarnsStored`: a phone that claims nothing it does not hold is metered for stored live entries only, and whatever another one claims counts once per number and never for the back-fill. |
| `since` | Violation: `ReconnectEarns`, see section 6. |
| `settle` | The timer and a manual settle, with overlaps, credits that fail, replies lost after a commit, and nodes that go while they are credited (in-process nodes here; the metering of phones is `nodes`). `RewardConserved`: per node, paid + pending is what it replicated (plus what a lost reply pays again), exactly unless two passes overlapped on it and never less. `TotalsArePaid`, and under fairness `PendingIsSettled`. |
| `overlap` | Violation: `NeverDoublePaid` with two settlers, section 6. |
| `charges` | Approvals by two customers, payments and transfers with one code and with the charge's id, while the charge is canceled, polled and expires: `PaidMeansDebited` (one payment in the ledger, beside transfers under the same id), `LedgerComplete`, `ChargeSettles`. |
| `faults` | Wallet calls fail anywhere and the gateway restarts, with payments, transfers and redemptions under the charge's id, rewards and sweeps beside the approvals: `PaidMeansDebited` and `LedgerOnlyOfSpending` still hold (the ledger may miss spending, it never invents any). |
| `cancel` | Violation: `RejectedNotDebited`, section 6. |
| `phones` | Signed payments and WebSocket connections against the registry: enrolments, revocations and two concurrent recoveries run between the arrival of a request, the look-up of its key and what follows. `KeyWasActive` (a stale look-up is never older than the request), `DebitsWhatWasSigned` (for bills whose code and skus hold no bar, section 6), `RebindTakesOver`, `NeverLockedOut` (a failed or concurrent recovery leaves a key), `RebindEnds`, `ConnectionsEnd`. |
| `carts` | Carts in 4-bit arithmetic, scanned or sent as they are: `TotalsExact`, `LoggedIsDebited`; with the catalog changing meanwhile, `ScannedCartPayable` and `ScanUnambiguous`. |
| `chain` | Entries are appended and fanned out while replicas and phones come and go, views are read and the gateway restarts under a new key: `ImplementsSignedLog`, `AnswersCoherent` (lists, verifications and node tables that read under different locks raise no false alarm), `TamperDetected` (every changed, swapped or lost entry of a reachable chain fails Cluster.Verify, but for the anchor's last one where no in-process replica is left). |

### Bounds

* Wallet: two users, two vouchers, two codes and two that the store derives, too; amounts one and two against balances
  of at most two, so a second charge is refused, a retry meets its own code, and
  transfers run both ways. A session runs any number of transactions; what ends a
  behaviour is that codes are used up. Two sessions suffice for the pairwise conflicts
  the locks must exclude; sessions are symmetric, so the safety runs of `money` use
  symmetry, the liveness runs do not.
* Ledger: three entries, one owner and two nodes (`nodes`) give back-fill, live entries, a
  drop (channel of one) and an entry after the drop, and a reconnection whose old connection
  is still there; `MaxClaim` = 1 acknowledgement of a number of the phone's choice on the
  wire at a time, any number of times. Two entries and two nodes for the settlement runs, so units arrive while others are being credited. Nodes share
  nothing but the chain. `MaxUnheard` bounds the units credited by calls whose reply is
  lost to one; with it five is the most a node can be paid, so `MaxPaid` never binds in
  `settle`. Credits that fail without a commit (`CreditFails`) are not bounded.
* Chain: two keys, two entries under each, replicas 0 and 1 and a later one, one phone:
  a phone with an entry of the old key is offered the second of the new one, and an
  entry can be on one replica and not on the other.
* Payments: two handlers, one charge, one voucher. Two handlers are what it takes for an
  approval to race another one; the chain is bounded by the codes the wallet accepts, three
  of them, one the charge's id.
* Registry: two keys, two sessions; enough for two rebinds that lock the same rows in
  opposite orders, and for a rebind to a key already enrolled. Handlers share nothing but
  the registry.
* Carts: `Half` = 8, so totals are 4-bit integers from -8 to 7, `Quantities` = 4, two
  items: every wrap-around, including a product that wraps to a value of the right sign,
  occurs, and since one item already reaches every total, the second meets the loop with
  every pair of a running total and an item. For every other width, and every cart length,
  there is a proof (section 4), under `Quantities <= Half`: the code's quantity, a uint32,
  is narrower than its price, an int64. Two merchants and one barcode, at every price.

`CHECK_DEADLOCK FALSE` appears where entries, carts or nodes are used up and the system
rightly stops; the wallet's runs check for deadlock.

### Fairness

* `SF_vars(Step(s))` for a session of the store or of the registry: Postgres queues the
  waiters of a row, so a statement that can run again and again does run.
  `WF(AbortVictim)`: the deadlock detector fires after `deadlock_timeout`. Nothing is
  assumed about `Begin`, `Fail`, or clocks.
* `WF(Deliver)`, `WF(Ack)`: the writer and the reader goroutine of a connection run.
  A phone may disconnect or be dropped at any time.
* `WF(Settle(Timer))`: the ticker of `main.go` fires as long as the gateway runs.
  `SF(CreditHeard(Timer, id))` is an assumption about the wallet and the network, not about
  the gateway: a credit that can succeed each time it is tried is not refused every time.
  Single credits fail as often as they like; without it they may fail for ever and nothing
  is paid.
* `WF(HandshakeTimeout(h) \/ LookUp(h) \/ Ping(h))`: the ten-second timeout and the ping
  ticker fire, and a look-up returns. Phones owe nothing: they may never answer.
* `WF(Handle(h))`: each HTTP request has its own goroutine and the wallet answers.
  `ChargeSettles` is checked without failing calls: with them it is false, section 6.

## 4. Proofs

TLC checks the runs above on small instances; the theorems hold for every value of the
constants. Each module proves `Spec => []Inv` for one or more inductive invariants and
derives the properties the runs check from them. The invariants were checked with TLC first.

| Module | Theorems (properties of section 3) | Assumption | Inductive invariant |
|---|---|---|---|
| `WalletStoreProofs` | `TypeCorrect`, `CreditNeverNegative`, `NoLostUpdate`; `ImplementsWalletLedger`, `VouchersSettleOnce`, `JournalExplains`; `NoLockCycle` | `DataAssumption`, `CodeAssumption`: ids are numbers, codes texts, requests well typed; `NoLockCycle` also that users are finitely many | `IInv`, `StoreInv`, `JournalOK`, `LockInv` |
| `DeviceAccessProofs` | `RecoveryTakesOver`, `RecoveryLeavesKey`, `AccessImplementsRegistry`; `AccessTypeCorrect`, `AdmittedWasActive`, `DebitIsSigned` | `AccessAssumption`: payments and auth frames are told apart, bills are texts and numbers | `RegistryInv`, `AccessInv` |
| `LedgerClusterProofs` | `ClusterTypeCorrect`, `CopiesAgree`, `MeteredIsStored`, `CatchesUp`, `AckedIsLength` | `ClusterAssumption`: bounds are numbers, a channel holds at least one entry | `ClusterInv` |
| `DepinSettleProofs` | `SettleTypeCorrect`, `RewardsConserved`, `TotalsMatchWallet`, `RewardPaidOnce` | `SettleAssumption`: finitely many settlers | `SettleInv` |
| `LedgerNodesProofs` | `ChainTypeCorrect`, `CoherentAnswers`, `DamageDetected`, `ImplementsLog` | `NodesAssumption`: a phone's name is not a replica's id | `NodesInv` |
| `PaymentFlowProofs` | `FlowTypeCorrect`, `PaidWasDebited`, `LedgerNeverInvents`, `LedgerIsComplete` | `FlowAssumption`: finitely many handlers, charge ids are codes, prices positive | `FlowInv` |
| `ScanAndGoProofs` | `TotalsAreExact`, `TheLoggedIsDebited`, `ScannedIsPayable`, `ScanIsUnambiguous` | `CartAssumption`: a quantity is no wider than a price | `ScanInv` |

Every assumption is evaluated by TLC in the runs of its module. They say what types the
data have (ids and bounds are Go integers, codes and skus strings), that there are finitely
many sessions' users, settlers and handlers, and that prices are positive, which
`charges.go` checks; none of them restricts the codes, the skus or the numbers callers
choose. Why the properties are not inductive by themselves, and what has to be added:

* **Wallet store.** `Commit` publishes row versions written earlier, so `NoNegativeCredit`
  rests on what the session knew. `SessionOK` says, for each statement a session is at,
  which rows it holds in which mode, that the balance it read is the committed one, and
  that unpublished versions are not negative and belong to rows it has locked;
  `LocksExclude`, that no other session holds a conflicting lock, which is why another
  session's step cannot disturb `SessionOK`. One lemma per statement and one for the
  interference of others.
* **The store implements the ledger.** A commit is a step of `WalletLedger` only if
  the row versions written some statements ago are the ones the ledger would compute
  from the committed rows now. `StoreInv` says so: unpublished versions are a function of
  the request, the position of the session and rows it holds locked (`Written`, or
  `SweepOK` for a sweep half-way through its vouchers); no two sessions' new rows or
  issued vouchers collide (`Apart`), which is what the waiting INSERT and the fresh UUID
  are for; and the journal has a row for each step of a voucher (`VouchersOK`). Then
  `Commit` and `Deposit` are steps of the ledger (`StepIs`) and everything else stutters.
  The next two theorems use it to argue over operations of the ledger instead of
  statements. `VouchersSettleOnce` counts redemption rows against redeemed vouchers
  (`RedeemsMatch`). `JournalExplains` adds the effect of each committed row to a sum
  over a set of rows (`JournalOK`); a sweep adds any number of audit rows at once, whose
  effects add up to its refunds (`AuditSum`).
* **Deadlocks.** The comment on `TransferCredit` promises that the order by user_id avoids
  them. `LockInv` says that a session at its locking statement holds no account, unless it
  is a transfer that waits for a larger user_id than it holds, and that a redemption holds
  no account before its foreign key check is over. In a circle of waiters every held
  account would then have a larger one (`NoCycle`), and users are finitely many. Two kinds
  of calls break the order, and `NoLockCycle` names them instead of assuming them away:
  sweeps, which refund in the order the vouchers are scanned, and redemptions that inserted
  a code another session waits to insert, as they lock the account only afterwards, in the
  foreign key check, while a charge or a transfer locks first and inserts afterwards. The
  run `vouchers` has circles of both kinds. Postgres aborts one of the sessions; nothing is
  lost, as the other theorems show, and every transaction ends (`TransactionEnds`).
* **Registry.** `RebindOK` follows one recovery through its statements: what the first
  UPDATE found, what it has visited, locked and revoked. Then `Commit` takes over
  (`RebindTakesOver`) whatever other sessions did in between. `AccessImplementsRegistry`
  shows that every step of the gateway is a step of the registry or leaves it alone, so
  both registry theorems also hold in the composed system. `AccessInv` adds
  what a handler remembers of the registry when it acts. `DebitIsSigned` shows that the
  text determines code and total where neither code nor skus hold a bar in the bill the
  phone signed: what stands between the first bars of the one text stands there in the
  other, whatever bill the other text was made from.
* **Cluster.** A phone's frames come from two sources, the back-fill and the channel.
  `Cursor(id)` is the sequence number of the next frame in either; while no entry was
  dropped it is at most what the phone holds (`LinkOK`), and `acked` plus the acks on the
  wire is equal to it on a connection that asked for everything. `ChannelOK` and
  `MeterOK` bound channel, back-fill and meter by the chain. After a drop nothing but the
  bounds is left, and they are enough for `TruthfulEarnsStored`. What a phone that claims
  entries it lacks can get is bounded by `CountedOnce` alone.
* **Settlement.** `RewardConserved` is kept by `Clear` only if what a settler is about to
  subtract is still pending (`Covered`), and that holds only for nodes no other pass has
  read (`ReadOnce`); ids not given out yet have empty books (`Unborn`). The books are
  sums over the nodes a settler has read, so each step is a change of one term of a sum.
  `RewardPaidOnce` follows: a node no two passes overlapped on is never paid more than
  it replicated, plus what a lost reply pays again.
* **Nodes.** `ChainOK`: every chain, also of an earlier life of the gateway, is signed by
  its key and linked; `CopiesOK`: a replica holds the chain, or all but the entry being
  fanned out; `PhonesOK`: a phone holds a prefix of one of the chains; `ViewsOK`: what a
  request has read is a prefix in the order its steps read it. `DamageDetected` needs no
  collision argument beyond the model's: hash and signature are injective. It says exactly
  what passes: nothing while an in-process replica is live, and without one the anchor's
  chain less its last entry. `ImplementsLog`
  maps each action to a step of `SignedLog` or a stutter, `NewKey` included.
* **Payments.** `Place`, `Settled`, `Approved`, `Redeemed` say what the position of a
  handler implies about the wallet, Moka and the ledger. A request may use any code, a
  charge's id included, so the argument is about debits, not about approvals: `OneDebit`,
  that two handlers past a debit never have one code, since codes are unique in the wallet;
  `PaymentsBooked`, that a payment in the ledger has a row with its code, so a debit
  under way has no payment in the ledger yet. Transfers and redemptions may leave
  entries with the same code, but none that names a Moka payment. `LedgerNeverInvents`
  counts entries: `Logged(e) + Unlogged(e) <= Spent(e)` for every e, with equality as long
  as nothing fails. `LedgerIsComplete` is therefore stated for `Fault = {}`, as the run
  `charges` checks it: with a fault it is false.
* **Carts.** `cartTotal` detects overflow by dividing the product back. `WrapOnce`,
  `GuardExact` and `AddExact` show why this is exact when the quantity is narrower than
  the price, at any width: the wrapped product is smaller than the true one, so
  dividing it by the quantity gives less than the price (`DivideLess`), and one addition
  of two totals that fit wraps at most once, to a negative number. `TotalsAreExact`
  extends this to a cart of any length.

The provers cannot instantiate an induction theorem with an operator. `Sums` does without:
where a proof would use induction it takes the least counterexample (`LeastNat`, `Climb`),
and a fold over a sequence or set is defined by exhibiting the function that computes it
step by step (`FoldExists`, `SetRecursion`) and showing that two such functions agree.
What follows are the facts the proofs cite: the sum of a set with one term added, removed
or changed (`SumAdd`, `SumRemove`, `SumChange`), that a sum of natural numbers is one
(`SumNat`), that a fold over n + 1 elements is one step after n.

Only model-checked:

* Liveness (`TransactionEnds`, `LiveEntriesMetered`, `PendingIsSettled`, `ChargeSettles`,
  `RebindEnds`, `ConnectionsEnd`), which needs fairness and ENABLED.

## 5. Not modelled

* Day-Zero yield: `math.Pow` over float64. Its result enters as the amount of a
  deposit. A negative yield or a margin above one is not rejected by the code and would
  make the granted limit negative; the models assume it is not.
* `Cluster.Receive`, which nothing calls, and which would fail on a phone's replica (its
  `node` is nil); the signature on a voucher and the key the wallet regenerates on every
  start, after which vouchers already issued no longer verify offline.
* The reads `GetAccount`, `ListTransactions`, `ListVouchers`, `ForMerchant`, and the
  dashboards `depinStats` and `depinEarnings`: each reports the state of one moment, or
  of two (meters, then totals), and changes nothing.
* CORS, flags, health checks, shutdown, generated code, the web client, the biometric
  stub.

## 6. Disagreements between code and documentation

Three are runs whose expected result is a violation:

* `since`: a phone that reconnects with `?since=n` skips what it holds, but the
  acknowledgement counter starts at zero and accepts in order only, so nothing it stores
  on that connection is ever metered.
* `overlap`: the timer and a manual settle read the same pending units and both credit
  them, each under a fresh reference.
* `cancel`: a charge canceled or expired during its approval is debited nevertheless and
  the approval is answered with a conflict.

The models show others, which are stated here and not run separately:

* A sweep refunds accounts in voucher order while a transfer locks them by user_id, so
  the two can deadlock, and so can a redemption under the code `r:out` and a transfer
  under the ref `r`, against the comment at `service/wallet.go:188` ("no-deadlock
  invariants"); `AbortVictim` fires for both reasons in `vouchers`.
* account.go:252-253 says that the suffixes ":out" and ":in" distinguish debit from credit.
  Callers choose their codes freely, so a payment or a reward may have such a code, too.
  One that takes `voucher-expire:<id>` before that voucher expires makes every sweep
  that includes it fail and roll back, with the refunds of the other vouchers.
* AckWSReplica is "the proof-of-replication that gates the DePIN reward: a phone earns
  only for entries it actually stored" (cluster.go:123-125), but it compares a number only
  with the count of those before it: a phone that claims numbers in order is metered for
  entries it never got, also for such as do not exist yet (`Claim`).
* api.go:275-276 says that the signature binds the cart and the code. The text is not
  escaped: the code `c|100` with a total of 50 and the sku `s` has the text of the code
  `c` with a total of 100 and the sku `50|s`. `DebitsWhatWasSigned` is therefore stated for
  signed bills whose code and skus hold no bar.
* With no in-process replica (`LEDGER_REPLICAS=0`, or all of them killed) `Cluster.Verify`
  (cluster.go:159-181) has no length to compare the anchor's with, and an anchor that lost
  its last entry passes.
* A charge's id is public and nothing keeps a client from using it. A payment under a
  pending charge's id makes the wallet refuse every approval for its duplicate code, and the
  charge stays pending until it is looked at after its TTL; `ChargeSettles` is about charges
  whose approval debited. A transfer or redemption under the id leaves a ledger entry with
  it; the comment at api.go:386-387 ("maps 1:1 to a ledger/Moka record") holds for entries
  that name a Moka payment only (`PaidMeansDebited`).
* A reward whose reply is lost is credited again by the next pass, and a node that goes
  offline forfeits its pending units; `RewardConserved` accounts for both (`unheard`,
  `forfeited`).
* If the debit of an approval commits and the call fails, the charge stays pending and
  every further approval is refused for its duplicate code (`ChargeSettles` assumes no
  failing calls).
* Two concurrent rebinds of one user leave both new keys active: the revoking UPDATE of
  one does not see the uncommitted key of the other (`RebindTakesOver` is about the keys
  a rebind found).
* catalog.go:29 speaks of "a merchant+barcode index for scans", but `ByBarcode` takes no
  merchant: where two merchants list one barcode, a scan returns either product.
  `ScanUnambiguous` is stated for the products of one merchant.
* `canonicalCart` signs the total, skus and quantities, not the prices:
  `DebitsWhatWasSigned` holds for the amount, but the ledger may list item prices
  the phone did not sign.
* ledgerws.go:177 and api.go:304 look a key up and act later: a payment or session whose
  key is revoked in between goes through, and an open session survives the revocation.
  `KeyWasActive` says what is left: the key was active after the request arrived.

## 7. Plan

What is left, in this order:

1. The voucher's signature and the wallet's key across restarts, in `PaymentFlow`.
2. `PaymentFlow` over `LedgerCluster` instead of a plain sequence, so that settlement and
   payments draw on one wallet.
3. Proofs: that each step of `PaymentFlow` leaves the wallet alone or is one operation of
   `WalletLedger`, so that what is proved of the store carries over to the gateway.
