------------------------------ MODULE WalletStore ------------------------------
(***************************************************************************)
(* The wallet's Postgres store at the grain of its SQL statements.  Each   *)
(* session is one connection of the pool running one call of the store in  *)
(* one READ COMMITTED transaction: it takes row locks, reads the last      *)
(* committed row once it holds the lock, writes private row versions, and  *)
(* either commits all of them or rolls back.                               *)
(***************************************************************************)
EXTENDS WalletData, FiniteSetsExt

CONSTANT Session

VARIABLES
  open, account, voucher, trx, lapsed,   \* committed, as in WalletLedger
  before,   \* ghost: before[u] is trx when u's account was last deposited
  pc,       \* pc[s]: the statement session s runs next
  req,      \* the call it runs
  bal,      \* the available_credit it read
  todo,     \* vouchers its expiry sweep has still to visit
  work,     \* row versions it wrote and nobody else sees yet
  locks     \* locks[row]: the <<session, mode>> pairs that hold the row

db == <<open, account, voucher, trx, lapsed, before>>
vars == <<db, pc, req, bal, todo, work, locks>>

NoRequest == [op |-> "none"]
\* Row versions as functions: none, one, and newer versions over older ones.
Nothing == [x \in {} |-> x]
Only(x, row) == [y \in {x} |-> row]
Over(f, g) == [x \in DOMAIN f \cup DOMAIN g |-> IF x \in DOMAIN f THEN f[x] ELSE g[x]]
NoWork == [acct |-> Nothing, vch |-> Nothing, rows |-> {}]

(***************************************************************************)
(* Postgres row locks (external).  Modes: "X" FOR UPDATE, "N" the lock an  *)
(* UPDATE of non-key columns takes, "K" the FOR KEY SHARE lock of a foreign*)
(* key check.                                                              *)
(***************************************************************************)
Mode == {"X", "N", "K"}
Row == ({"account"} \X User) \cup ({"voucher"} \X Voucher)
Acct(u) == <<"account", u>>
Vch(v) == <<"voucher", v>>

Conflict(m, n) == m = "X" \/ n = "X" \/ (m = "N" /\ n = "N")

\* The least element of S, as a set.
First(S) == {x \in S : \A y \in S : x <= y}
Held(s) == {r \in Row : \E m \in Mode : <<s, m>> \in locks[r]}
\* The accounts a transfer has still to lock, and its ORDER BY user_id.
Unlocked(s) == {u \in {req[s].user, req[s].to} : Acct(u) \notin Held(s)}

\* SELECT ... FOR UPDATE; the mutant forgets FOR UPDATE.
PlainSelect(row) == {}
ForUpdate(row) == {<<row, "X">>}

\* A transfer locks by user_id; the mutant locks the sender first.
SenderFirst(s) == IF req[s].user \in Unlocked(s) THEN {req[s].user} ELSE Unlocked(s)
LockOrder(s) == First(Unlocked(s))

\* The row lock the next statement of s needs, as a set of at most one element.
NextLock(s) ==
  LET r == req[s]
  IN  CASE pc[s] = "lock" /\ r.op \in {"deduct", "issue"} /\ r.user \in open ->
             ForUpdate(Acct(r.user))
        [] pc[s] = "lock" /\ r.op = "transfer" /\ {r.user, r.to} \subseteq open ->
             UNION {ForUpdate(Acct(u)) : u \in LockOrder(s)}
        [] pc[s] = "lock" /\ r.op = "reward" /\ r.user \in open ->
             {<<Acct(r.user), "N">>}
        [] pc[s] = "lock" /\ r.op = "redeem" /\ voucher[r.voucher].state # "none" ->
             ForUpdate(Vch(r.voucher))
        [] pc[s] = "scan" -> {<<Vch(v), "N">> : v \in First(todo[s])}
        [] pc[s] = "refund" -> {<<Acct(voucher[v].user), "N">> : v \in First(todo[s])}
        [] pc[s] = "fk" -> {<<Acct(voucher[r.voucher].user), "K">>}
        [] OTHER -> {}

\* The sessions whose locks stand in the way of s.
LockHolders(s) ==
  {t \in Session \ {s} : \E l \in NextLock(s), n \in Mode :
                            <<t, n>> \in locks[l[1]] /\ Conflict(l[2], n)}
\* An INSERT waits for another open transaction that inserted the same code.  These are
\* the rows of a call that is no sweep.
NewRows(s) ==
  LET r == req[s]
  IN  CASE r.op = "deduct" -> {DeductRow(r)}
        [] r.op = "transfer" -> TransferRows(r)
        [] r.op = "reward" -> {RewardRow(r)}
        [] r.op = "issue" -> {IssueRow(r)}
        [] r.op = "redeem" -> {RedeemRow(r, voucher[r.voucher])}
        [] OTHER -> {}
\* What the INSERT that s runs next inserts; a sweep has one per voucher.
Inserts(s) ==
  CASE pc[s] = "insert" -> NewRows(s)
    [] pc[s] = "audit" -> {ExpireRow(v, voucher[v]) : v \in First(todo[s])}
    [] OTHER -> {}
CodeHolders(s) == {t \in Session \ {s} : ~Disjoint(Inserts(s), work[t].rows)}

Blockers(s) == LockHolders(s) \cup CodeHolders(s)
\* Sessions that only wait for each other; Postgres aborts one of them.
Deadlocked(S) == S # {} /\ \A s \in S : Blockers(s) \cap S # {}
\* The detector looks for a cycle; sessions that only queue behind one stay.
Cycle(S) == Deadlocked(S) /\ \A T \in SUBSET S : Deadlocked(T) => T = S

(***************************************************************************)
(* Beginning and ending a transaction.                                     *)
(***************************************************************************)
Init ==
  /\ open = {}
  /\ account = [u \in User |-> Grant(0)]
  /\ voucher = [v \in Voucher |-> NoVoucher]
  /\ trx = {}
  /\ lapsed = [c \in Clock |-> {}]
  /\ before = [u \in User |-> {}]
  /\ pc = [s \in Session |-> "idle"]
  /\ req = [s \in Session |-> NoRequest]
  /\ bal = [s \in Session |-> 0]
  /\ todo = [s \in Session |-> {}]
  /\ work = [s \in Session |-> NoWork]
  /\ locks = [r \in Row |-> {}]

\* A voucher id is a fresh UUID: no row and no other call carries it.
Fresh(v) ==
  /\ voucher[v].state = "none"
  /\ \A s \in Session : pc[s] # "idle" => ~(req[s].op = "issue" /\ req[s].voucher = v)

Begin(s, r) ==
  /\ pc[s] = "idle"
  /\ r.op # "deposit"
  /\ r.op = "transfer" => r.user # r.to
  /\ r.op = "issue" => Fresh(r.voucher)
  /\ pc' = [pc EXCEPT ![s] = "lock"]
  /\ req' = [req EXCEPT ![s] = r]
  /\ UNCHANGED <<db, bal, todo, work, locks>>

\* The mutant returns the connection to the pool without ROLLBACK or COMMIT.
LeakTransaction(s) ==
  /\ pc' = [pc EXCEPT ![s] = "idle"]
  /\ req' = [req EXCEPT ![s] = NoRequest]
  /\ bal' = [bal EXCEPT ![s] = 0]
  /\ todo' = [todo EXCEPT ![s] = {}]
  /\ work' = [work EXCEPT ![s] = NoWork]
  /\ UNCHANGED locks

Release(s) ==
  /\ pc' = [pc EXCEPT ![s] = "idle"]
  /\ req' = [req EXCEPT ![s] = NoRequest]
  /\ bal' = [bal EXCEPT ![s] = 0]
  /\ todo' = [todo EXCEPT ![s] = {}]
  /\ work' = [work EXCEPT ![s] = NoWork]
  /\ locks' = [r \in Row |-> locks[r] \ ({s} \X Mode)]

Rollback(s) == Release(s) /\ UNCHANGED db

Commit(s) ==
  /\ pc[s] = "commit"
  /\ account' = Over(work[s].acct, account)
  /\ voucher' = Over(work[s].vch, voucher)
  /\ trx' = trx \cup work[s].rows
  /\ Release(s)
  /\ UNCHANGED <<open, lapsed, before>>

\* A cancelled context, a lost connection or a crash of the wallet: Postgres
\* rolls the open transaction back.
Fail(s) == pc[s] # "idle" /\ Rollback(s)

\* The deadlock detector picks a victim.
AbortVictim(s) == (\E S \in SUBSET Session : s \in S /\ Cycle(S)) /\ Rollback(s)

(***************************************************************************)
(* The statements of each operation.                                       *)
(***************************************************************************)
At(s, p, op) == pc[s] = p /\ req[s].op = op
Goto(s, p) == pc' = [pc EXCEPT ![s] = p]

\* The check before a debit; the mutant compares with credit_limit.
WithinLimit(n, u) == n <= account[u].limit
Covers(n, u) == n <= account[u].avail

\* UNIQUE(other_trx_code); the mutant makes it UNIQUE(user_id, other_trx_code).
DuplicateOfUser(s) == \E x \in Inserts(s), y \in trx : x.code = y.code /\ x.user = y.user
Duplicate(s) == ~Disjoint(Inserts(s), trx)

\* The vouchers an expiry sweep selects; the mutant trusts the wallet's clock.
DueByWallet == {v \in lapsed["wallet"] : voucher[v].state = "issued"}
Due == {v \in lapsed["postgres"] : voucher[v].state = "issued"}

\* The status test that Postgres repeats under the row lock.
Recheck(v) == {x \in {v} : voucher[x].state = "issued"}

\* Waits until the row is free, then holds it to the end of the transaction.
Acquire(s) ==
  /\ LockHolders(s) = {}
  /\ locks' = [r \in Row |-> locks[r] \cup ({s} \X {m \in Mode :
                                                      <<r, m>> \in NextLock(s)})]

\* The newest version of a row that s may see, and its own new versions.
Current(s, u) == IF u \in DOMAIN work[s].acct THEN work[s].acct[u] ELSE account[u]
Update(s, acct, vch, rows) ==
  work' = [work EXCEPT ![s] = [acct |-> Over(acct, @.acct), vch |-> Over(vch, @.vch),
                               rows |-> @.rows \cup rows]]
\* SET available_credit = available_credit + n; the mutant misses s's own update.
PlusCommitted(s, u, n) == Only(u, [account[u] EXCEPT !.avail = @ + n])
Plus(s, u, n) == Only(u, [Current(s, u) EXCEPT !.avail = @ + n])

\* SELECT available_credit ... FOR UPDATE and the check that follows it.
LockAccount(s) ==
  LET r == req[s]
  IN  \/ /\ r.user \notin open
         /\ Rollback(s)
      \/ /\ r.user \in open /\ LockHolders(s) = {}
         /\ ~Covers(r.amount, r.user)
         /\ Rollback(s)
      \/ /\ r.user \in open /\ Acquire(s)
         /\ Covers(r.amount, r.user)
         /\ bal' = [bal EXCEPT ![s] = account[r.user].avail]
         /\ Goto(s, "write")
         /\ UNCHANGED <<db, req, todo, work>>

DeductLock(s) == At(s, "lock", "deduct") /\ LockAccount(s)

\* UPDATE to the absolute value computed from the balance read under the lock.
DeductUpdate(s) ==
  LET u == req[s].user
  IN  /\ At(s, "write", "deduct")
      /\ Update(s, Only(u, [Current(s, u) EXCEPT !.avail = bal[s] - req[s].amount]),
                Nothing, {})
      /\ Goto(s, "insert")
      /\ UNCHANGED <<db, req, bal, todo, locks>>

IssueLock(s) == At(s, "lock", "issue") /\ LockAccount(s)

IssueUpdate(s) ==
  LET r == req[s]
  IN  /\ At(s, "write", "issue")
      /\ Update(s, Plus(s, r.user, 0 - r.amount),
                Only(r.voucher, [state |-> "issued", user |-> r.user,
                                 amount |-> r.amount]), {})
      /\ Goto(s, "insert")
      /\ UNCHANGED <<db, req, bal, todo, locks>>

\* One row at a time, in the order of user_id; the check follows the last one.
TransferLock(s) ==
  LET r == req[s]
      last == Unlocked(s) = LockOrder(s)
  IN  /\ At(s, "lock", "transfer")
      /\ \/ /\ ~({r.user, r.to} \subseteq open)
            /\ Rollback(s)
         \/ /\ {r.user, r.to} \subseteq open /\ LockHolders(s) = {}
            /\ last /\ ~Covers(r.amount, r.user)
            /\ Rollback(s)
         \/ /\ {r.user, r.to} \subseteq open /\ Acquire(s)
            /\ last => Covers(r.amount, r.user)
            /\ Goto(s, IF last THEN "write" ELSE "lock")
            /\ UNCHANGED <<db, req, bal, todo, work>>

TransferUpdate(s) ==
  LET r == req[s]
  IN  /\ At(s, "write", "transfer")
      /\ Update(s, Over(Plus(s, r.user, 0 - r.amount), Plus(s, r.to, r.amount)), Nothing, {})
      /\ Goto(s, "insert")
      /\ UNCHANGED <<db, req, bal, todo, locks>>

\* UPDATE ... RETURNING: no row means no account.
RewardUpdate(s) ==
  LET r == req[s]
  IN  /\ At(s, "lock", "reward")
      /\ \/ r.user \notin open /\ Rollback(s)
         \/ /\ r.user \in open /\ Acquire(s)
            /\ Update(s, Only(r.user, [limit |-> Current(s, r.user).limit + r.amount,
                                      avail |-> Current(s, r.user).avail + r.amount]),
                      Nothing, {})
            /\ Goto(s, "insert")
            /\ UNCHANGED <<db, req, bal, todo>>

\* The status and expiry checks are made once the voucher row is locked.
RedeemLock(s) ==
  LET v == req[s].voucher
      redeemable == voucher[v].state = "issued" /\ v \notin lapsed["wallet"]
  IN  /\ At(s, "lock", "redeem")
      /\ \/ LockHolders(s) = {} /\ ~redeemable /\ Rollback(s)
         \/ /\ Acquire(s) /\ redeemable
            /\ Goto(s, "write")
            /\ UNCHANGED <<db, req, bal, todo, work>>

RedeemUpdate(s) ==
  LET v == req[s].voucher
  IN  /\ At(s, "write", "redeem")
      /\ Update(s, Nothing, Only(v, [voucher[v] EXCEPT !.state = "redeemed"]), {})
      /\ Goto(s, "insert")
      /\ UNCHANGED <<db, req, bal, todo, locks>>

\* INSERT INTO transactions: waits for an open transaction that inserted the
\* same code, and fails once such a row is committed.
InsertTrx(s) ==
  /\ pc[s] = "insert" /\ CodeHolders(s) = {}
  /\ \/ Duplicate(s) /\ Rollback(s)
     \/ /\ ~Duplicate(s)
        /\ Update(s, Nothing, Nothing, NewRows(s))
        /\ Goto(s, IF req[s].op = "redeem" THEN "fk" ELSE "commit")
        /\ UNCHANGED <<db, req, bal, todo, locks>>

\* The foreign key check of a row whose account the transaction has not locked.
ForeignKey(s) ==
  /\ pc[s] = "fk" /\ Acquire(s)
  /\ Goto(s, "commit")
  /\ UNCHANGED <<db, req, bal, todo, work>>

\* UPDATE vouchers ... RETURNING: the statement's snapshot picks the vouchers,
ExpireScan(s) ==
  /\ At(s, "lock", "expire")
  /\ todo' = [todo EXCEPT ![s] = Due]
  /\ Goto(s, IF Due = {} THEN "commit" ELSE "scan")
  /\ UNCHANGED <<db, req, bal, work, locks>>

\* each is locked in turn, and its status is checked again under the lock.
ExpireUpdate(s) ==
  /\ pc[s] = "scan" /\ Acquire(s)
  /\ \E v \in First(todo[s]) :
       LET left == todo[s] \ {v}
           hit == Recheck(v)
           all == hit \cup DOMAIN work[s].vch
       IN  /\ Update(s, Nothing,
                     [x \in hit |-> [voucher[x] EXCEPT !.state = "expired"]], {})
           /\ todo' = [todo EXCEPT ![s] = IF left = {} THEN all ELSE left]
           /\ Goto(s, IF left # {} THEN "scan"
                      ELSE IF all = {} THEN "commit" ELSE "refund")
  /\ UNCHANGED <<db, req, bal>>

\* Per returned voucher: the refund,
ExpireRefund(s) ==
  /\ pc[s] = "refund" /\ Acquire(s)
  /\ \E v \in First(todo[s]) :
       Update(s, Plus(s, voucher[v].user, voucher[v].amount), Nothing, {})
  /\ Goto(s, "audit")
  /\ UNCHANGED <<db, req, bal, todo>>

\* then its audit row; if a caller has used its code, the whole sweep rolls back.
ExpireAudit(s) ==
  /\ pc[s] = "audit" /\ CodeHolders(s) = {}
  /\ \/ Duplicate(s) /\ Rollback(s)
     \/ /\ ~Duplicate(s)
        /\ Update(s, Nothing, Nothing, Inserts(s))
        /\ \E v \in First(todo[s]) :
             LET left == todo[s] \ {v}
             IN  /\ todo' = [todo EXCEPT ![s] = left]
                 /\ Goto(s, IF left = {} THEN "commit" ELSE "refund")
        /\ UNCHANGED <<db, req, bal, locks>>

\* One autocommitted upsert: a repeated deposit overwrites the account.
Deposit(r) ==
  /\ r.op = "deposit"
  /\ \A s \in Session : \A m \in {"N", "X"} : <<s, m>> \notin locks[Acct(r.user)]
  /\ open' = open \cup {r.user}
  /\ account' = [account EXCEPT ![r.user] = Grant(r.amount)]
  /\ before' = [before EXCEPT ![r.user] = trx]
  /\ UNCHANGED <<voucher, trx, lapsed, pc, req, bal, todo, work, locks>>

\* A voucher's expiry passes on the clock of the wallet or of the database;
\* nobody asks once the voucher is settled.
Lapse(c, v) ==
  /\ voucher[v].state = "issued" /\ v \notin lapsed[c]
  /\ lapsed' = [lapsed EXCEPT ![c] = @ \cup {v}]
  /\ UNCHANGED <<open, account, voucher, trx, before, pc, req, bal, todo, work, locks>>

Step(s) ==
  \/ DeductLock(s) \/ DeductUpdate(s)
  \/ IssueLock(s) \/ IssueUpdate(s)
  \/ TransferLock(s) \/ TransferUpdate(s)
  \/ RewardUpdate(s)
  \/ RedeemLock(s) \/ RedeemUpdate(s)
  \/ ExpireScan(s) \/ ExpireUpdate(s) \/ ExpireRefund(s) \/ ExpireAudit(s)
  \/ InsertTrx(s) \/ ForeignKey(s) \/ Commit(s)

Next ==
  \/ \E s \in Session, r \in Request : Begin(s, r)
  \/ \E s \in Session : Step(s) \/ Fail(s) \/ AbortVictim(s)
  \/ \E r \in Request : Deposit(r)
  \/ \E c \in Clock, v \in Voucher : Lapse(c, v)

Spec == Init /\ [][Next]_vars

\* Postgres queues the waiters of a row, so a session whose statement can run
\* again and again does run; the deadlock detector runs after its timeout.
Fairness ==
  /\ \A s \in Session : SF_vars(Step(s))
  /\ WF_vars(\E s \in Session : AbortVictim(s))
FairSpec == Spec /\ Fairness

(***************************************************************************)
(* Properties.                                                             *)
(***************************************************************************)
IsPartial(f, D, R) == DOMAIN f \subseteq D /\ f \in [DOMAIN f -> R]

\* The type invariant: every variable of the store keeps its shape.
TypeOK ==
  /\ open \subseteq User
  /\ account \in [User -> Account]
  /\ voucher \in [Voucher -> VoucherRow]
  /\ trx \subseteq TrxRow
  /\ lapsed \in [Clock -> SUBSET Voucher]
  /\ before \in [User -> SUBSET TrxRow]
  /\ pc \in [Session -> {"idle", "lock", "write", "scan", "refund", "audit",
                         "insert", "fk", "commit"}]
  /\ req \in [Session -> Request \cup {NoRequest}]
  /\ bal \in [Session -> Int]
  /\ todo \in [Session -> SUBSET Voucher]
  /\ DOMAIN work = Session
  /\ \A s \in Session :
       /\ IsPartial(work[s].acct, User, Account)
       /\ IsPartial(work[s].vch, Voucher, VoucherRow)
       /\ work[s].rows \subseteq TrxRow
  /\ locks \in [Row -> SUBSET (Session \X Mode)]

\* No interleaving of charges, transfers, rewards, vouchers and their rollbacks
\* ever commits an account below zero (Deduct, TransferCredit, IssueVoucher).
NoNegativeCredit == \A u \in User : account[u].avail >= 0

\* The balance a charge read under its row lock is still the committed one when
\* it writes and commits, so the absolute UPDATE of Deduct loses no update.
BalanceReadIsCurrent ==
  \A s \in Session :
    pc[s] \in {"write", "insert", "commit"} /\ req[s].op \in {"deduct", "issue"} =>
      bal[s] = account[req[s].user].avail

\* What a committed row did to its user's available_credit, given that a reward
\* also raises credit_limit and a redemption spends what the issue reserved.
Effect(x) ==
  CASE x.kind \in {"deduct", "out", "issue"} -> 0 - x.amount
    [] x.kind \in {"in", "expire"} -> x.amount
    [] OTHER -> 0

\* The columns and the journal agree: available_credit is credit_limit plus the
\* effects of the user's rows committed since the last deposit overwrote it.
JournalExplainsBalance ==
  \A u \in User :
    account[u].avail = account[u].limit +
      MapThenSumSet(Effect, {x \in trx \ before[u] : x.user = u})

\* A voucher is settled once: it is redeemed or refunded but never both, each
\* expiry leaves its own audit row, and redemption rows match redeemed vouchers.
Reserved(v) == \E x \in trx : x.kind = "issue" /\ x.code = IssueCode(v)
VoucherSettledOnce ==
  /\ \A v \in Voucher :
       /\ (voucher[v].state # "none") = Reserved(v)
       /\ (voucher[v].state = "expired") = (ExpireRow(v, voucher[v]) \in trx)
  /\ Cardinality({x \in trx : x.kind = "redeem"}) =
       Cardinality({v \in Voucher : voucher[v].state = "redeemed"})

\* Callers see atomic operations, each applied at most once per other_trx_code:
\* committing implements one step of WalletLedger, everything else is invisible.
Ledger == INSTANCE WalletLedger WITH
  open <- open, account <- account, voucher <- voucher, trx <- trx, lapsed <- lapsed
ImplementsLedger == Ledger!Spec

\* The locks TransferCredit takes in the order of user_id: charges, transfers, rewards
\* and issues never wait in a circle among themselves.  Where sessions wait only for each
\* other, one of them is a sweep, which locks accounts in voucher order, or a redemption
\* that inserted a code another one inserts and waits for the account afterwards.
CodeTaken(s, S) == \E t \in S : req[s].op = "redeem" /\ s \in CodeHolders(t)
NoDeadlock ==
  \A S \in SUBSET Session :
    Deadlocked(S) => \E s \in S : req[s].op = "expire" \/ CodeTaken(s, S)

\* Every transaction that begins comes to an end, whatever locks it waits for.
TransactionEnds == \A s \in Session : pc[s] # "idle" ~> pc[s] = "idle"
=============================================================================
