--------------------------- MODULE WalletStoreProofs ---------------------------
(***************************************************************************)
(* For every set of users, vouchers, codes, requests and sessions: the     *)
(* store never commits a negative balance, the balance a charge read stays *)
(* current until it commits, each commit is one step of WalletLedger and   *)
(* nothing else is visible, a voucher is settled once, the journal explains*)
(* every balance, and only sweeps and redemptions can cause a deadlock.    *)
(***************************************************************************)
EXTENDS TLAPS, WalletStore, Sums

(***************************************************************************)
(* Row versions.                                                           *)
(***************************************************************************)

LEMMA OverlayPartial ==
  ASSUME NEW D, NEW R, NEW f, NEW g, IsPartial(f, D, R), IsPartial(g, D, R)
  PROVE  IsPartial(Over(f, g), D, R)
BY DEF IsPartial, Over

LEMMA OverlayTotal ==
  ASSUME NEW D, NEW R, NEW f, NEW g, IsPartial(f, D, R), g \in [D -> R]
  PROVE  Over(f, g) \in [D -> R]
BY DEF IsPartial, Over

LEMMA SinglePartial ==
  ASSUME NEW D, NEW R, NEW x \in D, NEW y \in R
  PROVE  IsPartial(Only(x, y), D, R)
BY DEF IsPartial, Only

LEMMA NothingPartial ==
  ASSUME NEW D, NEW R
  PROVE  IsPartial(Nothing, D, R)
BY DEF IsPartial, Nothing

(***************************************************************************)
(* The inductive invariant.  NoNegativeCredit is not inductive: that the   *)
(* new versions are non-negative rests on the balance a session read, that *)
(* rests on the exclusive lock it holds on the row, and the lock rests on  *)
(* what the session locked at each statement.                              *)
(***************************************************************************)
Holds(s, r, m) == <<s, m>> \in locks[r]

\* Two sessions never hold conflicting locks on a row.
LocksExclude ==
  \A r \in Row : \A s, t \in Session : \A m, n \in Mode :
    s # t /\ Holds(s, r, m) /\ Holds(t, r, n) => ~Conflict(m, n)

Spending(s) ==
  pc[s] \in {"write", "insert", "commit"} /\ req[s].op \in {"deduct", "issue", "transfer"}

\* What session s holds, has read and has written at its statement.
SessionOK(s) ==
  /\ pc[s] = "idle" => \A r \in Row : \A m \in Mode : ~Holds(s, r, m)
  /\ pc[s] # "idle" => req[s] \in Request
  /\ pc[s] \in {"idle", "lock", "write"} => work[s].acct = Nothing
  /\ pc[s] = "lock" => \A u \in User : \A m \in Mode : Holds(s, Acct(u), m) => m = "X"
  /\ pc[s] \in {"scan", "refund", "audit"} => req[s].op = "expire"
  /\ pc[s] = "fk" => req[s].op = "redeem"
  /\ \A u \in DOMAIN work[s].acct :
       /\ work[s].acct[u].avail >= 0
       /\ Holds(s, Acct(u), "N") \/ Holds(s, Acct(u), "X")
  /\ Spending(s) => Holds(s, Acct(req[s].user), "X")
  /\ Spending(s) /\ req[s].op = "transfer" => Holds(s, Acct(req[s].to), "X")
  /\ Spending(s) => req[s].amount <= account[req[s].user].avail
  /\ Spending(s) /\ req[s].op # "transfer" => bal[s] = account[req[s].user].avail

IInv ==
  /\ TypeOK
  /\ NoNegativeCredit
  /\ LocksExclude
  /\ \A s \in Session : SessionOK(s)

LEMMA InitIInv == Init => IInv
<1> SUFFICES ASSUME Init PROVE IInv
  OBVIOUS
<1>1. TypeOK
  <2>1. NoVoucher \in VoucherRow
    <3>1. (CHOOSE u \in User : TRUE) \in User
      BY DataAssumption
    <3> QED
      BY <3>1 DEF NoVoucher, VoucherRow, VoucherState
  <2>2. Grant(0) \in Account
    BY DEF Grant, Account
  <2>3. \A s \in Session : /\ IsPartial(work[s].acct, User, Account)
                           /\ IsPartial(work[s].vch, Voucher, VoucherRow)
                           /\ work[s].rows \subseteq TrxRow
    BY NothingPartial DEF Init, NoWork
  <2>4. DOMAIN work = Session
    BY DEF Init
  <2> QED
    BY <2>1, <2>2, <2>3, <2>4 DEF Init, TypeOK
<1>2. NoNegativeCredit
  <2>1. \A u \in User : account[u] = Grant(0)
    BY DEF Init
  <2>2. \A u \in User : account[u].avail = 0
    BY <2>1 DEF Grant
  <2> QED
    BY <2>2 DEF NoNegativeCredit
<1>3. LocksExclude
  BY DEF Init, LocksExclude, Holds
<1>4. ASSUME NEW s \in Session PROVE SessionOK(s)
  BY DEF Init, SessionOK, Holds, Spending, NoWork, Nothing, Acct, Row
<1> QED
  BY <1>1, <1>2, <1>3, <1>4 DEF IInv

(***************************************************************************)
(* Steps that end a transaction.                                           *)
(***************************************************************************)
\* A session a step does not touch keeps its part of the invariant.
LEMMA Untouched ==
  ASSUME IInv, NEW t \in Session,
         pc'[t] = pc[t], req'[t] = req[t], bal'[t] = bal[t], work'[t] = work[t],
         \A r \in Row : \A m \in Mode : Holds(t, r, m)' = Holds(t, r, m),
         \A u \in User : Holds(t, Acct(u), "X") => account'[u] = account[u]
  PROVE  SessionOK(t)'
<1>1. SessionOK(t)
  BY DEF IInv
<1>2. \A u \in User : Acct(u) \in Row
  BY DEF Acct, Row
<1>3. Spending(t) => req[t] \in Request /\ req[t].user \in User /\ req[t].to \in User
  BY <1>1, DataAssumption DEF SessionOK, Spending, RequestType
<1>4. DOMAIN work[t].acct \subseteq User
  BY DEF IInv, TypeOK, IsPartial
<1>5. "X" \in Mode /\ "N" \in Mode
  BY DEF Mode
<1>6. Spending(t)' = Spending(t)
  BY DEF Spending
<1> QED
  BY <1>1, <1>2, <1>3, <1>4, <1>5, <1>6 DEF SessionOK

\* Ending the transaction of s: nobody loses a lock but s.
LEMMA ReleaseLocks ==
  ASSUME IInv, NEW s \in Session, Release(s)
  PROVE  /\ locks' \in [Row -> SUBSET (Session \X Mode)]
         /\ \A r \in Row : \A m \in Mode : ~Holds(s, r, m)'
         /\ \A t \in Session \ {s} : \A r \in Row : \A m \in Mode :
              Holds(t, r, m)' = Holds(t, r, m)
         /\ LocksExclude'
<1>1. locks \in [Row -> SUBSET (Session \X Mode)]
  BY DEF IInv, TypeOK
<1>2. locks' = [r \in Row |-> locks[r] \ ({s} \X Mode)]
  BY DEF Release
<1>3. locks' \in [Row -> SUBSET (Session \X Mode)]
  BY <1>1, <1>2
<1>4. \A r \in Row : \A m \in Mode : ~Holds(s, r, m)'
  BY <1>2 DEF Holds
<1>5. \A t \in Session \ {s} : \A r \in Row : \A m \in Mode :
        Holds(t, r, m)' = Holds(t, r, m)
  BY <1>2 DEF Holds
<1>6. LocksExclude'
  BY <1>4, <1>5 DEF IInv, LocksExclude
<1> QED
  BY <1>3, <1>4, <1>5, <1>6

\* The other variables after s has ended its transaction.
LEMMA ReleaseSession ==
  ASSUME IInv, NEW s \in Session, Release(s)
  PROVE  /\ pc' \in [Session -> {"idle", "lock", "write", "scan", "refund", "audit", "insert",
                                  "fk", "commit"}]
         /\ req' \in [Session -> Request \cup {NoRequest}]
         /\ bal' \in [Session -> Int]
         /\ todo' \in [Session -> SUBSET Voucher]
         /\ DOMAIN work' = Session
         /\ \A t \in Session : /\ IsPartial(work'[t].acct, User, Account)
                               /\ IsPartial(work'[t].vch, Voucher, VoucherRow)
                               /\ work'[t].rows \subseteq TrxRow
         /\ pc'[s] = "idle" /\ work'[s] = NoWork
         /\ \A t \in Session \ {s} :
              /\ pc'[t] = pc[t] /\ req'[t] = req[t] /\ bal'[t] = bal[t]
              /\ work'[t] = work[t]
<1> USE DEF IInv, TypeOK, Release
<1>1. /\ pc' \in [Session -> {"idle", "lock", "write", "scan", "refund", "audit", "insert",
                              "fk", "commit"}]
      /\ req' \in [Session -> Request \cup {NoRequest}]
      /\ bal' \in [Session -> Int]
      /\ todo' \in [Session -> SUBSET Voucher]
  OBVIOUS
<1>2. DOMAIN work' = Session /\ work'[s] = NoWork
  OBVIOUS
<1>3. \A t \in Session \ {s} : work'[t] = work[t]
  OBVIOUS
<1>4. /\ IsPartial(NoWork.acct, User, Account)
      /\ IsPartial(NoWork.vch, Voucher, VoucherRow)
      /\ NoWork.rows \subseteq TrxRow
  BY NothingPartial DEF NoWork
<1>5. \A t \in Session : /\ IsPartial(work'[t].acct, User, Account)
                        /\ IsPartial(work'[t].vch, Voucher, VoucherRow)
                        /\ work'[t].rows \subseteq TrxRow
  BY <1>2, <1>3, <1>4
<1>6. /\ pc'[s] = "idle"
      /\ \A t \in Session \ {s} :
           pc'[t] = pc[t] /\ req'[t] = req[t] /\ bal'[t] = bal[t]
  OBVIOUS
<1> QED
  BY <1>1, <1>2, <1>3, <1>5, <1>6

LEMMA IdleOK ==
  ASSUME NEW s \in Session, pc'[s] = "idle", work'[s] = NoWork,
         \A r \in Row : \A m \in Mode : ~Holds(s, r, m)'
  PROVE  SessionOK(s)'
BY DEF SessionOK, Spending, NoWork, Nothing

LEMMA RollbackIInv ==
  ASSUME IInv, NEW s \in Session, Rollback(s)
  PROVE  IInv'
<1>1. Release(s)
  BY DEF Rollback
<1>2. account' = account
  BY DEF Rollback, db
<1>3. TypeOK'
  BY <1>1, ReleaseLocks, ReleaseSession DEF TypeOK, IInv, Rollback, db
<1>4. NoNegativeCredit'
  BY <1>2 DEF IInv, NoNegativeCredit
<1>5. LocksExclude'
  BY <1>1, ReleaseLocks
<1>6. SessionOK(s)'
  BY <1>1, ReleaseLocks, ReleaseSession, IdleOK
<1>7. ASSUME NEW t \in Session \ {s} PROVE SessionOK(t)'
  BY <1>1, <1>2, ReleaseLocks, ReleaseSession, Untouched
<1> QED
  BY <1>3, <1>4, <1>5, <1>6, <1>7 DEF IInv

\* A committed version comes from a row its session holds exclusively, so no
\* other session's balance or new version is based on an older one.
LEMMA CommitIInv ==
  ASSUME IInv, NEW s \in Session, Commit(s)
  PROVE  IInv'
<1>1. Release(s) /\ account' = Over(work[s].acct, account)
  BY DEF Commit
<1>2. \A u \in User :
        account'[u] = IF u \in DOMAIN work[s].acct THEN work[s].acct[u] ELSE account[u]
  BY <1>1 DEF IInv, TypeOK, Over
<1>3. TypeOK'
  <2>1. account' \in [User -> Account]
    BY <1>1, OverlayTotal DEF IInv, TypeOK
  <2>2. voucher' \in [Voucher -> VoucherRow]
    BY OverlayTotal DEF Commit, IInv, TypeOK
  <2>3. trx' \subseteq TrxRow
    BY DEF Commit, IInv, TypeOK
  <2>4. open' = open /\ lapsed' = lapsed /\ before' = before
    BY DEF Commit
  <2> QED
    BY <1>1, <2>1, <2>2, <2>3, <2>4, ReleaseLocks, ReleaseSession DEF IInv, TypeOK
<1>4. NoNegativeCredit'
  BY <1>2 DEF IInv, NoNegativeCredit, SessionOK
<1>5. LocksExclude'
  BY <1>1, ReleaseLocks
<1>6. SessionOK(s)'
  BY <1>1, ReleaseLocks, ReleaseSession, IdleOK
<1>7. ASSUME NEW t \in Session \ {s} PROVE SessionOK(t)'
  <2>1. ASSUME NEW u \in User, Holds(t, Acct(u), "X") PROVE u \notin DOMAIN work[s].acct
    <3>1. Acct(u) \in Row
      BY DEF Acct, Row
    <3>2. ~Holds(s, Acct(u), "X") /\ ~Holds(s, Acct(u), "N")
      BY <2>1, <3>1 DEF IInv, LocksExclude, Conflict, Mode
    <3> QED
      BY <3>2 DEF IInv, SessionOK
  <2>2. \A u \in User : Holds(t, Acct(u), "X") => account'[u] = account[u]
    BY <1>2, <2>1
  <2> QED
    BY <1>1, <2>2, ReleaseLocks, ReleaseSession, Untouched
<1> QED
  BY <1>3, <1>4, <1>5, <1>6, <1>7 DEF IInv

(***************************************************************************)
(* Steps inside a transaction.                                             *)
(***************************************************************************)
\* What taking a lock gives and leaves alone.
LEMMA AcquireLocks ==
  ASSUME IInv, NEW s \in Session, Acquire(s)
  PROVE  /\ locks' \in [Row -> SUBSET (Session \X Mode)]
         /\ \A r \in Row : \A m \in Mode :
              Holds(s, r, m)' = (Holds(s, r, m) \/ <<r, m>> \in NextLock(s))
         /\ \A t \in Session \ {s} : \A r \in Row : \A m \in Mode :
              Holds(t, r, m)' = Holds(t, r, m)
         /\ LocksExclude'
<1> DEFINE new(r) == {m \in Mode : <<r, m>> \in NextLock(s)}
<1>1. locks \in [Row -> SUBSET (Session \X Mode)]
  BY DEF IInv, TypeOK
<1>2. locks' = [r \in Row |-> locks[r] \cup ({s} \X new(r))]
  BY DEF Acquire
<1>3. locks' \in [Row -> SUBSET (Session \X Mode)]
  BY <1>1, <1>2
<1>4. \A r \in Row : \A m \in Mode :
        Holds(s, r, m)' = (Holds(s, r, m) \/ <<r, m>> \in NextLock(s))
  BY <1>2 DEF Holds
<1>5. \A t \in Session \ {s} : \A r \in Row : \A m \in Mode :
        Holds(t, r, m)' = Holds(t, r, m)
  BY <1>2 DEF Holds
<1>6. \A t \in Session \ {s} : \A r \in Row : \A m, n \in Mode :
        <<r, m>> \in NextLock(s) /\ Holds(t, r, n) => ~Conflict(m, n)
  BY DEF Acquire, LockHolders, Holds
<1>7. \A m, n : Conflict(m, n) = Conflict(n, m)
  BY DEF Conflict
<1>8. LocksExclude'
  <2> SUFFICES ASSUME NEW r \in Row, NEW a \in Session, NEW b \in Session,
                      NEW m \in Mode, NEW n \in Mode,
                      a # b, Holds(a, r, m)', Holds(b, r, n)'
               PROVE  ~Conflict(m, n)
    BY DEF LocksExclude
  <2>1. Holds(a, r, m) /\ Holds(b, r, n) => ~Conflict(m, n)
    BY DEF IInv, LocksExclude
  <2>2. CASE a = s
    <3>1. Holds(s, r, m) \/ <<r, m>> \in NextLock(s)
      BY <1>4, <2>2
    <3>2. Holds(b, r, n) /\ b \in Session \ {s}
      BY <1>5, <2>2
    <3> QED
      BY <1>6, <2>1, <2>2, <3>1, <3>2
  <2>3. CASE b = s
    <3>1. Holds(s, r, n) \/ <<r, n>> \in NextLock(s)
      BY <1>4, <2>3
    <3>2. Holds(a, r, m) /\ a \in Session \ {s}
      BY <1>5, <2>3
    <3> QED
      BY <1>6, <1>7, <2>1, <2>3, <3>1, <3>2
  <2>4. CASE a # s /\ b # s
    BY <1>5, <2>1, <2>4
  <2> QED
    BY <2>2, <2>3, <2>4
<1> QED
  BY <1>3, <1>4, <1>5, <1>8

\* A statement of s that commits nothing keeps the invariant if s's own part holds.
LEMMA StatementIInv ==
  ASSUME IInv, NEW s \in Session, UNCHANGED db,
         \/ Acquire(s)
         \/ UNCHANGED locks,
         NEW p \in {"lock", "write", "scan", "refund", "audit", "insert", "fk", "commit"},
         Goto(s, p),
         \A t \in Session \ {s} :
           req'[t] = req[t] /\ bal'[t] = bal[t] /\ work'[t] = work[t],
         req' \in [Session -> Request \cup {NoRequest}],
         bal' \in [Session -> Int],
         todo' \in [Session -> SUBSET Voucher],
         DOMAIN work' = Session,
         IsPartial(work'[s].acct, User, Account),
         IsPartial(work'[s].vch, Voucher, VoucherRow),
         work'[s].rows \subseteq TrxRow,
         SessionOK(s)'
  PROVE  IInv'
<1>1. /\ locks' \in [Row -> SUBSET (Session \X Mode)]
      /\ \A t \in Session \ {s} : \A r \in Row : \A m \in Mode :
           Holds(t, r, m)' = Holds(t, r, m)
      /\ LocksExclude'
  <2>1. CASE Acquire(s)
    BY <2>1, AcquireLocks
  <2>2. CASE UNCHANGED locks
    BY <2>2 DEF IInv, TypeOK, LocksExclude, Holds
  <2> QED
    BY <2>1, <2>2
<1>2. account' = account
  BY DEF db
<1>3. /\ pc' \in [Session -> {"idle", "lock", "write", "scan", "refund", "audit", "insert",
                              "fk", "commit"}]
      /\ \A t \in Session \ {s} : pc'[t] = pc[t]
  BY DEF Goto, IInv, TypeOK
<1>4. \A t \in Session : /\ IsPartial(work'[t].acct, User, Account)
                        /\ IsPartial(work'[t].vch, Voucher, VoucherRow)
                        /\ work'[t].rows \subseteq TrxRow
  BY DEF IInv, TypeOK
<1>5. TypeOK'
  BY <1>1, <1>3, <1>4 DEF IInv, TypeOK, db
<1>6. NoNegativeCredit'
  BY <1>2 DEF IInv, NoNegativeCredit
<1>7. ASSUME NEW t \in Session \ {s} PROVE SessionOK(t)'
  BY <1>1, <1>2, <1>3, Untouched
<1> QED
  BY <1>1, <1>5, <1>6, <1>7 DEF IInv

LEMMA RequestFields ==
  ASSUME IInv, NEW s \in Session, pc[s] # "idle"
  PROVE  /\ req[s] \in Request
         /\ req[s].op \in Op /\ req[s].user \in User /\ req[s].to \in User
         /\ req[s].amount \in Nat /\ req[s].voucher \in Voucher
         /\ req[s].code \in Name /\ req[s].code \in Code
BY DataAssumption, CodeAssumption DEF IInv, SessionOK, RequestType

LEMMA UpdateWork ==
  ASSUME IInv, NEW s \in Session, NEW acct, NEW vch, NEW rows,
         IsPartial(acct, User, Account), IsPartial(vch, Voucher, VoucherRow),
         rows \subseteq TrxRow, Update(s, acct, vch, rows)
  PROVE  /\ DOMAIN work' = Session
         /\ \A t \in Session \ {s} : work'[t] = work[t]
         /\ work'[s].acct = Over(acct, work[s].acct)
         /\ IsPartial(work'[s].acct, User, Account)
         /\ IsPartial(work'[s].vch, Voucher, VoucherRow)
         /\ work'[s].rows \subseteq TrxRow
<1>1. /\ DOMAIN work = Session
      /\ IsPartial(work[s].acct, User, Account)
      /\ IsPartial(work[s].vch, Voucher, VoucherRow)
      /\ work[s].rows \subseteq TrxRow
  BY DEF IInv, TypeOK
<1>2. work' = [work EXCEPT ![s] = [acct |-> Over(acct, work[s].acct),
                                   vch |-> Over(vch, work[s].vch),
                                   rows |-> work[s].rows \cup rows]]
  BY <1>1 DEF Update
<1>3. DOMAIN work' = Session /\ \A t \in Session \ {s} : work'[t] = work[t]
  BY <1>1, <1>2
<1>4. work'[s] = [acct |-> Over(acct, work[s].acct), vch |-> Over(vch, work[s].vch),
                  rows |-> work[s].rows \cup rows]
  BY <1>1, <1>2
<1>5. /\ work'[s].acct = Over(acct, work[s].acct)
      /\ work'[s].vch = Over(vch, work[s].vch)
      /\ work'[s].rows = work[s].rows \cup rows
  BY <1>4
<1>6. IsPartial(work'[s].acct, User, Account)
  BY <1>1, <1>5, OverlayPartial
<1>7. IsPartial(work'[s].vch, Voucher, VoucherRow)
  BY <1>1, <1>5, OverlayPartial
<1> QED
  BY <1>1, <1>3, <1>5, <1>6, <1>7

LEMMA CurrentAccount ==
  ASSUME IInv, NEW s \in Session, NEW u \in User
  PROVE  /\ Current(s, u) \in Account
         /\ Current(s, u).avail >= 0
         /\ work[s].acct = Nothing => Current(s, u) = account[u]
<1>1. account[u] \in Account /\ account[u].avail >= 0
  BY DEF IInv, TypeOK, NoNegativeCredit
<1>2. u \in DOMAIN work[s].acct =>
        work[s].acct[u] \in Account /\ work[s].acct[u].avail >= 0
  BY DEF IInv, TypeOK, IsPartial, SessionOK
<1>3. DOMAIN Nothing = {}
  BY DEF Nothing
<1> QED
  BY <1>1, <1>2, <1>3 DEF Current

\* The balance read under FOR UPDATE is the committed one and covers the amount.
LEMMA LockAccountIInv ==
  ASSUME IInv, NEW s \in Session, pc[s] = "lock",
         req[s].op \in {"deduct", "issue"}, LockAccount(s)
  PROVE  IInv'
<1>1. CASE Rollback(s)
  BY <1>1, RollbackIInv
<1>2. CASE /\ req[s].user \in open /\ Acquire(s)
           /\ req[s].amount <= account[req[s].user].avail
           /\ bal' = [bal EXCEPT ![s] = account[req[s].user].avail]
           /\ Goto(s, "write")
           /\ UNCHANGED <<db, req, todo, work>>
  <2>1. req[s].user \in User /\ req[s] \in Request
    BY RequestFields
  <2>2. <<Acct(req[s].user), "X">> \in NextLock(s)
    BY <1>2 DEF NextLock, ForUpdate
  <2>3. Holds(s, Acct(req[s].user), "X")'
    BY <1>2, <2>1, <2>2, AcquireLocks DEF Acct, Row, Mode
  <2>4. pc'[s] = "write" /\ work'[s] = work[s] /\ req'[s] = req[s]
    BY <1>2 DEF Goto, IInv, TypeOK
  <2>5. work[s].acct = Nothing /\ DOMAIN Nothing = {}
    BY DEF IInv, SessionOK, Nothing
  <2>6. account' = account /\ bal'[s] = account[req[s].user].avail
    BY <1>2 DEF db, IInv, TypeOK
  <2>7. SessionOK(s)'
    BY <1>2, <2>1, <2>3, <2>4, <2>5, <2>6 DEF SessionOK, Spending
  <2>8. account[req[s].user].avail \in Int
    BY <2>1 DEF IInv, TypeOK, Account
  <2>9. /\ bal' \in [Session -> Int] /\ req' \in [Session -> Request \cup {NoRequest}]
        /\ todo' \in [Session -> SUBSET Voucher]
        /\ DOMAIN work' = Session
        /\ IsPartial(work'[s].acct, User, Account)
        /\ IsPartial(work'[s].vch, Voucher, VoucherRow)
        /\ work'[s].rows \subseteq TrxRow
        /\ \A t \in Session \ {s} :
             req'[t] = req[t] /\ bal'[t] = bal[t] /\ work'[t] = work[t]
    BY <1>2, <2>8 DEF IInv, TypeOK
  <2> QED
    BY <1>2, <2>7, <2>9, StatementIInv
<1> QED
  BY <1>1, <1>2 DEF LockAccount, Covers

\* A statement that writes row versions: it must have the rows locked, the new
\* versions must be non-negative, and a charge must not be past its check.
LEMMA UpdateIInv ==
  ASSUME IInv, NEW s \in Session, pc[s] # "idle", UNCHANGED <<db, req, bal>>,
         Acquire(s) \/ UNCHANGED locks,
         NEW acct, NEW vch, NEW rows,
         IsPartial(acct, User, Account), IsPartial(vch, Voucher, VoucherRow),
         rows \subseteq TrxRow, Update(s, acct, vch, rows),
         todo' \in [Session -> SUBSET Voucher],
         NEW p \in {"scan", "refund", "audit", "insert", "fk", "commit"}, Goto(s, p),
         p \in {"insert", "commit"} /\ req[s].op \in {"deduct", "issue", "transfer"} =>
           Spending(s),
         p \in {"scan", "refund", "audit"} => req[s].op = "expire",
         p = "fk" => req[s].op = "redeem",
         \A u \in DOMAIN acct :
           /\ acct[u].avail >= 0
           /\ Holds(s, Acct(u), "N")' \/ Holds(s, Acct(u), "X")'
  PROVE  IInv'
<1>1. /\ DOMAIN work' = Session
      /\ \A t \in Session \ {s} : work'[t] = work[t]
      /\ work'[s].acct = Over(acct, work[s].acct)
      /\ IsPartial(work'[s].acct, User, Account)
      /\ IsPartial(work'[s].vch, Voucher, VoucherRow)
      /\ work'[s].rows \subseteq TrxRow
  BY UpdateWork
<1>2. \A u \in User : \A m \in Mode : Holds(s, Acct(u), m) => Holds(s, Acct(u), m)'
  <2>1. \A u \in User : Acct(u) \in Row
    BY DEF Acct, Row
  <2> QED
    BY <2>1, AcquireLocks DEF Holds
<1>3. pc'[s] = p /\ req'[s] = req[s] /\ bal'[s] = bal[s] /\ account' = account
  BY DEF Goto, IInv, TypeOK, db
<1>4. SessionOK(s)
  BY DEF IInv
<1>5. "N" \in Mode /\ "X" \in Mode
  BY DEF Mode
<1>6. ASSUME NEW u \in DOMAIN work'[s].acct
      PROVE  /\ work'[s].acct[u].avail >= 0
             /\ Holds(s, Acct(u), "N")' \/ Holds(s, Acct(u), "X")'
  <2>1. u \in DOMAIN acct \/ (u \notin DOMAIN acct /\ u \in DOMAIN work[s].acct)
    BY <1>1 DEF Over
  <2>2. CASE u \in DOMAIN acct
    BY <1>1, <2>2 DEF Over
  <2>3. CASE u \notin DOMAIN acct /\ u \in DOMAIN work[s].acct
    <3>1. work'[s].acct[u] = work[s].acct[u]
      BY <1>1, <2>3 DEF Over
    <3>2. u \in User
      BY <2>3 DEF IInv, TypeOK, IsPartial
    <3> QED
      BY <1>2, <1>4, <1>5, <2>3, <3>1, <3>2 DEF SessionOK
  <2> QED
    BY <2>1, <2>2, <2>3
<1>7. Spending(s)' => Spending(s)
  BY <1>3 DEF Spending
<1>8. req[s] \in Request /\ req[s].user \in User /\ req[s].to \in User
  BY RequestFields
<1>9. SessionOK(s)'
  BY <1>2, <1>3, <1>4, <1>5, <1>6, <1>7, <1>8 DEF SessionOK
<1>10. /\ bal' \in [Session -> Int] /\ req' \in [Session -> Request \cup {NoRequest}]
       /\ \A t \in Session \ {s} : req'[t] = req[t] /\ bal'[t] = bal[t]
  BY DEF IInv, TypeOK
<1>11. UNCHANGED db
  OBVIOUS
<1> QED
  BY <1>1, <1>9, <1>10, <1>11, StatementIInv

LEMMA WithAvail ==
  ASSUME NEW a \in Account, NEW n \in Int
  PROVE  /\ [a EXCEPT !.avail = n] \in Account
         /\ [a EXCEPT !.avail = n].avail = n
BY DEF Account

\* A single new version, of an account its session has locked.
LEMMA OneVersion ==
  ASSUME NEW s \in Session, NEW u \in User, NEW row \in Account, row.avail >= 0,
         Holds(s, Acct(u), "N")' \/ Holds(s, Acct(u), "X")'
  PROVE  /\ IsPartial(Only(u, row), User, Account)
         /\ \A x \in DOMAIN Only(u, row) :
              /\ Only(u, row)[x].avail >= 0
              /\ Holds(s, Acct(x), "N")' \/ Holds(s, Acct(x), "X")'
<1>1. IsPartial(Only(u, row), User, Account)
  BY SinglePartial
<1>2. ASSUME NEW x \in DOMAIN Only(u, row)
      PROVE  /\ Only(u, row)[x].avail >= 0
             /\ Holds(s, Acct(x), "N")' \/ Holds(s, Acct(x), "X")'
  <2>1. x = u /\ Only(u, row)[x] = row
    BY DEF Only
  <2> QED
    BY <2>1
<1> QED
  BY <1>1, <1>2

LEMMA DeductUpdateIInv ==
  ASSUME IInv, NEW s \in Session, DeductUpdate(s)
  PROVE  IInv'
<1>1. pc[s] = "write" /\ req[s].op = "deduct" /\ Spending(s)
  BY DEF DeductUpdate, At, Spending
<1>2. PICK u \in User : u = req[s].user
  BY <1>1, RequestFields
<1>3. /\ Holds(s, Acct(u), "X") /\ req[s].amount <= account[u].avail
      /\ bal[s] = account[u].avail
  BY <1>1, <1>2 DEF IInv, SessionOK
<1>4. PICK row \in Account :
        row = [Current(s, u) EXCEPT !.avail = bal[s] - req[s].amount]
  <2>1. Current(s, u) \in Account
    BY CurrentAccount
  <2>2. bal[s] - req[s].amount \in Int
    BY <1>1, RequestFields DEF IInv, TypeOK
  <2>3. [Current(s, u) EXCEPT !.avail = bal[s] - req[s].amount] \in Account
    BY <2>1, <2>2, WithAvail
  <2> QED
    BY <2>3
<1>5. row.avail >= 0
  <2>1. bal[s] \in Int /\ req[s].amount \in Int /\ Current(s, u) \in Account
    BY <1>1, RequestFields, CurrentAccount DEF IInv, TypeOK
  <2>2. row.avail = bal[s] - req[s].amount
    BY <1>4, <2>1, WithAvail
  <2> QED
    BY <1>3, <2>1, <2>2
<1>6. /\ Update(s, Only(u, row), Nothing, {}) /\ Goto(s, "insert")
      /\ UNCHANGED <<db, req, bal, todo, locks>>
  BY <1>2, <1>4 DEF DeductUpdate
<1>7. Holds(s, Acct(u), "X")'
  BY <1>3, <1>6 DEF Holds
<1>8. todo' \in [Session -> SUBSET Voucher]
  BY <1>6 DEF IInv, TypeOK
<1> QED
  BY <1>1, <1>5, <1>6, <1>7, <1>8, NothingPartial, OneVersion, UpdateIInv

\* A relative update of an account makes one new version.
LEMMA PlusVersion ==
  ASSUME IInv, NEW s \in Session, NEW u \in User, NEW n \in Int
  PROVE  \E row \in Account : /\ Plus(s, u, n) = Only(u, row)
                             /\ row.avail = Current(s, u).avail + n
<1> DEFINE new == [Current(s, u) EXCEPT !.avail = @ + n]
<1>1. Current(s, u) \in Account
  BY CurrentAccount
<1>2. Current(s, u).avail + n \in Int
  BY <1>1 DEF Account
<1>3. new \in Account /\ new.avail = Current(s, u).avail + n
  BY <1>1, <1>2, WithAvail
<1>4. Plus(s, u, n) = Only(u, new)
  BY DEF Plus
<1> QED
  BY <1>3, <1>4

LEMMA IssueUpdateIInv ==
  ASSUME IInv, NEW s \in Session, IssueUpdate(s)
  PROVE  IInv'
<1>1. pc[s] = "write" /\ req[s].op = "issue" /\ Spending(s)
  BY DEF IssueUpdate, At, Spending
<1>2. PICK u \in User, n \in Nat, v \in Voucher :
        u = req[s].user /\ n = req[s].amount /\ v = req[s].voucher
  BY <1>1, RequestFields
<1>3. /\ Holds(s, Acct(u), "X") /\ n <= account[u].avail
      /\ work[s].acct = Nothing
  BY <1>1, <1>2 DEF IInv, SessionOK
<1>4. Current(s, u) = account[u] /\ account[u] \in Account
  BY <1>3, CurrentAccount DEF IInv, TypeOK
<1>5. account[u].avail \in Int
  BY <1>4 DEF Account
<1>6. PICK row \in Account :
        Plus(s, u, 0 - n) = Only(u, row) /\ row.avail = account[u].avail + (0 - n)
  BY <1>4, PlusVersion
<1>7. row.avail >= 0
  BY <1>3, <1>5, <1>6
<1>8. PICK issued \in VoucherRow :
        issued = [state |-> "issued", user |-> u, amount |-> n]
  BY DEF VoucherRow, VoucherState
<1>9. /\ Update(s, Only(u, row), Only(v, issued), {}) /\ Goto(s, "insert")
      /\ UNCHANGED <<db, req, bal, todo, locks>>
  BY <1>2, <1>6, <1>8 DEF IssueUpdate
<1>10. Holds(s, Acct(u), "X")'
  BY <1>3, <1>9 DEF Holds
<1>11. todo' \in [Session -> SUBSET Voucher]
  BY <1>9 DEF IInv, TypeOK
<1>12. IsPartial(Only(v, issued), Voucher, VoucherRow)
  BY SinglePartial
<1> QED
  BY <1>1, <1>7, <1>9, <1>10, <1>11, <1>12, OneVersion, UpdateIInv

\* Both rows are exclusively locked once the last one is.
LEMMA TransferLockIInv ==
  ASSUME IInv, NEW s \in Session, TransferLock(s)
  PROVE  IInv'
<1> DEFINE r == req[s]
           last == Unlocked(s) = LockOrder(s)
<1>1. pc[s] = "lock" /\ r.op = "transfer"
  BY DEF TransferLock, At
<1>2. CASE Rollback(s)
  BY <1>2, RollbackIInv
<1>3. CASE /\ {r.user, r.to} \subseteq open /\ Acquire(s)
           /\ last => r.amount <= account[r.user].avail
           /\ Goto(s, IF last THEN "write" ELSE "lock")
           /\ UNCHANGED <<db, req, bal, todo, work>>
  <2>1. NextLock(s) = {<<Acct(u), "X">> : u \in LockOrder(s)}
    <3>1. NextLock(s) = UNION {ForUpdate(Acct(u)) : u \in LockOrder(s)}
      BY <1>1, <1>3 DEF NextLock
    <3> QED
      BY <3>1 DEF ForUpdate
  <2>2. \A u \in User : \A m \in Mode : Holds(s, Acct(u), m) => m = "X"
    BY <1>1 DEF IInv, SessionOK
  <2>3. \A u \in User : Acct(u) \in Row
    BY DEF Acct, Row
  <2>4. \A u \in User : \A m \in Mode : Holds(s, Acct(u), m)' => m = "X"
    BY <1>3, <2>1, <2>2, <2>3, AcquireLocks
  <2>5. r.user \in User /\ r.to \in User /\ r \in Request
    BY <1>1, RequestFields
  <2>6. ASSUME last, NEW u \in User, u \in {r.user, r.to}
        PROVE  Holds(s, Acct(u), "X")'
    <3>1. "X" \in Mode
      BY DEF Mode
    <3>2. CASE Acct(u) \in Held(s)
      <4>1. Holds(s, Acct(u), "X")
        BY <2>2, <3>2 DEF Held, Holds
      <4> QED
        BY <1>3, <2>3, <3>1, <4>1, AcquireLocks
    <3>3. CASE Acct(u) \notin Held(s)
      <4>1. u \in LockOrder(s)
        BY <2>6, <3>3 DEF Unlocked
      <4>2. <<Acct(u), "X">> \in NextLock(s)
        BY <2>1, <4>1
      <4> QED
        BY <1>3, <2>3, <3>1, <4>2, AcquireLocks
    <3> QED
      BY <3>2, <3>3
  <2>7. /\ pc'[s] = IF last THEN "write" ELSE "lock"
        /\ req'[s] = r /\ work'[s] = work[s] /\ account' = account
    BY <1>3 DEF Goto, db, IInv, TypeOK
  <2>8. work[s].acct = Nothing /\ DOMAIN Nothing = {}
    BY <1>1 DEF IInv, SessionOK, Nothing
  <2>9. last => Holds(s, Acct(r.user), "X")' /\ Holds(s, Acct(r.to), "X")'
    <3>1. PICK u \in User, w \in User : u = r.user /\ w = r.to
      BY <2>5
    <3>2. last => Holds(s, Acct(u), "X")' /\ Holds(s, Acct(w), "X")'
      BY <2>6, <3>1
    <3>3. r.user = u /\ r.to = w /\ req'[s].user = u /\ req'[s].to = w
      BY <2>7, <3>1
    <3> QED
      BY <3>2, <3>3 DEF Holds, Acct
  <2>10. SessionOK(s)'
    BY <1>1, <1>3, <2>4, <2>5, <2>7, <2>8, <2>9 DEF SessionOK, Spending
  <2>11. /\ bal' \in [Session -> Int] /\ req' \in [Session -> Request \cup {NoRequest}]
         /\ todo' \in [Session -> SUBSET Voucher]
         /\ DOMAIN work' = Session
         /\ IsPartial(work'[s].acct, User, Account)
         /\ IsPartial(work'[s].vch, Voucher, VoucherRow)
         /\ work'[s].rows \subseteq TrxRow
         /\ \A t \in Session \ {s} :
              req'[t] = req[t] /\ bal'[t] = bal[t] /\ work'[t] = work[t]
    BY <1>3 DEF IInv, TypeOK
  <2>12. \E p \in {"lock", "write"} : Goto(s, p)
    BY <1>3
  <2> QED
    BY <1>3, <2>10, <2>11, <2>12, StatementIInv
<1> QED
  BY <1>2, <1>3 DEF TransferLock, Covers

LEMMA TransferUpdateIInv ==
  ASSUME IInv, NEW s \in Session, TransferUpdate(s)
  PROVE  IInv'
<1>1. pc[s] = "write" /\ req[s].op = "transfer" /\ Spending(s)
  BY DEF TransferUpdate, At, Spending
<1>2. PICK u \in User, w \in User, n \in Nat :
        u = req[s].user /\ w = req[s].to /\ n = req[s].amount
  BY <1>1, RequestFields
<1>3. /\ Holds(s, Acct(u), "X") /\ Holds(s, Acct(w), "X") /\ n <= account[u].avail
      /\ work[s].acct = Nothing
  BY <1>1, <1>2 DEF IInv, SessionOK
<1>4. /\ Current(s, u) = account[u] /\ account[u] \in Account
      /\ Current(s, w) = account[w] /\ account[w] \in Account /\ account[w].avail >= 0
  BY <1>3, CurrentAccount DEF IInv, TypeOK
<1>5. /\ account[u].avail \in Int /\ account[w].avail \in Int
  BY <1>4 DEF Account
<1>6. PICK debit \in Account :
        Plus(s, u, 0 - n) = Only(u, debit) /\ debit.avail = account[u].avail + (0 - n)
  BY <1>4, PlusVersion
<1>7. PICK credit \in Account :
        Plus(s, w, n) = Only(w, credit) /\ credit.avail = account[w].avail + n
  BY <1>4, PlusVersion
<1>8. debit.avail >= 0 /\ credit.avail >= 0
  BY <1>3, <1>4, <1>5, <1>6, <1>7
<1>9. /\ Update(s, Over(Only(u, debit), Only(w, credit)), Nothing, {})
      /\ Goto(s, "insert") /\ UNCHANGED <<db, req, bal, todo, locks>>
  BY <1>2, <1>6, <1>7 DEF TransferUpdate
<1>10. Holds(s, Acct(u), "X")' /\ Holds(s, Acct(w), "X")'
  BY <1>3, <1>9 DEF Holds
<1>11. IsPartial(Over(Only(u, debit), Only(w, credit)), User, Account)
  BY SinglePartial, OverlayPartial
<1>12. ASSUME NEW x \in DOMAIN Over(Only(u, debit), Only(w, credit))
       PROVE  /\ Over(Only(u, debit), Only(w, credit))[x].avail >= 0
              /\ Holds(s, Acct(x), "N")' \/ Holds(s, Acct(x), "X")'
  <2>1. \/ x = u /\ Over(Only(u, debit), Only(w, credit))[x] = debit
        \/ x = w /\ Over(Only(u, debit), Only(w, credit))[x] = credit
    BY DEF Over, Only
  <2> QED
    BY <1>8, <1>10, <2>1
<1>13. todo' \in [Session -> SUBSET Voucher]
  BY <1>9 DEF IInv, TypeOK
<1> QED
  BY <1>1, <1>9, <1>11, <1>12, <1>13, NothingPartial, UpdateIInv

LEMMA RewardUpdateIInv ==
  ASSUME IInv, NEW s \in Session, RewardUpdate(s)
  PROVE  IInv'
<1>1. pc[s] = "lock" /\ req[s].op = "reward"
  BY DEF RewardUpdate, At
<1>2. PICK u \in User, n \in Nat : u = req[s].user /\ n = req[s].amount
  BY <1>1, RequestFields
<1>3. CASE Rollback(s)
  BY <1>3, RollbackIInv
<1>4. CASE u \in open /\ ~Rollback(s)
  <2>1. Current(s, u) \in Account /\ Current(s, u).avail >= 0
    BY CurrentAccount
  <2>2. /\ Current(s, u).limit \in Int /\ Current(s, u).avail \in Int
    BY <2>1 DEF Account
  <2>3. PICK row \in Account :
          /\ row = [limit |-> Current(s, u).limit + n, avail |-> Current(s, u).avail + n]
          /\ row.avail = Current(s, u).avail + n
    <3> DEFINE new == [limit |-> Current(s, u).limit + n, avail |-> Current(s, u).avail + n]
    <3>1. Current(s, u).limit + n \in Int /\ Current(s, u).avail + n \in Int
      BY <2>2
    <3>2. new \in Account
      BY <3>1 DEF Account
    <3>3. new.avail = Current(s, u).avail + n
      OBVIOUS
    <3> QED
      BY <3>2, <3>3
  <2>4. row.avail >= 0
    BY <2>1, <2>2, <2>3
  <2>5. /\ Acquire(s) /\ Update(s, Only(u, row), Nothing, {}) /\ Goto(s, "insert")
        /\ UNCHANGED <<db, req, bal, todo>>
    BY <1>2, <1>4, <2>3 DEF RewardUpdate
  <2>6. NextLock(s) = {<<Acct(u), "N">>}
    BY <1>1, <1>2, <1>4 DEF NextLock
  <2>7. Holds(s, Acct(u), "N")'
    BY <2>5, <2>6, AcquireLocks DEF Acct, Row, Mode
  <2>8. todo' \in [Session -> SUBSET Voucher]
    BY <2>5 DEF IInv, TypeOK
  <2> QED
    BY <1>1, <2>4, <2>5, <2>7, <2>8, NothingPartial, OneVersion, UpdateIInv
<1> QED
  BY <1>2, <1>3, <1>4 DEF RewardUpdate

LEMMA RedeemLockIInv ==
  ASSUME IInv, NEW s \in Session, RedeemLock(s)
  PROVE  IInv'
<1>1. pc[s] = "lock" /\ req[s].op = "redeem"
  BY DEF RedeemLock, At
<1>2. CASE Rollback(s)
  BY <1>2, RollbackIInv
<1>3. CASE Acquire(s) /\ Goto(s, "write") /\ UNCHANGED <<db, req, bal, todo, work>>
  <2>1. /\ pc'[s] = "write" /\ req'[s] = req[s] /\ work'[s] = work[s]
        /\ account' = account
    BY <1>3 DEF Goto, db, IInv, TypeOK
  <2>2. work[s].acct = Nothing /\ DOMAIN Nothing = {} /\ req[s] \in Request
    BY <1>1 DEF IInv, SessionOK, Nothing
  <2>3. SessionOK(s)'
    BY <1>1, <2>1, <2>2 DEF SessionOK, Spending
  <2>4. /\ bal' \in [Session -> Int] /\ req' \in [Session -> Request \cup {NoRequest}]
        /\ todo' \in [Session -> SUBSET Voucher]
        /\ DOMAIN work' = Session
        /\ IsPartial(work'[s].acct, User, Account)
        /\ IsPartial(work'[s].vch, Voucher, VoucherRow)
        /\ work'[s].rows \subseteq TrxRow
        /\ \A t \in Session \ {s} :
             req'[t] = req[t] /\ bal'[t] = bal[t] /\ work'[t] = work[t]
    BY <1>3 DEF IInv, TypeOK
  <2> QED
    BY <1>3, <2>3, <2>4, StatementIInv
<1> QED
  BY <1>2, <1>3 DEF RedeemLock

LEMMA WithState ==
  ASSUME NEW row \in VoucherRow, NEW st \in VoucherState
  PROVE  [row EXCEPT !.state = st] \in VoucherRow
BY DEF VoucherRow

LEMMA RedeemUpdateIInv ==
  ASSUME IInv, NEW s \in Session, RedeemUpdate(s)
  PROVE  IInv'
<1>1. pc[s] = "write" /\ req[s].op = "redeem"
  BY DEF RedeemUpdate, At
<1>2. PICK v \in Voucher : v = req[s].voucher
  BY <1>1, RequestFields
<1>3. PICK row \in VoucherRow : row = [voucher[v] EXCEPT !.state = "redeemed"]
  BY WithState DEF IInv, TypeOK, VoucherState
<1>4. /\ Update(s, Nothing, Only(v, row), {}) /\ Goto(s, "insert")
      /\ UNCHANGED <<db, req, bal, todo, locks>>
  BY <1>2, <1>3 DEF RedeemUpdate
<1>5. IsPartial(Nothing, User, Account) /\ IsPartial(Only(v, row), Voucher, VoucherRow)
  BY NothingPartial, SinglePartial
<1>6. DOMAIN Nothing = {}
  BY DEF Nothing
<1>7. todo' \in [Session -> SUBSET Voucher]
  BY <1>4 DEF IInv, TypeOK
<1> QED
  BY <1>1, <1>4, <1>5, <1>6, <1>7, UpdateIInv

\* The codes the store derives: what they are made of can be read back.
LEMMA CodesAre ==
  /\ \A c \in Code : OutCode(c) \in Code /\ InCode(c) \in Code
  /\ \A v \in Voucher : IssueCode(v) \in Code /\ ExpireCode(v) \in Code
  /\ \A v, w : IssueCode(v) = IssueCode(w) => v = w
  /\ \A v, w : ExpireCode(v) = ExpireCode(w) => v = w
<1>1. OutWord \in Int /\ InWord \in Int /\ IssueWord \in Int /\ ExpireWord \in Int
  BY DEF OutWord, InWord, IssueWord, ExpireWord
<1>2. \A v \in Voucher : v \in Int
  BY DataAssumption
<1>3. \A c \in Code : OutCode(c) \in Code /\ InCode(c) \in Code
  BY <1>1 DEF OutCode, InCode, Code
<1>4. \A v \in Voucher : IssueCode(v) \in Code /\ ExpireCode(v) \in Code
  BY <1>1, <1>2 DEF IssueCode, ExpireCode, Code
<1>5. \A v, w : IssueCode(v) = IssueCode(w) => v = w
  BY DEF IssueCode
<1>6. \A v, w : ExpireCode(v) = ExpireCode(w) => v = w
  BY DEF ExpireCode
<1> QED
  BY <1>3, <1>4, <1>5, <1>6

LEMMA NewRowsType ==
  ASSUME IInv, NEW s \in Session, pc[s] # "idle"
  PROVE  NewRows(s) \subseteq TrxRow
<1>1. /\ req[s].user \in User /\ req[s].to \in User /\ req[s].amount \in Nat
      /\ req[s].voucher \in Voucher /\ req[s].code \in Code
  BY RequestFields
<1>2. /\ voucher[req[s].voucher].user \in User
      /\ voucher[req[s].voucher].amount \in Nat
  BY <1>1 DEF IInv, TypeOK, VoucherRow
<1>3. ASSUME NEW k \in Kind, NEW c \in Code, NEW u \in User, NEW n \in Nat
      PROVE  Trx(k, c, u, n) \in TrxRow
  BY DEF Trx, TrxRow
<1>4. {"deduct", "out", "in", "reward", "issue", "redeem"} \subseteq Kind
  BY DEF Kind
<1>5. /\ OutCode(req[s].code) \in Code /\ InCode(req[s].code) \in Code
      /\ IssueCode(req[s].voucher) \in Code
  BY <1>1, CodesAre
<1>6. DeductRow(req[s]) \in TrxRow /\ RewardRow(req[s]) \in TrxRow
  BY <1>1, <1>3, <1>4, <1>5 DEF DeductRow, RewardRow
<1>7. IssueRow(req[s]) \in TrxRow /\ RedeemRow(req[s], voucher[req[s].voucher]) \in TrxRow
  BY <1>1, <1>2, <1>3, <1>4, <1>5 DEF IssueRow, RedeemRow
<1>8. TransferRows(req[s]) \subseteq TrxRow
  BY <1>1, <1>3, <1>4, <1>5 DEF TransferRows
<1> QED
  BY <1>6, <1>7, <1>8 DEF NewRows

LEMMA InsertTrxIInv ==
  ASSUME IInv, NEW s \in Session, InsertTrx(s)
  PROVE  IInv'
<1>1. pc[s] = "insert" /\ Inserts(s) = NewRows(s)
  BY DEF InsertTrx, Inserts
<1>2. CASE Rollback(s)
  BY <1>2, RollbackIInv
<1>3. CASE /\ Update(s, Nothing, Nothing, NewRows(s))
           /\ Goto(s, IF req[s].op = "redeem" THEN "fk" ELSE "commit")
           /\ UNCHANGED <<db, req, bal, todo, locks>>
  <2>1. NewRows(s) \subseteq TrxRow
    BY <1>1, NewRowsType
  <2>2. IsPartial(Nothing, User, Account) /\ IsPartial(Nothing, Voucher, VoucherRow)
    BY NothingPartial
  <2>3. DOMAIN Nothing = {}
    BY DEF Nothing
  <2>4. todo' \in [Session -> SUBSET Voucher]
    BY <1>3 DEF IInv, TypeOK
  <2>5. req[s].op \in {"deduct", "issue", "transfer"} => Spending(s)
    BY <1>1 DEF Spending
  <2>6. PICK p \in {"fk", "commit"} : p = IF req[s].op = "redeem" THEN "fk" ELSE "commit"
    OBVIOUS
  <2>7. Goto(s, p) /\ (p = "fk" => req[s].op = "redeem")
    BY <1>3, <2>6
  <2>8. PICK rows : rows = NewRows(s)
    OBVIOUS
  <2> QED
    BY <1>1, <1>3, <2>1, <2>2, <2>3, <2>4, <2>5, <2>6, <2>7, <2>8, UpdateIInv
<1> QED
  BY <1>2, <1>3 DEF InsertTrx

LEMMA ForeignKeyIInv ==
  ASSUME IInv, NEW s \in Session, ForeignKey(s)
  PROVE  IInv'
<1>1. /\ pc[s] = "fk" /\ Acquire(s) /\ Goto(s, "commit")
      /\ UNCHANGED <<db, req, bal, todo, work>>
  BY DEF ForeignKey
<1>2. /\ pc'[s] = "commit" /\ req'[s] = req[s] /\ work'[s] = work[s]
      /\ account' = account /\ req[s].op = "redeem" /\ req[s] \in Request
  BY <1>1 DEF Goto, db, IInv, TypeOK, SessionOK
<1>3. ASSUME NEW u \in DOMAIN work[s].acct
      PROVE  Holds(s, Acct(u), "N")' \/ Holds(s, Acct(u), "X")'
  <2>1. u \in User /\ (Holds(s, Acct(u), "N") \/ Holds(s, Acct(u), "X"))
    BY DEF IInv, TypeOK, IsPartial, SessionOK
  <2>2. Acct(u) \in Row /\ "N" \in Mode /\ "X" \in Mode
    BY <2>1 DEF Acct, Row, Mode
  <2> QED
    BY <1>1, <2>1, <2>2, AcquireLocks
<1>4. SessionOK(s)'
  BY <1>2, <1>3 DEF IInv, SessionOK, Spending
<1>5. /\ bal' \in [Session -> Int] /\ req' \in [Session -> Request \cup {NoRequest}]
      /\ todo' \in [Session -> SUBSET Voucher]
      /\ DOMAIN work' = Session
      /\ IsPartial(work'[s].acct, User, Account)
      /\ IsPartial(work'[s].vch, Voucher, VoucherRow)
      /\ work'[s].rows \subseteq TrxRow
      /\ \A t \in Session \ {s} :
           req'[t] = req[t] /\ bal'[t] = bal[t] /\ work'[t] = work[t]
  BY <1>1 DEF IInv, TypeOK
<1> QED
  BY <1>1, <1>4, <1>5, StatementIInv

LEMMA ExpireScanIInv ==
  ASSUME IInv, NEW s \in Session, ExpireScan(s)
  PROVE  IInv'
<1>1. /\ pc[s] = "lock" /\ req[s].op = "expire"
      /\ todo' = [todo EXCEPT ![s] = Due]
      /\ Goto(s, IF Due = {} THEN "commit" ELSE "scan")
      /\ UNCHANGED <<db, req, bal, work, locks>>
  BY DEF ExpireScan, At
<1>2. PICK p \in {"scan", "commit"} : Goto(s, p)
  BY <1>1
<1>3. Due \in SUBSET Voucher
  BY DEF Due, IInv, TypeOK, Clock
<1>4. /\ pc'[s] = p /\ req'[s] = req[s] /\ work'[s] = work[s] /\ account' = account
  BY <1>1, <1>2 DEF Goto, db, IInv, TypeOK
<1>5. work[s].acct = Nothing /\ DOMAIN Nothing = {} /\ req[s] \in Request
  BY <1>1 DEF IInv, SessionOK, Nothing
<1>6. SessionOK(s)'
  BY <1>1, <1>4, <1>5 DEF SessionOK, Spending
<1>7. /\ bal' \in [Session -> Int] /\ req' \in [Session -> Request \cup {NoRequest}]
      /\ todo' \in [Session -> SUBSET Voucher]
      /\ DOMAIN work' = Session
      /\ IsPartial(work'[s].acct, User, Account)
      /\ IsPartial(work'[s].vch, Voucher, VoucherRow)
      /\ work'[s].rows \subseteq TrxRow
      /\ \A t \in Session \ {s} :
           req'[t] = req[t] /\ bal'[t] = bal[t] /\ work'[t] = work[t]
  BY <1>1, <1>3 DEF IInv, TypeOK
<1> QED
  BY <1>1, <1>2, <1>6, <1>7, StatementIInv

LEMMA ExpireUpdateIInv ==
  ASSUME IInv, NEW s \in Session, ExpireUpdate(s)
  PROVE  IInv'
<1>1. /\ pc[s] = "scan" /\ Acquire(s) /\ UNCHANGED <<db, req, bal>>
      /\ req[s].op = "expire"
  BY DEF ExpireUpdate, IInv, SessionOK
<1>2. PICK v \in First(todo[s]) :
        LET left == todo[s] \ {v}
            hit == Recheck(v)
            all == hit \cup DOMAIN work[s].vch
        IN  /\ Update(s, Nothing,
                      [x \in hit |-> [voucher[x] EXCEPT !.state = "expired"]], {})
            /\ todo' = [todo EXCEPT ![s] = IF left = {} THEN all ELSE left]
            /\ Goto(s, IF left # {} THEN "scan"
                       ELSE IF all = {} THEN "commit" ELSE "refund")
  BY DEF ExpireUpdate
<1>3. v \in Voucher /\ todo[s] \subseteq Voucher
  BY <1>2 DEF First, IInv, TypeOK
<1>4. PICK hit \in SUBSET Voucher : hit = Recheck(v)
  BY <1>3 DEF Recheck
<1>5. PICK vch : vch = [x \in hit |-> [voucher[x] EXCEPT !.state = "expired"]]
  OBVIOUS
<1>6. IsPartial(vch, Voucher, VoucherRow)
  <2>1. \A x \in hit : [voucher[x] EXCEPT !.state = "expired"] \in VoucherRow
    BY <1>4, WithState DEF IInv, TypeOK, VoucherState
  <2> QED
    BY <1>4, <1>5, <2>1 DEF IsPartial
<1>7. PICK p \in {"scan", "refund", "commit"} : Goto(s, p)
  BY <1>2
<1>8. Update(s, Nothing, vch, {})
  BY <1>2, <1>4, <1>5
<1>9. todo' \in [Session -> SUBSET Voucher]
  <2>1. DOMAIN work[s].vch \subseteq Voucher
    BY DEF IInv, TypeOK, IsPartial
  <2>2. PICK next \in SUBSET Voucher : todo' = [todo EXCEPT ![s] = next]
    BY <1>2, <1>3, <1>4, <2>1
  <2> QED
    BY <2>2 DEF IInv, TypeOK
<1>10. IsPartial(Nothing, User, Account) /\ DOMAIN Nothing = {}
  BY NothingPartial DEF Nothing
<1> QED
  BY <1>1, <1>6, <1>7, <1>8, <1>9, <1>10, UpdateIInv

LEMMA ExpireRefundIInv ==
  ASSUME IInv, NEW s \in Session, ExpireRefund(s)
  PROVE  IInv'
<1>1. /\ pc[s] = "refund" /\ Acquire(s) /\ Goto(s, "audit") /\ UNCHANGED <<db, req, bal, todo>>
      /\ req[s].op = "expire"
  BY DEF ExpireRefund, IInv, SessionOK
<1>2. PICK v \in First(todo[s]) :
        Update(s, Plus(s, voucher[v].user, voucher[v].amount), Nothing, {})
  BY DEF ExpireRefund
<1>3. v \in Voucher
  BY <1>2 DEF First, IInv, TypeOK
<1>4. PICK u \in User, n \in Nat : u = voucher[v].user /\ n = voucher[v].amount
  BY <1>3 DEF IInv, TypeOK, VoucherRow
<1>5. PICK row \in Account :
        Plus(s, u, n) = Only(u, row) /\ row.avail = Current(s, u).avail + n
  BY PlusVersion
<1>6. row.avail >= 0
  <2>1. Current(s, u).avail \in Int /\ Current(s, u).avail >= 0
    BY CurrentAccount DEF Account
  <2> QED
    BY <1>5, <2>1
<1>7. Update(s, Only(u, row), Nothing, {})
  BY <1>2, <1>4, <1>5
<1>8. Holds(s, Acct(u), "N")'
  <2>1. <<Acct(u), "N">> \in NextLock(s)
    BY <1>1, <1>2, <1>4 DEF NextLock
  <2> QED
    BY <1>1, <2>1, AcquireLocks DEF Acct, Row, Mode
<1>9. todo' \in [Session -> SUBSET Voucher]
  BY <1>1 DEF IInv, TypeOK
<1> QED
  BY <1>1, <1>6, <1>7, <1>8, <1>9, NothingPartial, OneVersion, UpdateIInv

LEMMA AuditRowType ==
  ASSUME IInv, NEW v \in Voucher
  PROVE  ExpireRow(v, voucher[v]) \in TrxRow
<1>1. voucher[v].user \in User /\ voucher[v].amount \in Nat
  BY DEF IInv, TypeOK, VoucherRow
<1>2. ExpireCode(v) \in Code /\ "expire" \in Kind
  BY CodesAre DEF Kind
<1> QED
  BY <1>1, <1>2 DEF ExpireRow, Trx, TrxRow

LEMMA ExpireAuditIInv ==
  ASSUME IInv, NEW s \in Session, ExpireAudit(s)
  PROVE  IInv'
<1>1. pc[s] = "audit" /\ req[s].op = "expire" /\ todo[s] \subseteq Voucher
  BY DEF ExpireAudit, IInv, SessionOK, TypeOK
<1>2. CASE Rollback(s)
  BY <1>2, RollbackIInv
<1>3. CASE ~Rollback(s)
  <2>1. Update(s, Nothing, Nothing, Inserts(s)) /\ UNCHANGED <<db, req, bal, locks>>
    BY <1>3 DEF ExpireAudit
  <2>2. PICK v \in First(todo[s]) :
          /\ todo' = [todo EXCEPT ![s] = todo[s] \ {v}]
          /\ Goto(s, IF todo[s] \ {v} = {} THEN "commit" ELSE "refund")
    BY <1>3 DEF ExpireAudit
  <2>3. PICK p \in {"refund", "commit"} : Goto(s, p)
    BY <2>2
  <2>4. PICK rows \in SUBSET TrxRow : rows = Inserts(s)
    <3>1. Inserts(s) = {ExpireRow(v1, voucher[v1]) : v1 \in First(todo[s])}
      BY <1>1 DEF Inserts
    <3>2. First(todo[s]) \subseteq Voucher
      BY <1>1 DEF First
    <3> QED
      BY <3>1, <3>2, AuditRowType
  <2>5. todo' \in [Session -> SUBSET Voucher]
    BY <2>2 DEF IInv, TypeOK
  <2>6. IsPartial(Nothing, User, Account) /\ IsPartial(Nothing, Voucher, VoucherRow)
    BY NothingPartial
  <2>7. DOMAIN Nothing = {}
    BY DEF Nothing
  <2> QED
    BY <1>1, <2>1, <2>3, <2>4, <2>5, <2>6, <2>7, UpdateIInv
<1> QED
  BY <1>2, <1>3

(***************************************************************************)
(* Steps outside the transactions, and the theorems.                       *)
(***************************************************************************)
LEMMA BeginIInv ==
  ASSUME IInv, NEW s \in Session, NEW r \in Request, Begin(s, r)
  PROVE  IInv'
<1>1. /\ pc[s] = "idle" /\ Goto(s, "lock")
      /\ req' = [req EXCEPT ![s] = r]
      /\ UNCHANGED <<db, bal, todo, work, locks>>
  BY DEF Begin, Goto
<1>2. req' \in [Session -> Request \cup {NoRequest}]
  BY <1>1 DEF IInv, TypeOK
<1>3. pc'[s] = "lock" /\ req'[s] = r
  BY <1>1 DEF Goto, IInv, TypeOK
<1>4. work[s].acct = Nothing /\ \A x \in Row : \A m \in Mode : ~Holds(s, x, m)
  BY <1>1 DEF IInv, SessionOK
<1>5. DOMAIN Nothing = {} /\ \A u \in User : Acct(u) \in Row
  BY DEF Nothing, Acct, Row
<1>6. work' = work /\ locks' = locks
  BY <1>1
<1>7. SessionOK(s)'
  BY <1>3, <1>4, <1>5, <1>6 DEF SessionOK, Spending, Holds
<1>8. \A t \in Session \ {s} :
        req'[t] = req[t] /\ bal'[t] = bal[t] /\ work'[t] = work[t]
  BY <1>1
<1>9. /\ bal' \in [Session -> Int] /\ todo' \in [Session -> SUBSET Voucher]
      /\ DOMAIN work' = Session
      /\ IsPartial(work'[s].acct, User, Account)
      /\ IsPartial(work'[s].vch, Voucher, VoucherRow)
      /\ work'[s].rows \subseteq TrxRow
  BY <1>1 DEF IInv, TypeOK
<1> QED
  BY <1>1, <1>2, <1>7, <1>8, <1>9, StatementIInv

\* A deposit overwrites only an account nobody has locked.
LEMMA DepositIInv ==
  ASSUME IInv, NEW r \in Request, Deposit(r)
  PROVE  IInv'
<1>1. r.user \in User /\ r.amount \in Nat /\ r.amount >= 0
  BY DataAssumption DEF RequestType
<1>2. PICK u \in User, n \in Nat : u = r.user /\ n = r.amount
  BY <1>1
<1>3. Grant(n) \in Account /\ Grant(n).avail >= 0
  BY DEF Grant, Account
<1>4. /\ open' = open \cup {u}
      /\ account' = [account EXCEPT ![u] = Grant(n)]
      /\ before' = [before EXCEPT ![u] = trx]
      /\ UNCHANGED <<voucher, trx, lapsed, pc, req, bal, todo, work, locks>>
      /\ \A s \in Session : ~Holds(s, Acct(u), "X")
  BY <1>2 DEF Deposit, Holds
<1>5. TypeOK'
  <2>1. open' \subseteq User /\ account' \in [User -> Account]
    BY <1>3, <1>4 DEF IInv, TypeOK
  <2>2. before' \in [User -> SUBSET TrxRow]
    BY <1>4 DEF IInv, TypeOK
  <2> QED
    BY <1>4, <2>1, <2>2 DEF IInv, TypeOK
<1>6. NoNegativeCredit'
  <2>1. \A x \in User : account'[x] = IF x = u THEN Grant(n) ELSE account[x]
    BY <1>4 DEF IInv, TypeOK
  <2> QED
    BY <1>3, <2>1 DEF IInv, NoNegativeCredit
<1>7. LocksExclude'
  BY <1>4 DEF IInv, LocksExclude, Holds
<1>8. ASSUME NEW t \in Session PROVE SessionOK(t)'
  <2>1. \A x \in User : Holds(t, Acct(x), "X") => account'[x] = account[x]
    BY <1>4 DEF IInv, TypeOK
  <2>2. \A x \in Row : \A m \in Mode : Holds(t, x, m)' = Holds(t, x, m)
    BY <1>4 DEF Holds
  <2>3. pc'[t] = pc[t] /\ req'[t] = req[t] /\ bal'[t] = bal[t] /\ work'[t] = work[t]
    BY <1>4
  <2> QED
    BY <2>1, <2>2, <2>3, Untouched
<1> QED
  BY <1>5, <1>6, <1>7, <1>8 DEF IInv

LEMMA LapseIInv ==
  ASSUME IInv, NEW c \in Clock, NEW v \in Voucher, Lapse(c, v)
  PROVE  IInv'
<1>1. /\ lapsed' \in [Clock -> SUBSET Voucher]
      /\ UNCHANGED <<open, account, voucher, trx, before, pc, req, bal, todo, work, locks>>
  BY DEF Lapse, IInv, TypeOK
<1> QED
  BY <1>1 DEF IInv, TypeOK, NoNegativeCredit, LocksExclude, SessionOK, Spending, Holds

LEMMA StepIInv ==
  ASSUME IInv, NEW s \in Session, Step(s)
  PROVE  IInv'
<1>1. ASSUME At(s, "lock", "deduct") \/ At(s, "lock", "issue"), LockAccount(s)
      PROVE  IInv'
  BY <1>1, LockAccountIInv DEF At
<1>2. CASE DeductLock(s)
  BY <1>1, <1>2 DEF DeductLock
<1>3. CASE IssueLock(s)
  BY <1>1, <1>3 DEF IssueLock
<1>4. CASE DeductUpdate(s)
  BY <1>4, DeductUpdateIInv
<1>5. CASE IssueUpdate(s)
  BY <1>5, IssueUpdateIInv
<1>6. CASE TransferLock(s)
  BY <1>6, TransferLockIInv
<1>7. CASE TransferUpdate(s)
  BY <1>7, TransferUpdateIInv
<1>8. CASE RewardUpdate(s)
  BY <1>8, RewardUpdateIInv
<1>9. CASE RedeemLock(s)
  BY <1>9, RedeemLockIInv
<1>10. CASE RedeemUpdate(s)
  BY <1>10, RedeemUpdateIInv
<1>11. CASE ExpireScan(s)
  BY <1>11, ExpireScanIInv
<1>12. CASE ExpireUpdate(s)
  BY <1>12, ExpireUpdateIInv
<1>13. CASE ExpireRefund(s)
  BY <1>13, ExpireRefundIInv
<1>14. CASE InsertTrx(s)
  BY <1>14, InsertTrxIInv
<1>15. CASE ForeignKey(s)
  BY <1>15, ForeignKeyIInv
<1>16. CASE Commit(s)
  BY <1>16, CommitIInv
<1>17. CASE ExpireAudit(s)
  BY <1>17, ExpireAuditIInv
<1> QED
  BY <1>2, <1>3, <1>4, <1>5, <1>6, <1>7, <1>8, <1>9, <1>10, <1>11, <1>12, <1>13,
     <1>14, <1>15, <1>16, <1>17 DEF Step

LEMMA NextIInv == IInv /\ [Next]_vars => IInv'
<1> SUFFICES ASSUME IInv, [Next]_vars PROVE IInv'
  OBVIOUS
<1>1. ASSUME NEW s \in Session, NEW r \in Request, Begin(s, r) PROVE IInv'
  BY <1>1, BeginIInv
<1>2. ASSUME NEW s \in Session, Step(s) PROVE IInv'
  BY <1>2, StepIInv
<1>3. ASSUME NEW s \in Session, Fail(s) PROVE IInv'
  BY <1>3, RollbackIInv DEF Fail
<1>4. ASSUME NEW s \in Session, AbortVictim(s) PROVE IInv'
  BY <1>4, RollbackIInv DEF AbortVictim
<1>5. ASSUME NEW r \in Request, Deposit(r) PROVE IInv'
  BY <1>5, DepositIInv
<1>6. ASSUME NEW c \in Clock, NEW v \in Voucher, Lapse(c, v) PROVE IInv'
  BY <1>6, LapseIInv
<1>7. CASE UNCHANGED vars
  BY <1>7 DEF vars, db, IInv, TypeOK, NoNegativeCredit, LocksExclude, SessionOK,
              Spending, Holds
<1> QED
  BY <1>1, <1>2, <1>3, <1>4, <1>5, <1>6, <1>7 DEF Next

\* The inductive invariant holds of every reachable state.
THEOREM InductiveInvariant == Spec => []IInv
<1>1. Init => IInv
  BY InitIInv
<1>2. IInv /\ [Next]_vars => IInv'
  BY NextIInv
<1> QED
  BY <1>1, <1>2, PTL DEF Spec

\* Every variable of the store keeps its shape, whatever the instance.
THEOREM TypeCorrect == Spec => []TypeOK
<1>1. IInv => TypeOK
  BY DEF IInv
<1> QED
  BY <1>1, InductiveInvariant, PTL

\* No interleaving of Deduct, TransferCredit, CreditNodeReward, IssueVoucher,
\* RedeemVoucher, ExpireVouchers and Deposit commits a negative balance.
THEOREM CreditNeverNegative == Spec => []NoNegativeCredit
<1>1. IInv => NoNegativeCredit
  BY DEF IInv
<1> QED
  BY <1>1, InductiveInvariant, PTL

\* The balance Deduct or IssueVoucher read FOR UPDATE is still the committed
\* one at every later statement of its transaction.
THEOREM NoLostUpdate == Spec => []BalanceReadIsCurrent
<1>1. IInv => BalanceReadIsCurrent
  BY DEF IInv, SessionOK, Spending, BalanceReadIsCurrent
<1> QED
  BY <1>1, InductiveInvariant, PTL

(***************************************************************************)
(* Sums over rows and vouchers.                                            *)
(***************************************************************************)
LEMMA AmountsAreSum ==
  ASSUME NEW S, IsFiniteSet(S), NEW f, \A v \in S : f[v].amount \in Int
  PROVE  MapThenSumSet(LAMBDA v : f[v].amount, S) =
           SumFunctionOnSet([v \in S |-> f[v].amount], S)
<1> DEFINE g == [v \in S |-> f[v].amount]
           Runs(h) == h = [s \in SUBSET S |->
                             IF s = {} THEN 0 ELSE f[Pick(s)].amount + h[s \ {Pick(s)}]]
           k == CHOOSE h : Runs(h)
<1>1. Integers(g, S) /\ \A x \in S : g[x] = f[x].amount /\ g[x] \in Int
  BY DEF Integers
<1>2. ASSUME NEW s \in SUBSET S, s # {} PROVE g[Pick(s)] = f[Pick(s)].amount
  BY <1>1, <1>2, PickIn
<1>3. MapThenSumSet(LAMBDA v : f[v].amount, S) = k[S]
  BY DEF MapThenSumSet, MapThenFoldSet, Pick
<1> HIDE DEF g
<1>4. ASSUME NEW h, SumRun(h, g, S) PROVE Runs(h)
  BY <1>2, <1>4, Zenon DEF SumRun
<1>5. ASSUME NEW h, Runs(h) PROVE SumRun(h, g, S)
  BY <1>2, <1>5, Zenon DEF SumRun
<1>6. PICK h : SumRun(h, g, S)
  BY <1>1, SumIsRun DEF Integers
<1>7. Runs(k)
  BY <1>4, <1>6, Zenon
<1>8. SumRun(k, g, S)
  BY <1>5, <1>7, Zenon
<1>9. k[S] = SumFunctionOnSet(g, S)
  <2> HIDE DEF k
  <2>1. S \in SUBSET S
    OBVIOUS
  <2> QED
    BY <1>1, <1>8, <2>1, SumOfSubset
<1> QED
  BY <1>3, <1>9 DEF g

LEMMA EffectsAreSum ==
  ASSUME NEW S, IsFiniteSet(S), \A x \in S : Effect(x) \in Int
  PROVE  MapThenSumSet(Effect, S) = SumFunctionOnSet([x \in S |-> Effect(x)], S)
<1> DEFINE g == [x \in S |-> Effect(x)]
           Runs(h) == h = [s \in SUBSET S |->
                             IF s = {} THEN 0 ELSE Effect(Pick(s)) + h[s \ {Pick(s)}]]
           k == CHOOSE h : Runs(h)
<1>1. Integers(g, S) /\ \A x \in S : g[x] = Effect(x) /\ g[x] \in Int
  BY DEF Integers
<1>2. ASSUME NEW s \in SUBSET S, s # {} PROVE g[Pick(s)] = Effect(Pick(s))
  BY <1>1, <1>2, PickIn
<1>3. MapThenSumSet(Effect, S) = k[S]
  BY DEF MapThenSumSet, MapThenFoldSet, Pick
<1> HIDE DEF g
<1>4. ASSUME NEW h, SumRun(h, g, S) PROVE Runs(h)
  BY <1>2, <1>4, Zenon DEF SumRun
<1>5. ASSUME NEW h, Runs(h) PROVE SumRun(h, g, S)
  BY <1>2, <1>5, Zenon DEF SumRun
<1>6. PICK h : SumRun(h, g, S)
  BY <1>1, SumIsRun DEF Integers
<1>7. Runs(k)
  BY <1>4, <1>6, Zenon
<1>8. SumRun(k, g, S)
  BY <1>5, <1>7, Zenon
<1>9. k[S] = SumFunctionOnSet(g, S)
  <2> HIDE DEF k
  <2>1. S \in SUBSET S
    OBVIOUS
  <2> QED
    BY <1>1, <1>8, <2>1, SumOfSubset
<1> QED
  BY <1>3, <1>9 DEF g

\* What the vouchers D of user u are worth; WalletLedger's Refund of the same rows.
RefundOf(rows, D, u) ==
  MapThenSumSet(LAMBDA v : rows[v].amount, {v \in D : rows[v].user = u})
Amounts(rows, D) == IsFiniteSet(D) /\ \A v \in D : rows[v].amount \in Nat

Owned(rows, D, u) == {v \in D : rows[v].user = u}
AmountsOf(rows, D) == [v \in D |-> rows[v].amount]

LEMMA RefundFacts ==
  ASSUME NEW rows, NEW D, NEW u, Amounts(rows, D)
  PROVE  /\ IsFiniteSet(Owned(rows, D, u))
         /\ Integers(AmountsOf(rows, D), Owned(rows, D, u))
         /\ RefundOf(rows, D, u) = SumFunctionOnSet(AmountsOf(rows, D), Owned(rows, D, u))
<1> DEFINE S == Owned(rows, D, u)
           g == AmountsOf(rows, D)
           e == [v \in S |-> rows[v].amount]
<1>1. IsFiniteSet(S) /\ S \subseteq D /\ S = {v \in D : rows[v].user = u}
  BY FS_Subset DEF Amounts, Owned
<1>2. \A v \in S : rows[v].amount \in Int /\ g[v] = rows[v].amount /\ e[v] = rows[v].amount
  BY <1>1 DEF Amounts, AmountsOf
<1>3. RefundOf(rows, D, u) = SumFunctionOnSet(e, S)
  BY <1>1, <1>2, AmountsAreSum DEF RefundOf
<1>4. Integers(g, S) /\ Agree(g, e, S)
  BY <1>1, <1>2 DEF Integers, Agree
<1> HIDE DEF S, g, e
<1>5. SumFunctionOnSet(g, S) = SumFunctionOnSet(e, S)
  BY <1>4, SumSame
<1> QED
  BY <1>1, <1>3, <1>4, <1>5 DEF S, g

LEMMA RefundNone ==
  ASSUME NEW rows, NEW D, NEW u, \A v \in D : rows[v].user # u
  PROVE  RefundOf(rows, D, u) = 0
<1>1. Owned(rows, D, u) = {} /\ Owned(rows, {}, u) = {} /\ Amounts(rows, {})
  BY FS_EmptySet DEF Amounts, Owned
<1>2. RefundOf(rows, D, u) = RefundOf(rows, {}, u)
  BY <1>1 DEF RefundOf, Owned
<1>3. RefundOf(rows, {}, u) = SumFunctionOnSet(AmountsOf(rows, {}), {})
  BY <1>1, RefundFacts
<1> QED
  BY <1>2, <1>3, SumEmpty

LEMMA RefundType ==
  ASSUME NEW rows, NEW D, NEW u, Amounts(rows, D)
  PROVE  RefundOf(rows, D, u) \in Int
<1>1. Integers(AmountsOf(rows, D), Owned(rows, D, u))
  BY RefundFacts
<1>2. SumFunctionOnSet(AmountsOf(rows, D), Owned(rows, D, u)) \in Int
  BY <1>1, SumType
<1> QED
  BY <1>2, RefundFacts

LEMMA RefundSame ==
  ASSUME NEW rows, NEW other, NEW D, NEW u, Amounts(rows, D), \A v \in D : other[v] = rows[v]
  PROVE  RefundOf(other, D, u) = RefundOf(rows, D, u)
<1>1. Amounts(other, D)
  BY DEF Amounts
<1>2. Owned(rows, D, u) = Owned(other, D, u)
  BY DEF Owned
<1>3. AmountsOf(rows, D) = AmountsOf(other, D)
  BY DEF AmountsOf
<1> QED
  BY <1>1, <1>2, <1>3, RefundFacts

LEMMA RefundMore ==
  ASSUME NEW rows, NEW D, NEW u, Amounts(rows, D), NEW v, v \notin D, rows[v].amount \in Nat
  PROVE  /\ Amounts(rows, D \cup {v})
         /\ RefundOf(rows, D \cup {v}, u) =
              RefundOf(rows, D, u) + (IF rows[v].user = u THEN rows[v].amount ELSE 0)
<1> DEFINE E == D \cup {v}
           g == AmountsOf(rows, E)
           e == AmountsOf(rows, D)
           S == Owned(rows, D, u)
           T == Owned(rows, E, u)
<1>1. Amounts(rows, E)
  BY FS_AddElement DEF Amounts
<1>2. IsFiniteSet(S) /\ Integers(e, S) /\ RefundOf(rows, D, u) = SumFunctionOnSet(e, S)
  BY RefundFacts
<1>3. IsFiniteSet(T) /\ Integers(g, T) /\ RefundOf(rows, E, u) = SumFunctionOnSet(g, T)
  BY <1>1, RefundFacts
<1>4. \A x \in S : x \in D /\ g[x] = e[x]
  BY DEF Owned, AmountsOf
<1>5. g[v] = rows[v].amount /\ v \notin S
  BY DEF Owned, AmountsOf
<1>6. T = IF rows[v].user = u THEN S \cup {v} ELSE S
  BY DEF Owned
<1> HIDE DEF g, e, S, T
<1>7. Integers(g, S) /\ Agree(e, g, S)
  BY <1>2, <1>4 DEF Integers, Agree
<1>8. SumFunctionOnSet(e, S) = SumFunctionOnSet(g, S) /\ SumFunctionOnSet(g, S) \in Int
  BY <1>2, <1>7, SumSame, SumType
<1>9. SumFunctionOnSet(g, S \cup {v}) = g[v] + SumFunctionOnSet(g, S)
  BY <1>5, <1>7, SumAdd
<1>10. RefundOf(rows, E, u) = RefundOf(rows, D, u) + (IF rows[v].user = u THEN rows[v].amount ELSE 0)
  BY <1>2, <1>3, <1>5, <1>6, <1>8, <1>9
<1> QED
  BY <1>1, <1>10

(***************************************************************************)
(* What a session is about to publish, in terms of the committed rows.     *)
(* IInv does not say it, and a commit is a step of WalletLedger only if    *)
(* the row versions written some statements ago are the ones the ledger    *)
(* would compute now: StoreInv says they are, because the checks were made *)
(* and the versions computed under locks the session still holds.          *)
(***************************************************************************)
Moved(u, n) == Only(u, [account[u] EXCEPT !.avail = @ + n])

NewBalances(s) ==
  LET r == req[s]
  IN  CASE r.op \in {"deduct", "issue"} -> Moved(r.user, 0 - r.amount)
        [] r.op = "transfer" -> Over(Moved(r.user, 0 - r.amount), Moved(r.to, r.amount))
        [] r.op = "reward" -> Only(r.user, [limit |-> account[r.user].limit + r.amount,
                                            avail |-> account[r.user].avail + r.amount])
        [] OTHER -> Nothing
Issued(r) == [state |-> "issued", user |-> r.user, amount |-> r.amount]
NewVouchers(s) ==
  LET r == req[s]
  IN  CASE r.op = "issue" -> Only(r.voucher, Issued(r))
        [] r.op = "redeem" -> Only(r.voucher, [voucher[r.voucher] EXCEPT !.state = "redeemed"])
        [] OTHER -> Nothing

\* What the service let through, and that nothing is written before the checks.
CallOK(s) ==
  /\ req[s].op # "deposit"
  /\ req[s].op = "transfer" => req[s].user # req[s].to
  /\ req[s].op = "issue" => voucher[req[s].voucher].state = "none"
  /\ pc[s] \in {"lock", "write"} => work[s] = NoWork
  /\ pc[s] = "write" => req[s].op \in {"deduct", "issue", "transfer", "redeem"}
  /\ pc[s] = "insert" => req[s].op # "expire"

\* What the checks found, still true because the rows are locked.
Checked(s) ==
  /\ req[s].op \in {"deduct", "issue", "transfer", "reward"} => req[s].user \in open
  /\ req[s].op = "transfer" => req[s].to \in open
  /\ req[s].op = "redeem" => /\ voucher[req[s].voucher].state = "issued"
                             /\ Holds(s, Vch(req[s].voucher), "X")

Written(s) ==
  /\ work[s].acct = NewBalances(s) /\ work[s].vch = NewVouchers(s)
  /\ work[s].rows = IF pc[s] = "insert" THEN {} ELSE NewRows(s)

\* The vouchers whose refund a sweep has written, and those whose audit row.
Audited(s) == IF pc[s] = "scan" THEN {} ELSE DOMAIN work[s].vch \ todo[s]
Refunded(s) == Audited(s) \cup IF pc[s] = "audit" THEN First(todo[s]) ELSE {}

Expiring(s, v) ==
  /\ Holds(s, Vch(v), "N")
  /\ voucher[v].state = "issued" /\ v \in lapsed["postgres"]
  /\ work[s].vch[v] = [voucher[v] EXCEPT !.state = "expired"]

Refunds(s, u) ==
  LET back == RefundOf(voucher, Refunded(s), u)
  IN  IF u \in DOMAIN work[s].acct
      THEN work[s].acct[u] = [account[u] EXCEPT !.avail = @ + back]
      ELSE back = 0

SweepOK(s) ==
  /\ IsFiniteSet(DOMAIN work[s].vch)
  /\ \A v \in DOMAIN work[s].vch : Expiring(s, v)
  /\ todo[s] \subseteq IF pc[s] = "scan" THEN lapsed["postgres"] ELSE DOMAIN work[s].vch
  /\ pc[s] = "commit" => todo[s] = {}
  /\ work[s].rows = {ExpireRow(v, voucher[v]) : v \in Audited(s)}
  /\ \A u \in User : Refunds(s, u)

StoreOK(s) ==
  /\ pc[s] = "idle" => work[s] = NoWork
  /\ pc[s] # "idle" => CallOK(s)
  /\ pc[s] \in {"write", "insert", "fk", "commit"} => Checked(s)
  /\ pc[s] \in {"insert", "fk", "commit"} /\ req[s].op # "expire" => Written(s)
  /\ pc[s] \in {"scan", "refund", "audit", "commit"} /\ req[s].op = "expire" => SweepOK(s)

\* What two sessions write cannot collide.
Issues(s) == pc[s] # "idle" /\ req[s].op = "issue"
Apart(s, t) ==
  /\ Disjoint(work[s].rows, work[t].rows)
  /\ Issues(s) /\ Issues(t) => req[s].voucher # req[t].voucher

\* The journal has a row for each step of a voucher.
VouchersOK ==
  \A v \in Voucher :
    /\ (voucher[v].state # "none") = Reserved(v)
    /\ voucher[v].state = "expired" => ExpireRow(v, voucher[v]) \in trx
    /\ \A x \in trx : x.kind = "expire" /\ x.code = ExpireCode(v) =>
                         voucher[v].state = "expired"

StoreInv ==
  /\ \A s \in Session : StoreOK(s)
  /\ \A s, t \in Session : s # t => Apart(s, t)
  /\ \A s \in Session : Disjoint(work[s].rows, trx)
  /\ VouchersOK

LEMMA InitStore == Init => StoreInv
<1> SUFFICES ASSUME Init PROVE StoreInv
  OBVIOUS
<1>1. ASSUME NEW s \in Session PROVE StoreOK(s)
  BY DEF Init, StoreOK
<1>2. ASSUME NEW s \in Session PROVE work[s].rows = {} /\ pc[s] = "idle"
  BY DEF Init, NoWork
<1>3. \A v \in Voucher : voucher[v] = NoVoucher /\ voucher[v].state = "none"
  BY DEF Init, NoVoucher
<1>4. VouchersOK
  BY <1>3 DEF Init, VouchersOK, Reserved
<1> QED
  BY <1>1, <1>2, <1>4 DEF StoreInv, Apart, Disjoint, Issues

(***************************************************************************)
(* What a session is about to publish does not change while it is locked.  *)
(***************************************************************************)
LEMMA BalancesSame ==
  ASSUME NEW t, req'[t] = req[t], req[t].op \in Op,
         \A u \in DOMAIN NewBalances(t) : account'[u] = account[u]
  PROVE  NewBalances(t)' = NewBalances(t)
<1>1. CASE req[t].op \in {"deduct", "issue"}
  <2>1. NewBalances(t) = Moved(req[t].user, 0 - req[t].amount)
    BY <1>1 DEF NewBalances
  <2>2. account'[req[t].user] = account[req[t].user]
    BY <2>1 DEF Moved, Only
  <2> QED
    BY <1>1, <2>2 DEF NewBalances, Moved, Only
<1>2. CASE req[t].op = "transfer"
  <2>1. NewBalances(t) = Over(Moved(req[t].user, 0 - req[t].amount), Moved(req[t].to, req[t].amount))
    BY <1>2 DEF NewBalances
  <2>2. DOMAIN NewBalances(t) = {req[t].user, req[t].to}
    BY <2>1 DEF Moved, Only, Over
  <2>3. /\ account'[req[t].user] = account[req[t].user]
        /\ account'[req[t].to] = account[req[t].to]
    BY <2>2
  <2>4. /\ Moved(req[t].user, 0 - req[t].amount)' = Moved(req[t].user, 0 - req[t].amount)
        /\ Moved(req[t].to, req[t].amount)' = Moved(req[t].to, req[t].amount)
    BY <2>3 DEF Moved, Only
  <2>5. NewBalances(t)' = Over(Moved(req[t].user, 0 - req[t].amount)', Moved(req[t].to, req[t].amount)')
    BY <1>2 DEF NewBalances, Over
  <2> QED
    BY <2>1, <2>4, <2>5
<1>3. CASE req[t].op = "reward"
  <2>1. NewBalances(t) = Only(req[t].user, [limit |-> account[req[t].user].limit + req[t].amount,
                                            avail |-> account[req[t].user].avail + req[t].amount])
    BY <1>3 DEF NewBalances
  <2>2. account'[req[t].user] = account[req[t].user]
    BY <2>1 DEF Only
  <2> QED
    BY <1>3, <2>2 DEF NewBalances
<1>4. CASE req[t].op \in {"deposit", "redeem", "expire"}
  BY <1>4 DEF NewBalances, Nothing
<1> QED
  BY <1>1, <1>2, <1>3, <1>4 DEF Op

LEMMA VouchersSame ==
  ASSUME NEW t, req'[t] = req[t], req[t].op \in Op,
         req[t].op = "redeem" => voucher'[req[t].voucher] = voucher[req[t].voucher]
  PROVE  NewVouchers(t)' = NewVouchers(t) /\ NewRows(t)' = NewRows(t)
<1>1. NewVouchers(t)' = NewVouchers(t)
  BY DEF NewVouchers, Nothing, Op
<1>2. NewRows(t)' = NewRows(t)
  BY DEF NewRows, Op
<1> QED
  BY <1>1, <1>2

\* DepositOK and the other steps leave a sweep alone that has locked its rows.
LEMMA KeepsSweep ==
  ASSUME IInv, NEW t \in Session, SweepOK(t),
         pc'[t] = pc[t], req'[t] = req[t], work'[t] = work[t], todo'[t] = todo[t],
         \A r \in Row : \A m \in Mode : Holds(t, r, m) => Holds(t, r, m)',
         lapsed["postgres"] \subseteq lapsed'["postgres"],
         \A u \in User : Holds(t, Acct(u), "N") \/ Holds(t, Acct(u), "X") =>
                           account'[u] = account[u],
         \A v \in Voucher : Holds(t, Vch(v), "N") /\ voucher[v].state = "issued" =>
                              voucher'[v] = voucher[v]
  PROVE  SweepOK(t)'
<1> DEFINE D == DOMAIN work[t].vch
           R == Refunded(t)
<1>1. /\ D \subseteq Voucher /\ R \subseteq D /\ Audited(t) \subseteq R
      /\ DOMAIN work[t].acct \subseteq User
  <2>1. D \subseteq Voucher /\ DOMAIN work[t].acct \subseteq User
    BY DEF IInv, TypeOK, IsPartial
  <2>2. Audited(t) \subseteq D
    BY DEF Audited
  <2>3. pc[t] = "audit" => First(todo[t]) \subseteq D
    BY DEF SweepOK, First
  <2>4. R \subseteq D /\ Audited(t) \subseteq R
    BY <2>2, <2>3 DEF Refunded
  <2> QED
    BY <2>1, <2>4
<1>2. \A v \in D : Vch(v) \in Row /\ "N" \in Mode
  BY <1>1 DEF Vch, Row, Mode
<1>3. \A v \in D : Expiring(t, v) /\ voucher'[v] = voucher[v]
  BY <1>1 DEF SweepOK, Expiring
<1>4. \A v \in D : Expiring(t, v)'
  BY <1>2, <1>3 DEF Expiring
<1>5. Audited(t)' = Audited(t) /\ Refunded(t)' = R
  BY DEF Refunded, Audited, First
<1>6. Amounts(voucher, R)
  <2>1. IsFiniteSet(R)
    BY <1>1, FS_Subset DEF SweepOK
  <2>2. \A v \in R : voucher[v].amount \in Nat
    BY <1>1 DEF IInv, TypeOK, VoucherRow
  <2> QED
    BY <2>1, <2>2 DEF Amounts
<1>7. ASSUME NEW u \in User PROVE Refunds(t, u)'
  <2>1. RefundOf(voucher', R, u) = RefundOf(voucher, R, u)
    BY <1>1, <1>3, <1>6, RefundSame
  <2>2. u \in DOMAIN work[t].acct => account'[u] = account[u]
    BY <1>1 DEF IInv, SessionOK
  <2>3. Refunds(t, u)
    BY DEF SweepOK
  <2> HIDE DEF R
  <2>4. RefundOf(voucher', Refunded(t)', u) = RefundOf(voucher, R, u)
    BY <1>5, <2>1
  <2> QED
    BY <2>2, <2>3, <2>4 DEF Refunds, R
<1>8. work'[t].rows = {ExpireRow(v, voucher'[v]) : v \in Audited(t)}
  <2>1. work[t].rows = {ExpireRow(v, voucher[v]) : v \in Audited(t)}
    BY DEF SweepOK
  <2> QED
    BY <1>1, <1>3, <2>1
<1> QED
  BY <1>4, <1>5, <1>7, <1>8 DEF SweepOK

\* A step of others leaves alone what session t has checked and locked.
Keeps(t) ==
  /\ pc'[t] = pc[t] /\ req'[t] = req[t] /\ work'[t] = work[t] /\ todo'[t] = todo[t]
  /\ \A r \in Row : \A m \in Mode : Holds(t, r, m) => Holds(t, r, m)'
  /\ open \subseteq open' /\ lapsed["postgres"] \subseteq lapsed'["postgres"]
  /\ \A u \in User : Holds(t, Acct(u), "N") \/ Holds(t, Acct(u), "X") =>
                       account'[u] = account[u]
  /\ \A v \in Voucher :
       (Holds(t, Vch(v), "N") \/ Holds(t, Vch(v), "X")) /\ voucher[v].state = "issued" =>
         voucher'[v] = voucher[v]
  /\ Issues(t) => voucher'[req[t].voucher] = voucher[req[t].voucher]

LEMMA KeepsSession ==
  ASSUME IInv, NEW t \in Session, StoreOK(t), Keeps(t)
  PROVE  StoreOK(t)'
<1>1. CASE pc[t] = "idle"
  BY <1>1 DEF StoreOK, Keeps
<1>2. CASE pc[t] # "idle"
  <2>1. /\ req[t].op \in Op /\ req[t].voucher \in Voucher
        /\ Vch(req[t].voucher) \in Row /\ "X" \in Mode
    BY <1>2, RequestFields DEF Vch, Row, Mode
  <2>2. /\ pc'[t] = pc[t] /\ req'[t] = req[t] /\ work'[t] = work[t]
    BY DEF Keeps
  <2>3. CallOK(t)'
    BY <1>2, <2>1, <2>2 DEF Keeps, StoreOK, CallOK, Issues
  <2>4. ASSUME Checked(t) PROVE Checked(t)'
    BY <2>1, <2>2, <2>4 DEF Keeps, Checked
  <2>5. ASSUME Checked(t), Written(t) PROVE Written(t)'
    <3>1. DOMAIN work[t].acct \subseteq User
      BY DEF IInv, TypeOK, IsPartial
    <3>2. \A u \in DOMAIN NewBalances(t) : account'[u] = account[u]
      BY <2>5, <3>1 DEF Written, IInv, SessionOK, Keeps
    <3>3. req[t].op = "redeem" => voucher'[req[t].voucher] = voucher[req[t].voucher]
      BY <2>1, <2>5 DEF Checked, Keeps
    <3>4. NewBalances(t)' = NewBalances(t)
      BY <2>1, <2>2, <3>2, BalancesSame
    <3>5. NewVouchers(t)' = NewVouchers(t) /\ NewRows(t)' = NewRows(t)
      BY <2>1, <2>2, <3>3, VouchersSame
    <3> QED
      BY <2>2, <2>5, <3>4, <3>5 DEF Written
  <2>6. ASSUME SweepOK(t) PROVE SweepOK(t)'
    BY <2>6, KeepsSweep DEF Keeps
  <2> QED
    BY <1>2, <2>2, <2>3, <2>4, <2>5, <2>6 DEF StoreOK
<1> QED
  BY <1>1, <1>2

(***************************************************************************)
(* Steps of one session.                                                   *)
(***************************************************************************)
Others(s) ==
  \A t \in Session \ {s} :
    pc'[t] = pc[t] /\ req'[t] = req[t] /\ work'[t] = work[t] /\ todo'[t] = todo[t]

LEMMA RollbackStore ==
  ASSUME IInv, StoreInv, NEW s \in Session, Rollback(s)
  PROVE  StoreInv'
<1>1. Release(s) /\ UNCHANGED db
  BY DEF Rollback
<1>2. /\ pc'[s] = "idle" /\ work'[s] = NoWork
      /\ \A t \in Session \ {s} : pc'[t] = pc[t] /\ req'[t] = req[t] /\ work'[t] = work[t]
  BY <1>1, ReleaseSession
<1>3. \A t \in Session \ {s} : todo'[t] = todo[t]
  BY <1>1 DEF Release, IInv, TypeOK
<1>4. StoreOK(s)'
  BY <1>2 DEF StoreOK
<1>5. ASSUME NEW t \in Session \ {s} PROVE StoreOK(t)'
  <2>1. StoreOK(t)
    BY DEF StoreInv
  <2>2. Keeps(t)
    BY <1>1, <1>2, <1>3, ReleaseLocks DEF Keeps, db
  <2> QED
    BY <2>1, <2>2, KeepsSession
<1>6. work'[s].rows = {}
  BY <1>2 DEF NoWork
<1>7. ASSUME NEW t \in Session, NEW u \in Session, t # u PROVE Apart(t, u)'
  <2>1. CASE t = s \/ u = s
    BY <1>2, <1>6, <2>1 DEF Apart, Disjoint, Issues
  <2>2. CASE t # s /\ u # s
    BY <1>2, <1>7, <2>2 DEF StoreInv, Apart, Disjoint, Issues
  <2> QED
    BY <2>1, <2>2
<1>8. \A t \in Session : Disjoint(work'[t].rows, trx')
  BY <1>1, <1>2, <1>6 DEF StoreInv, Disjoint, db
<1>9. VouchersOK'
  BY <1>1 DEF StoreInv, VouchersOK, Reserved, db
<1> QED
  BY <1>4, <1>5, <1>7, <1>8, <1>9 DEF StoreInv

\* A statement that commits nothing, from what it does to the session itself.
LEMMA StatementStore ==
  ASSUME IInv, StoreInv, NEW s \in Session, UNCHANGED db, Others(s),
         Acquire(s) \/ UNCHANGED locks,
         StoreOK(s)', Disjoint(work'[s].rows, trx),
         \A t \in Session \ {s} :
           /\ Disjoint(work'[s].rows, work[t].rows)
           /\ Issues(s)' /\ Issues(t) => req'[s].voucher # req[t].voucher
  PROVE  StoreInv'
<1>1. ASSUME NEW t \in Session \ {s} PROVE StoreOK(t)'
  <2>1. StoreOK(t)
    BY DEF StoreInv
  <2>2. \A r \in Row : \A m \in Mode : Holds(t, r, m) => Holds(t, r, m)'
    BY AcquireLocks DEF Holds
  <2>3. Keeps(t)
    BY <2>2 DEF Keeps, Others, db
  <2> QED
    BY <2>1, <2>3, KeepsSession
<1>2. \A A, B : Disjoint(A, B) => Disjoint(B, A)
  BY DEF Disjoint
<1>3. \A t \in Session \ {s} : work'[t] = work[t] /\ Issues(t)' = Issues(t) /\ req'[t] = req[t]
  BY DEF Others, Issues
<1>4. ASSUME NEW t \in Session, NEW u \in Session, t # u PROVE Apart(t, u)'
  <2>1. CASE t = s
    <3>1. u \in Session \ {s}
      BY <1>4, <2>1
    <3> QED
      BY <1>3, <2>1, <3>1 DEF Apart
  <2>2. CASE u = s
    <3>1. t \in Session \ {s}
      BY <1>4, <2>2
    <3> QED
      BY <1>2, <1>3, <2>2, <3>1 DEF Apart
  <2>3. CASE t # s /\ u # s
    BY <1>3, <1>4, <2>3 DEF StoreInv, Apart
  <2> QED
    BY <2>1, <2>2, <2>3
<1>5. \A t \in Session : Disjoint(work'[t].rows, trx')
  BY <1>3 DEF StoreInv, db
<1>6. VouchersOK'
  BY DEF StoreInv, VouchersOK, Reserved, db
<1> QED
  BY <1>1, <1>4, <1>5, <1>6 DEF StoreInv

\* One that inserts no row and begins no call.
LEMMA QuietStore ==
  ASSUME IInv, StoreInv, NEW s \in Session, UNCHANGED db, Others(s),
         Acquire(s) \/ UNCHANGED locks,
         StoreOK(s)', work'[s].rows = work[s].rows, req'[s] = req[s], pc[s] # "idle"
  PROVE  StoreInv'
<1>1. Disjoint(work'[s].rows, trx)
  BY DEF StoreInv
<1>2. ASSUME NEW t \in Session \ {s}
      PROVE  /\ Disjoint(work'[s].rows, work[t].rows)
             /\ Issues(s)' /\ Issues(t) => req'[s].voucher # req[t].voucher
  BY DEF StoreInv, Apart, Issues
<1> QED
  BY <1>1, <1>2, StatementStore

\* What a statement of s leaves to the other sessions.
LEMMA OthersAre ==
  ASSUME IInv, NEW s \in Session,
         req' = req \/ \E r : req' = [req EXCEPT ![s] = r],
         work' = work \/ \E w : work' = [work EXCEPT ![s] = w],
         todo' = todo \/ \E d : todo' = [todo EXCEPT ![s] = d],
         \E p : Goto(s, p)
  PROVE  Others(s)
BY DEF Others, Goto, IInv, TypeOK

LEMMA BeginStore ==
  ASSUME IInv, StoreInv, NEW s \in Session, NEW r \in Request, Begin(s, r)
  PROVE  StoreInv'
<1>1. /\ pc[s] = "idle" /\ pc'[s] = "lock" /\ req'[s] = r /\ work' = work /\ UNCHANGED locks
      /\ UNCHANGED db /\ Goto(s, "lock")
  BY DEF Begin, IInv, TypeOK, Goto
<1>2. Others(s)
  BY <1>1, OthersAre DEF Begin
<1>3. work[s] = NoWork
  BY <1>1 DEF StoreInv, StoreOK
<1>4. work'[s].rows = {}
  BY <1>1, <1>3 DEF NoWork
<1>5. CallOK(s)'
  BY <1>1, <1>3 DEF CallOK, Begin, Fresh, db
<1>6. StoreOK(s)'
  BY <1>1, <1>5 DEF StoreOK
<1>7. ASSUME NEW t \in Session \ {s}, Issues(s)', Issues(t)
      PROVE  req'[s].voucher # req[t].voucher
  BY <1>1, <1>7 DEF Begin, Fresh, Issues
<1> QED
  BY <1>1, <1>2, <1>4, <1>6, <1>7, StatementStore DEF Disjoint

LEMMA DepositStore ==
  ASSUME IInv, StoreInv, NEW r \in Request, Deposit(r)
  PROVE  StoreInv'
<1>1. ASSUME NEW t \in Session PROVE StoreOK(t)'
  <2>1. ASSUME NEW u \in User, Holds(t, Acct(u), "N") \/ Holds(t, Acct(u), "X")
        PROVE  account'[u] = account[u]
    <3>1. u # r.user
      BY <2>1 DEF Deposit, Holds
    <3> QED
      BY <3>1 DEF Deposit, IInv, TypeOK
  <2>2. Keeps(t)
    BY <2>1 DEF Keeps, Deposit, Holds
  <2> QED
    BY <2>2, KeepsSession DEF StoreInv
<1>2. \A t \in Session, u \in Session : t # u => Apart(t, u)'
  BY DEF StoreInv, Apart, Issues, Deposit
<1>3. VouchersOK' /\ \A t \in Session : Disjoint(work'[t].rows, trx')
  BY DEF StoreInv, VouchersOK, Reserved, Deposit
<1> QED
  BY <1>1, <1>2, <1>3 DEF StoreInv

LEMMA LapseStore ==
  ASSUME IInv, StoreInv, NEW c \in Clock, NEW v \in Voucher, Lapse(c, v)
  PROVE  StoreInv'
<1>1. lapsed["postgres"] \subseteq lapsed'["postgres"]
  BY DEF Lapse, IInv, TypeOK, Clock
<1>2. ASSUME NEW t \in Session PROVE StoreOK(t)'
  <2>1. Keeps(t)
    BY <1>1 DEF Keeps, Lapse, Holds
  <2> QED
    BY <2>1, KeepsSession DEF StoreInv
<1>3. \A t \in Session, u \in Session : t # u => Apart(t, u)'
  BY DEF StoreInv, Apart, Issues, Lapse
<1>4. VouchersOK' /\ \A t \in Session : Disjoint(work'[t].rows, trx')
  BY DEF StoreInv, VouchersOK, Reserved, Lapse
<1> QED
  BY <1>2, <1>3, <1>4 DEF StoreInv

(***************************************************************************)
(* The statements, one lemma each.                                         *)
(***************************************************************************)
LEMMA OverNothing ==
  ASSUME NEW f, f = [x \in DOMAIN f |-> f[x]]
  PROVE  Over(f, Nothing) = f /\ Over(Nothing, f) = f
<1>1. DOMAIN Nothing = {}
  BY DEF Nothing
<1>2. Over(f, Nothing) = [x \in DOMAIN f |-> f[x]]
  BY <1>1 DEF Over
<1>3. Over(Nothing, f) = [x \in DOMAIN f |-> f[x]]
  BY <1>1 DEF Over
<1> QED
  BY <1>2, <1>3

LEMMA NewAreFunctions ==
  ASSUME NEW s, req[s].op \in Op
  PROVE  /\ NewBalances(s) = [u \in DOMAIN NewBalances(s) |-> NewBalances(s)[u]]
         /\ NewVouchers(s) = [v \in DOMAIN NewVouchers(s) |-> NewVouchers(s)[v]]
<1> DEFINE IsFun(f) == f = [x \in DOMAIN f |-> f[x]]
<1>1. IsFun(Nothing) /\ \A x, y : IsFun(Only(x, y))
  BY DEF Nothing, Only
<1>2. \A f, g : IsFun(Over(f, g))
  BY DEF Over
<1> HIDE DEF IsFun
<1>3. \A u, n : IsFun(Moved(u, n))
  BY <1>1 DEF Moved
<1>4. IsFun(NewBalances(s))
  BY <1>1, <1>2, <1>3 DEF NewBalances, Op
<1>5. IsFun(NewVouchers(s))
  BY <1>1 DEF NewVouchers, Op
<1> QED
  BY <1>4, <1>5 DEF IsFun

LEMMA WorkAre ==
  ASSUME IInv, NEW s \in Session, NEW a, NEW v, NEW rows, Update(s, a, v, rows)
  PROVE  work'[s] = [acct |-> Over(a, work[s].acct), vch |-> Over(v, work[s].vch),
                     rows |-> work[s].rows \cup rows]
BY DEF Update, IInv, TypeOK

\* The first UPDATE of a call that is not a sweep writes what the call publishes.
LEMMA WriteStore ==
  ASSUME IInv, StoreInv, NEW s \in Session, pc[s] \in {"lock", "write"}, req[s].op # "expire",
         UNCHANGED db, UNCHANGED req, UNCHANGED todo, Goto(s, "insert"),
         Acquire(s) \/ UNCHANGED locks, Checked(s)',
         Update(s, NewBalances(s), NewVouchers(s), {})
  PROVE  StoreInv'
<1>1. req[s].op \in Op /\ pc'[s] = "insert" /\ pc[s] # "idle"
  BY RequestFields DEF Goto, IInv, TypeOK
<1>2. CallOK(s) /\ work[s] = NoWork
  BY <1>1 DEF StoreInv, StoreOK, CallOK
<1>3. work'[s] = [acct |-> NewBalances(s), vch |-> NewVouchers(s), rows |-> {}]
  BY <1>1, <1>2, WorkAre, NewAreFunctions, OverNothing DEF NoWork
<1>4. NewBalances(s)' = NewBalances(s) /\ NewVouchers(s)' = NewVouchers(s)
  BY <1>1, BalancesSame, VouchersSame DEF db
<1>5. Written(s)'
  BY <1>1, <1>3, <1>4 DEF Written
<1>6. CallOK(s)'
  BY <1>1, <1>2 DEF CallOK, db
<1>7. StoreOK(s)'
  BY <1>1, <1>5, <1>6 DEF StoreOK
<1>8. Others(s)
  BY OthersAre DEF Update
<1>9. work'[s].rows = work[s].rows /\ req'[s] = req[s]
  BY <1>2, <1>3 DEF NoWork
<1> QED
  BY <1>1, <1>7, <1>8, <1>9, QuietStore

\* A statement that only locks rows and checks them.
LEMMA CheckStore ==
  ASSUME IInv, StoreInv, NEW s \in Session, pc[s] = "lock",
         NEW p \in {"lock", "write"}, Goto(s, p),
         UNCHANGED <<db, req, todo, work>>, Acquire(s),
         p = "write" => Checked(s)' /\ req[s].op \in {"deduct", "issue", "transfer", "redeem"}
  PROVE  StoreInv'
<1>1. pc'[s] = p
  BY DEF Goto, IInv, TypeOK
<1>2. CallOK(s)
  BY DEF StoreInv, StoreOK
<1>3. StoreOK(s)'
  BY <1>1, <1>2 DEF StoreOK, CallOK, db
<1>4. Others(s)
  BY OthersAre
<1> QED
  BY <1>3, <1>4, QuietStore

LEMMA LockAccountStore ==
  ASSUME IInv, StoreInv, NEW s \in Session, pc[s] = "lock",
         req[s].op \in {"deduct", "issue"}, LockAccount(s)
  PROVE  StoreInv'
<1>1. CASE Rollback(s)
  BY <1>1, RollbackStore
<1>2. CASE /\ req[s].user \in open /\ Acquire(s) /\ Goto(s, "write")
           /\ UNCHANGED <<db, req, todo, work>>
  <2>1. Checked(s)'
    BY <1>2 DEF Checked, db
  <2> QED
    BY <1>2, <2>1, CheckStore
<1> QED
  BY <1>1, <1>2 DEF LockAccount

LEMMA CurrentIs ==
  ASSUME IInv, NEW s \in Session, pc[s] \in {"lock", "write"}, NEW u, NEW n
  PROVE  Current(s, u) = account[u] /\ Plus(s, u, n) = Moved(u, n)
<1>1. u \notin DOMAIN work[s].acct
  BY DEF IInv, SessionOK, Nothing
<1> QED
  BY <1>1 DEF Current, Plus, Moved

LEMMA DeductStore ==
  ASSUME IInv, StoreInv, NEW s \in Session, DeductUpdate(s)
  PROVE  StoreInv'
<1> DEFINE u == req[s].user
           n == req[s].amount
<1>1. /\ pc[s] = "write" /\ req[s].op = "deduct" /\ UNCHANGED <<db, req, todo, locks>>
      /\ Goto(s, "insert")
      /\ Update(s, Only(u, [Current(s, u) EXCEPT !.avail = bal[s] - n]), Nothing, {})
  BY DEF DeductUpdate, At
<1>2. u \in User /\ n \in Nat /\ account[u] \in Account /\ bal[s] = account[u].avail
  BY <1>1, RequestFields DEF IInv, TypeOK, SessionOK, Spending
<1>3. bal[s] - n = account[u].avail + (0 - n)
  BY <1>2 DEF Account
<1>4. Only(u, [Current(s, u) EXCEPT !.avail = bal[s] - n]) = Moved(u, 0 - n)
  BY <1>1, <1>3, CurrentIs DEF Moved
<1>5. NewBalances(s) = Moved(u, 0 - n) /\ NewVouchers(s) = Nothing
  BY <1>1 DEF NewBalances, NewVouchers
<1>6. Checked(s)'
  BY <1>1 DEF StoreInv, StoreOK, Checked, db
<1> QED
  BY <1>1, <1>4, <1>5, <1>6, WriteStore

LEMMA IssueStore ==
  ASSUME IInv, StoreInv, NEW s \in Session, IssueUpdate(s)
  PROVE  StoreInv'
<1>1. /\ pc[s] = "write" /\ req[s].op = "issue" /\ UNCHANGED <<db, req, todo, locks>>
      /\ Goto(s, "insert")
      /\ Update(s, Plus(s, req[s].user, 0 - req[s].amount),
                Only(req[s].voucher, Issued(req[s])), {})
  BY DEF IssueUpdate, At, Issued
<1>2. /\ NewBalances(s) = Plus(s, req[s].user, 0 - req[s].amount)
      /\ NewVouchers(s) = Only(req[s].voucher, Issued(req[s]))
  BY <1>1, CurrentIs DEF NewBalances, NewVouchers
<1>3. Checked(s)'
  BY <1>1 DEF StoreInv, StoreOK, Checked, db
<1> QED
  BY <1>1, <1>2, <1>3, WriteStore

LEMMA TransferLockStore ==
  ASSUME IInv, StoreInv, NEW s \in Session, TransferLock(s)
  PROVE  StoreInv'
<1>1. pc[s] = "lock" /\ req[s].op = "transfer"
  BY DEF TransferLock, At
<1>2. CASE Rollback(s)
  BY <1>2, RollbackStore
<1>3. CASE /\ {req[s].user, req[s].to} \subseteq open /\ Acquire(s)
           /\ Goto(s, "lock") \/ Goto(s, "write")
           /\ UNCHANGED <<db, req, todo, work>>
  <2>1. Checked(s)'
    BY <1>1, <1>3 DEF Checked, db
  <2> QED
    BY <1>1, <1>3, <2>1, CheckStore
<1> QED
  BY <1>2, <1>3 DEF TransferLock

LEMMA TransferStore ==
  ASSUME IInv, StoreInv, NEW s \in Session, TransferUpdate(s)
  PROVE  StoreInv'
<1>1. /\ pc[s] = "write" /\ req[s].op = "transfer" /\ UNCHANGED <<db, req, todo, locks>>
      /\ Goto(s, "insert")
      /\ Update(s, Over(Plus(s, req[s].user, 0 - req[s].amount),
                        Plus(s, req[s].to, req[s].amount)), Nothing, {})
  BY DEF TransferUpdate, At
<1>2. /\ NewBalances(s) = Over(Plus(s, req[s].user, 0 - req[s].amount),
                               Plus(s, req[s].to, req[s].amount))
      /\ NewVouchers(s) = Nothing
  BY <1>1, CurrentIs DEF NewBalances, NewVouchers
<1>3. Checked(s)'
  BY <1>1 DEF StoreInv, StoreOK, Checked, db
<1> QED
  BY <1>1, <1>2, <1>3, WriteStore

LEMMA RewardStore ==
  ASSUME IInv, StoreInv, NEW s \in Session, RewardUpdate(s)
  PROVE  StoreInv'
<1> DEFINE u == req[s].user
           new == Only(u, [limit |-> Current(s, u).limit + req[s].amount,
                           avail |-> Current(s, u).avail + req[s].amount])
<1>1. pc[s] = "lock" /\ req[s].op = "reward"
  BY DEF RewardUpdate, At
<1>2. CASE Rollback(s)
  BY <1>2, RollbackStore
<1>3. CASE /\ u \in open /\ Acquire(s) /\ Update(s, new, Nothing, {})
           /\ Goto(s, "insert") /\ UNCHANGED <<db, req, todo>>
  <2>1. NewBalances(s) = new /\ NewVouchers(s) = Nothing
    BY <1>1, CurrentIs DEF NewBalances, NewVouchers
  <2>2. Checked(s)'
    BY <1>1, <1>3 DEF Checked, db
  <2> QED
    BY <1>1, <1>3, <2>1, <2>2, WriteStore
<1> QED
  BY <1>2, <1>3 DEF RewardUpdate

LEMMA RedeemLockStore ==
  ASSUME IInv, StoreInv, NEW s \in Session, RedeemLock(s)
  PROVE  StoreInv'
<1> DEFINE v == req[s].voucher
<1>1. pc[s] = "lock" /\ req[s].op = "redeem" /\ v \in Voucher
  BY RequestFields DEF RedeemLock, At
<1>2. CASE Rollback(s)
  BY <1>2, RollbackStore
<1>3. CASE /\ voucher[v].state = "issued" /\ Acquire(s) /\ Goto(s, "write")
           /\ UNCHANGED <<db, req, todo, work>>
  <2>1. Vch(v) \in Row /\ "X" \in Mode
    BY <1>1 DEF Vch, Row, Mode
  <2>2. <<Vch(v), "X">> \in NextLock(s)
    BY <1>1, <1>3 DEF NextLock, ForUpdate
  <2>3. Holds(s, Vch(v), "X")'
    BY <1>3, <2>1, <2>2, AcquireLocks
  <2>4. Checked(s)'
    BY <1>1, <1>3, <2>3 DEF Checked, db
  <2> QED
    BY <1>1, <1>3, <2>4, CheckStore
<1> QED
  BY <1>2, <1>3 DEF RedeemLock

LEMMA RedeemStore ==
  ASSUME IInv, StoreInv, NEW s \in Session, RedeemUpdate(s)
  PROVE  StoreInv'
<1>1. /\ pc[s] = "write" /\ req[s].op = "redeem" /\ UNCHANGED <<db, req, todo, locks>>
      /\ Goto(s, "insert")
      /\ Update(s, Nothing, Only(req[s].voucher,
                                 [voucher[req[s].voucher] EXCEPT !.state = "redeemed"]), {})
  BY DEF RedeemUpdate, At
<1>2. /\ NewBalances(s) = Nothing
      /\ NewVouchers(s) = Only(req[s].voucher,
                               [voucher[req[s].voucher] EXCEPT !.state = "redeemed"])
  BY <1>1 DEF NewBalances, NewVouchers
<1>3. Checked(s)'
  BY <1>1 DEF StoreInv, StoreOK, Checked, db, Holds
<1> QED
  BY <1>1, <1>2, <1>3, WriteStore

LEMMA InsertStore ==
  ASSUME IInv, StoreInv, NEW s \in Session, InsertTrx(s)
  PROVE  StoreInv'
<1>1. pc[s] = "insert" /\ CodeHolders(s) = {} /\ Inserts(s) = NewRows(s)
  BY DEF InsertTrx, Inserts
<1>2. CASE Rollback(s)
  BY <1>2, RollbackStore
<1>3. CASE /\ ~Duplicate(s) /\ Update(s, Nothing, Nothing, NewRows(s))
           /\ Goto(s, IF req[s].op = "redeem" THEN "fk" ELSE "commit")
           /\ UNCHANGED <<db, req, bal, todo, locks>>
  <2>1. /\ req[s].op \in Op /\ pc'[s] = IF req[s].op = "redeem" THEN "fk" ELSE "commit"
    BY <1>1, <1>3, RequestFields DEF Goto, IInv, TypeOK
  <2>2. CallOK(s) /\ req[s].op # "expire" /\ Checked(s) /\ Written(s)
    BY <1>1 DEF StoreInv, StoreOK, CallOK
  <2>3. /\ work[s].acct = [x \in DOMAIN work[s].acct |-> work[s].acct[x]]
        /\ work[s].vch = [x \in DOMAIN work[s].vch |-> work[s].vch[x]]
    BY DEF IInv, TypeOK, IsPartial
  <2>4. /\ work'[s].acct = work[s].acct /\ work'[s].vch = work[s].vch
        /\ work'[s].rows = NewRows(s)
    <3>1. work'[s] = [acct |-> Over(Nothing, work[s].acct), vch |-> Over(Nothing, work[s].vch),
                      rows |-> work[s].rows \cup NewRows(s)]
      BY <1>3, WorkAre
    <3>2. /\ Over(Nothing, work[s].acct) = work[s].acct
          /\ Over(Nothing, work[s].vch) = work[s].vch
      BY <2>3, OverNothing
    <3>3. work[s].rows = {}
      BY <1>1, <2>2 DEF Written
    <3> QED
      BY <3>1, <3>2, <3>3
  <2>5. /\ NewBalances(s)' = NewBalances(s) /\ NewVouchers(s)' = NewVouchers(s)
        /\ NewRows(s)' = NewRows(s)
    BY <1>3, <2>1, BalancesSame, VouchersSame DEF db
  <2>6. Written(s)'
    BY <2>1, <2>2, <2>4, <2>5 DEF Written
  <2>7. Checked(s)'
    BY <1>3, <2>2 DEF Checked, db, Holds
  <2>8. CallOK(s)'
    BY <1>3, <2>1, <2>2 DEF CallOK, db
  <2>9. StoreOK(s)'
    BY <1>3, <2>1, <2>2, <2>6, <2>7, <2>8 DEF StoreOK
  <2>10. Disjoint(work'[s].rows, trx)
    BY <1>1, <1>3, <2>4 DEF Duplicate
  <2>11. ASSUME NEW t \in Session \ {s}
         PROVE  /\ Disjoint(work'[s].rows, work[t].rows)
                /\ Issues(s)' /\ Issues(t) => req'[s].voucher # req[t].voucher
    <3>1. Disjoint(NewRows(s), work[t].rows)
      BY <1>1 DEF CodeHolders
    <3> QED
      BY <1>1, <1>3, <2>4, <3>1 DEF StoreInv, Apart, Issues
  <2>12. Others(s)
    BY <1>3, OthersAre DEF Update
  <2> QED
    BY <1>3, <2>9, <2>10, <2>11, <2>12, StatementStore
<1> QED
  BY <1>1, <1>2, <1>3 DEF InsertTrx

LEMMA ForeignKeyStore ==
  ASSUME IInv, StoreInv, NEW s \in Session, ForeignKey(s)
  PROVE  StoreInv'
<1>1. /\ pc[s] = "fk" /\ pc'[s] = "commit" /\ Acquire(s) /\ Goto(s, "commit")
      /\ UNCHANGED <<db, req, bal, todo, work>>
  BY DEF ForeignKey, Goto, IInv, TypeOK
<1>2. /\ req[s].op = "redeem" /\ req[s].op \in Op /\ req[s].voucher \in Voucher
      /\ Vch(req[s].voucher) \in Row /\ "X" \in Mode
  BY <1>1, RequestFields DEF IInv, SessionOK, Vch, Row, Mode
<1>3. CallOK(s) /\ Checked(s) /\ Written(s)
  BY <1>1, <1>2 DEF StoreInv, StoreOK
<1>4. Checked(s)'
  BY <1>1, <1>2, <1>3, AcquireLocks DEF Checked, db
<1>5. /\ NewBalances(s)' = NewBalances(s) /\ NewVouchers(s)' = NewVouchers(s)
      /\ NewRows(s)' = NewRows(s)
  BY <1>1, <1>2, BalancesSame, VouchersSame DEF db
<1>6. Written(s)'
  BY <1>1, <1>3, <1>5 DEF Written
<1>7. CallOK(s)'
  BY <1>1, <1>3 DEF CallOK, db
<1>8. StoreOK(s)'
  BY <1>1, <1>2, <1>4, <1>6, <1>7 DEF StoreOK
<1>9. Others(s)
  BY <1>1, OthersAre
<1> QED
  BY <1>1, <1>8, <1>9, QuietStore

(***************************************************************************)
(* The expiry sweep.                                                       *)
(***************************************************************************)
LEMMA SweepIs ==
  ASSUME IInv, StoreInv, NEW s \in Session, pc[s] \in {"scan", "refund", "audit"}
  PROVE  /\ req[s].op = "expire" /\ CallOK(s) /\ SweepOK(s)
         /\ DOMAIN work[s].vch \subseteq Voucher /\ todo[s] \subseteq Voucher
         /\ Refunded(s) \subseteq DOMAIN work[s].vch /\ Amounts(voucher, Refunded(s))
         /\ pc[s] = "scan" => Refunded(s) = {} /\ Audited(s) = {} /\ work[s].rows = {}
<1>1. req[s].op = "expire"
  BY DEF IInv, SessionOK
<1>2. CallOK(s) /\ SweepOK(s)
  BY <1>1 DEF StoreInv, StoreOK
<1>3. DOMAIN work[s].vch \subseteq Voucher /\ todo[s] \subseteq Voucher
  BY DEF IInv, TypeOK, IsPartial
<1>4. /\ Refunded(s) \subseteq DOMAIN work[s].vch
      /\ pc[s] = "scan" => Refunded(s) = {} /\ Audited(s) = {}
  <2>1. Audited(s) \subseteq DOMAIN work[s].vch /\ (pc[s] = "scan" => Audited(s) = {})
    BY DEF Audited
  <2>2. pc[s] = "audit" => First(todo[s]) \subseteq DOMAIN work[s].vch
    BY <1>2 DEF SweepOK, First
  <2> QED
    BY <2>1, <2>2 DEF Refunded
<1>5. IsFiniteSet(Refunded(s))
  BY <1>2, <1>4, FS_Subset DEF SweepOK
<1>6. \A v \in Refunded(s) : voucher[v].amount \in Nat
  BY <1>3, <1>4 DEF IInv, TypeOK, VoucherRow
<1>7. pc[s] = "scan" => work[s].rows = {}
  BY <1>2, <1>4 DEF SweepOK
<1> QED
  BY <1>1, <1>2, <1>3, <1>4, <1>5, <1>6, <1>7 DEF Amounts

LEMMA ScanStore ==
  ASSUME IInv, StoreInv, NEW s \in Session, ExpireScan(s)
  PROVE  StoreInv'
<1>1. /\ pc[s] = "lock" /\ req[s].op = "expire" /\ req[s].op \in Op
      /\ UNCHANGED <<db, req, bal, work, locks>>
      /\ pc'[s] = (IF Due = {} THEN "commit" ELSE "scan") /\ todo'[s] = Due
      /\ Due \subseteq lapsed["postgres"]
  BY DEF ExpireScan, At, Goto, IInv, TypeOK, Due, Op
<1>2. CallOK(s) /\ work[s] = NoWork
  BY <1>1 DEF StoreInv, StoreOK, CallOK
<1>3. work'[s] = NoWork /\ DOMAIN NoWork.vch = {} /\ DOMAIN NoWork.acct = {} /\ NoWork.rows = {}
  BY <1>1, <1>2 DEF NoWork, Nothing
<1>4. Refunded(s)' = {} /\ Audited(s)' = {}
  BY <1>1, <1>3 DEF Refunded, Audited
<1>5. ASSUME NEW u \in User PROVE Refunds(s, u)'
  <2>1. RefundOf(voucher', {}, u) = 0
    BY RefundNone
  <2> QED
    BY <1>3, <1>4, <2>1 DEF Refunds
<1>6. SweepOK(s)'
  BY <1>1, <1>3, <1>4, <1>5, FS_EmptySet DEF SweepOK, db
<1>7. CallOK(s)' /\ Checked(s)'
  BY <1>1, <1>2 DEF CallOK, Checked, db
<1>8. StoreOK(s)'
  BY <1>1, <1>6, <1>7 DEF StoreOK
<1>9. Others(s)
  BY OthersAre DEF ExpireScan
<1> QED
  BY <1>1, <1>8, <1>9, QuietStore

LEMMA OneFirst ==
  ASSUME NEW S \in SUBSET Voucher, NEW v \in First(S)
  PROVE  First(S) = {v}
<1>1. \A x \in S : x \in Nat
  BY DataAssumption
<1> QED
  BY <1>1 DEF First

LEMMA FirstIn == ASSUME NEW S, NEW v \in First(S) PROVE v \in S
BY DEF First

LEMMA SweepStore ==
  ASSUME IInv, StoreInv, NEW s \in Session, ExpireUpdate(s)
  PROVE  StoreInv'
<1>1. pc[s] = "scan" /\ Acquire(s) /\ UNCHANGED <<db, req, bal>>
  BY DEF ExpireUpdate
<1>2. PICK v \in First(todo[s]) :
        LET left == todo[s] \ {v}
            hit == Recheck(v)
            all == hit \cup DOMAIN work[s].vch
        IN  /\ Update(s, Nothing,
                      [x \in hit |-> [voucher[x] EXCEPT !.state = "expired"]], {})
            /\ todo' = [todo EXCEPT ![s] = IF left = {} THEN all ELSE left]
            /\ Goto(s, IF left # {} THEN "scan"
                       ELSE IF all = {} THEN "commit" ELSE "refund")
  BY DEF ExpireUpdate
<1> DEFINE left == todo[s] \ {v}
           hit == Recheck(v)
           new == [x \in hit |-> [voucher[x] EXCEPT !.state = "expired"]]
           D == DOMAIN work[s].vch
           all == hit \cup D
<1>3. /\ req[s].op = "expire" /\ CallOK(s) /\ SweepOK(s) /\ D \subseteq Voucher
      /\ todo[s] \subseteq Voucher /\ Refunded(s) = {} /\ work[s].rows = {}
  BY <1>1, SweepIs
<1>4. /\ v \in Voucher /\ v \in lapsed["postgres"] /\ Vch(v) \in Row /\ "N" \in Mode
      /\ hit = {x \in {v} : voucher[x].state = "issued"}
      /\ left \subseteq lapsed["postgres"]
  BY <1>1, <1>3, FirstIn DEF SweepOK, Vch, Row, Mode, Recheck
<1>5. /\ Update(s, Nothing, new, {})
      /\ todo'[s] = (IF left = {} THEN all ELSE left)
      /\ pc'[s] = (IF left # {} THEN "scan" ELSE IF all = {} THEN "commit" ELSE "refund")
      /\ \E p : Goto(s, p)
  BY <1>2 DEF Goto, IInv, TypeOK
<1>6. work'[s] = [acct |-> Over(Nothing, work[s].acct), vch |-> Over(new, work[s].vch),
                  rows |-> work[s].rows \cup {}]
  BY <1>5, WorkAre
<1>7. work[s].acct = [x \in DOMAIN work[s].acct |-> work[s].acct[x]]
  BY DEF IInv, TypeOK, IsPartial
<1>8. /\ work'[s].acct = work[s].acct /\ work'[s].rows = {} /\ work'[s].vch = Over(new, work[s].vch)
  BY <1>3, <1>6, <1>7, OverNothing
<1>9. /\ DOMAIN work'[s].vch = all
      /\ \A x \in all : work'[s].vch[x] = IF x \in hit THEN [voucher[x] EXCEPT !.state = "expired"]
                                          ELSE work[s].vch[x]
  <2>1. DOMAIN new = hit /\ \A x \in hit : new[x] = [voucher[x] EXCEPT !.state = "expired"]
    OBVIOUS
  <2> HIDE DEF new, hit
  <2> QED
    BY <1>8, <2>1 DEF Over
<1>10. IsFiniteSet(all)
  <2>1. IsFiniteSet(D) /\ IsFiniteSet(D \cup {v})
    BY <1>3, FS_AddElement DEF SweepOK
  <2>2. all \subseteq D \cup {v}
    BY <1>4
  <2> HIDE DEF all, D
  <2> QED
    BY <2>1, <2>2, FS_Subset
<1>11. \A r \in Row : \A m \in Mode : Holds(s, r, m) => Holds(s, r, m)'
  BY <1>1, AcquireLocks
<1>12. Holds(s, Vch(v), "N")'
  <2>1. <<Vch(v), "N">> \in NextLock(s)
    BY <1>1 DEF NextLock
  <2> QED
    BY <1>1, <1>4, <2>1, AcquireLocks
<1>13. ASSUME NEW x \in all PROVE Expiring(s, x)'
  <2>1. CASE x \in hit
    BY <1>1, <1>4, <1>9, <1>12, <2>1 DEF Expiring, db
  <2>2. CASE x \in D /\ x \notin hit
    <3>1. Expiring(s, x) /\ Vch(x) \in Row
      BY <1>3, <2>2 DEF SweepOK, Vch, Row
    <3> QED
      BY <1>1, <1>4, <1>9, <1>11, <2>2, <3>1 DEF Expiring, db
  <2> QED
    BY <2>1, <2>2
<1>14. Refunded(s)' = {} /\ Audited(s)' = {}
  <2>1. Audited(s)' = {}
    <3>1. CASE left = {}
      BY <1>5, <1>9, <3>1 DEF Audited
    <3>2. CASE left # {}
      BY <1>5, <3>2 DEF Audited
    <3> QED
      BY <3>1, <3>2
  <2>2. pc'[s] # "audit"
    BY <1>5
  <2> QED
    BY <2>1, <2>2 DEF Refunded
<1>15. ASSUME NEW u \in User PROVE Refunds(s, u)'
  <2>1. Refunds(s, u)
    BY <1>3 DEF SweepOK
  <2> QED
    BY <1>1, <1>3, <1>8, <1>14, <2>1 DEF Refunds, db
<1>16. todo'[s] \subseteq IF pc'[s] = "scan" THEN lapsed'["postgres"] ELSE all
  <2> HIDE DEF left, all
  <2> QED
    BY <1>1, <1>4, <1>5 DEF db
<1>17. pc'[s] = "commit" => todo'[s] = {}
  BY <1>5
<1>18. SweepOK(s)'
  <2>1. {ExpireRow(x, voucher'[x]) : x \in Audited(s)'} = {}
    BY <1>14
  <2> HIDE DEF all
  <2> QED
    BY <1>8, <1>9, <1>10, <1>13, <1>15, <1>16, <1>17, <2>1 DEF SweepOK
<1>19. pc'[s] \in {"scan", "refund", "commit"}
  BY <1>5
<1>20. CallOK(s)' /\ Checked(s)'
  BY <1>1, <1>3, <1>19 DEF CallOK, Checked, db
<1>21. StoreOK(s)'
  BY <1>1, <1>3, <1>18, <1>19, <1>20 DEF StoreOK
<1>22. Others(s)
  BY <1>1, <1>2, <1>5, OthersAre DEF Update
<1> QED
  BY <1>1, <1>3, <1>8, <1>21, <1>22, QuietStore

Raise(row, n) == [row EXCEPT !.avail = @ + n]

LEMMA RaiseIs ==
  ASSUME NEW row \in Account, NEW n \in Int
  PROVE  /\ Raise(row, n) = [limit |-> row.limit, avail |-> row.avail + n]
         /\ Raise(row, n) \in Account
<1>1. row = [limit |-> row.limit, avail |-> row.avail] /\ row.avail \in Int /\ row.limit \in Int
  BY DEF Account
<1>2. Raise(row, n) = [limit |-> row.limit, avail |-> row.avail + n]
  BY <1>1 DEF Raise
<1> QED
  BY <1>1, <1>2 DEF Account

LEMMA RaiseTwice ==
  ASSUME NEW row \in Account, NEW m \in Int, NEW n \in Int
  PROVE  Raise(Raise(row, m), n) = Raise(row, m + n)
<1>1. Raise(row, m) = [limit |-> row.limit, avail |-> row.avail + m] /\ Raise(row, m) \in Account
  BY RaiseIs
<1>2. Raise(Raise(row, m), n) = [limit |-> Raise(row, m).limit, avail |-> Raise(row, m).avail + n]
  BY <1>1, RaiseIs
<1>3. Raise(row, m + n) = [limit |-> row.limit, avail |-> row.avail + (m + n)]
  BY RaiseIs
<1>4. row.avail \in Int
  BY DEF Account
<1>5. Raise(row, m).limit = row.limit /\ Raise(row, m).avail = row.avail + m
  BY <1>1
<1>6. (row.avail + m) + n = row.avail + (m + n)
  BY <1>4
<1> QED
  BY <1>2, <1>3, <1>5, <1>6

LEMMA RefundStore ==
  ASSUME IInv, StoreInv, NEW s \in Session, ExpireRefund(s)
  PROVE  StoreInv'
<1>1. pc[s] = "refund" /\ Acquire(s) /\ UNCHANGED <<db, req, bal, todo>>
  BY DEF ExpireRefund
<1>2. PICK v \in First(todo[s]) :
        Update(s, Plus(s, voucher[v].user, voucher[v].amount), Nothing, {})
  BY DEF ExpireRefund
<1> DEFINE D == DOMAIN work[s].vch
           R == Refunded(s)
           o == voucher[v].user
           n == voucher[v].amount
           new == [Current(s, o) EXCEPT !.avail = @ + n]
<1>3. /\ req[s].op = "expire" /\ CallOK(s) /\ SweepOK(s) /\ D \subseteq Voucher
      /\ todo[s] \subseteq D /\ R = D \ todo[s] /\ Audited(s) = R /\ Amounts(voucher, R)
  BY <1>1, SweepIs DEF SweepOK, Refunded, Audited
<1>4. /\ v \in D /\ v \in todo[s] /\ v \in Voucher /\ v \notin R
      /\ Expiring(s, v) /\ n \in Nat /\ o \in User
  BY <1>3, FirstIn DEF SweepOK, IInv, TypeOK, VoucherRow
<1>5. /\ Update(s, Only(o, new), Nothing, {})
      /\ todo'[s] = todo[s] /\ pc'[s] = "audit" /\ Goto(s, "audit")
  BY <1>1, <1>2 DEF ExpireRefund, Goto, IInv, TypeOK, Plus
<1>6. work'[s] = [acct |-> Over(Only(o, new), work[s].acct), vch |-> Over(Nothing, work[s].vch),
                  rows |-> work[s].rows \cup {}]
  BY <1>5, WorkAre
<1>7. work[s].vch = [x \in DOMAIN work[s].vch |-> work[s].vch[x]]
  BY DEF IInv, TypeOK, IsPartial
<1>8. /\ work'[s].vch = work[s].vch
      /\ work'[s].rows = work[s].rows
      /\ work'[s].acct = Over(Only(o, new), work[s].acct)
  BY <1>6, <1>7, OverNothing
<1>9. Refunded(s)' = R \cup {v} /\ Audited(s)' = R
  <2>1. Audited(s)' = D \ todo[s]
    BY <1>5, <1>8 DEF Audited
  <2>2. First(todo[s]) = {v}
    BY <1>2, <1>3, OneFirst
  <2>3. Refunded(s)' = Audited(s)' \cup First(todo[s])
    BY <1>5 DEF Refunded, First
  <2> QED
    BY <1>3, <2>1, <2>2, <2>3
<1>10. \A x \in D : Expiring(s, x)'
  <2>1. \A x \in D : Vch(x) \in Row /\ "N" \in Mode
    BY <1>3 DEF Vch, Row, Mode
  <2> QED
    BY <1>1, <1>3, <1>8, <2>1, AcquireLocks DEF SweepOK, Expiring, db
<1>11. work'[s].rows = {ExpireRow(x, voucher'[x]) : x \in Audited(s)'}
  <2>1. work[s].rows = {ExpireRow(x, voucher[x]) : x \in R}
    BY <1>3 DEF SweepOK
  <2>2. voucher' = voucher
    BY <1>1 DEF db
  <2> HIDE DEF R
  <2> QED
    BY <1>8, <1>9, <2>1, <2>2
<1>12. ASSUME NEW u \in User PROVE Refunds(s, u)'
  <2> DEFINE back == RefundOf(voucher, R, u)
             more == RefundOf(voucher, R \cup {v}, u)
  <2>1. voucher' = voucher /\ account' = account
    BY <1>1 DEF db
  <2>2. more = back + (IF o = u THEN n ELSE 0) /\ back \in Int
    <3>1. voucher[v].amount \in Nat /\ Amounts(voucher, R) /\ v \notin R
      BY <1>3, <1>4
    <3> HIDE DEF R
    <3>2. more = back + (IF voucher[v].user = u THEN voucher[v].amount ELSE 0)
      BY <3>1, RefundMore
    <3> QED
      BY <3>1, <3>2, RefundType
  <2>3. IF u \in DOMAIN work[s].acct
        THEN work[s].acct[u] = [account[u] EXCEPT !.avail = @ + back]
        ELSE back = 0
    BY <1>3 DEF SweepOK, Refunds
  <2>4. account[u] \in Account
    BY DEF IInv, TypeOK
  <2>5. RefundOf(voucher', Refunded(s)', u) = more
    BY <1>9, <2>1
  <2>6. CASE u = o
    <3>1. u \in DOMAIN work'[s].acct /\ work'[s].acct[u] = new
      BY <1>8, <2>6 DEF Over, Only
    <3> HIDE DEF back, more
    <3>2. CASE u \in DOMAIN work[s].acct
      <4>1. Current(s, o) = Raise(account[u], back)
        BY <2>3, <2>6, <3>2 DEF Current, Raise
      <4>2. Raise(Current(s, o), n) = Raise(account[u], back + n)
        <5>1. n \in Int /\ back \in Int /\ account[u] \in Account
          BY <1>4, <2>2, <2>4
        <5> HIDE DEF n
        <5>2. Raise(Raise(account[u], back), n) = Raise(account[u], back + n)
          BY <5>1, RaiseTwice
        <5> QED
          BY <4>1, <5>2
      <4>3. new = [account[u] EXCEPT !.avail = @ + more]
        BY <2>2, <2>6, <4>2 DEF Raise
      <4> QED
        BY <2>1, <2>5, <3>1, <4>3 DEF Refunds
    <3>3. CASE u \notin DOMAIN work[s].acct
      <4>1. Current(s, o) = account[u] /\ more = n
        BY <1>4, <2>2, <2>3, <2>6, <3>3 DEF Current
      <4> QED
        BY <2>1, <2>5, <2>6, <3>1, <4>1 DEF Refunds
    <3> QED
      BY <3>2, <3>3
  <2>7. CASE u # o
    <3>1. /\ u \in DOMAIN work'[s].acct <=> u \in DOMAIN work[s].acct
          /\ u \in DOMAIN work[s].acct => work'[s].acct[u] = work[s].acct[u]
      BY <1>8, <2>7 DEF Over, Only
    <3>2. more = back
      BY <2>2, <2>7
    <3> HIDE DEF back, more
    <3> QED
      BY <2>1, <2>3, <2>5, <3>1, <3>2 DEF Refunds
  <2> QED
    BY <2>6, <2>7
<1>13. SweepOK(s)'
  <2>1. todo'[s] \subseteq D /\ (pc'[s] = "commit" => todo'[s] = {})
    BY <1>3, <1>5
  <2>2. pc'[s] # "scan" /\ IsFiniteSet(D) /\ DOMAIN work'[s].vch = D
    BY <1>3, <1>5, <1>8 DEF SweepOK
  <2> HIDE DEF D
  <2> QED
    BY <1>10, <1>11, <1>12, <2>1, <2>2 DEF SweepOK
<1>14. CallOK(s)' /\ Checked(s)'
  BY <1>1, <1>3, <1>5 DEF CallOK, Checked, db
<1>15. StoreOK(s)'
  BY <1>1, <1>3, <1>5, <1>13, <1>14 DEF StoreOK
<1>16. Others(s)
  BY <1>1, <1>2, <1>5, OthersAre DEF Update
<1> QED
  BY <1>1, <1>8, <1>15, <1>16, QuietStore

LEMMA AuditStore ==
  ASSUME IInv, StoreInv, NEW s \in Session, ExpireAudit(s)
  PROVE  StoreInv'
<1>1. pc[s] = "audit" /\ CodeHolders(s) = {}
  BY DEF ExpireAudit
<1>2. CASE Rollback(s)
  BY <1>2, RollbackStore
<1>3. CASE ~Rollback(s)
  <2>1. /\ ~Duplicate(s) /\ Update(s, Nothing, Nothing, Inserts(s))
        /\ UNCHANGED <<db, req, bal, locks>>
    BY <1>3 DEF ExpireAudit
  <2>2. PICK v \in First(todo[s]) :
          /\ todo' = [todo EXCEPT ![s] = todo[s] \ {v}]
          /\ Goto(s, IF todo[s] \ {v} = {} THEN "commit" ELSE "refund")
    BY <1>3 DEF ExpireAudit
  <2> DEFINE left == todo[s] \ {v}
             D == DOMAIN work[s].vch
             A == Audited(s)
  <2>3. /\ req[s].op = "expire" /\ CallOK(s) /\ SweepOK(s) /\ D \subseteq Voucher
        /\ todo[s] \subseteq D /\ A = D \ todo[s] /\ v \in todo[s]
    BY <1>1, <2>2, SweepIs, FirstIn DEF SweepOK, Audited
  <2>4. First(todo[s]) = {v} /\ Inserts(s) = {ExpireRow(v, voucher[v])}
    <3>1. First(todo[s]) = {v}
      BY <2>2, <2>3, OneFirst
    <3> QED
      BY <1>1, <3>1 DEF Inserts
  <2>5. /\ todo'[s] = left /\ pc'[s] = (IF left = {} THEN "commit" ELSE "refund")
        /\ \E p : Goto(s, p)
    BY <2>2 DEF Goto, IInv, TypeOK
  <2>6. /\ work'[s].acct = work[s].acct /\ work'[s].vch = work[s].vch
        /\ work'[s].rows = work[s].rows \cup {ExpireRow(v, voucher[v])}
    <3>1. work'[s] = [acct |-> Over(Nothing, work[s].acct), vch |-> Over(Nothing, work[s].vch),
                      rows |-> work[s].rows \cup Inserts(s)]
      BY <2>1, WorkAre
    <3>2. /\ work[s].acct = [x \in DOMAIN work[s].acct |-> work[s].acct[x]]
          /\ work[s].vch = [x \in DOMAIN work[s].vch |-> work[s].vch[x]]
      BY DEF IInv, TypeOK, IsPartial
    <3> QED
      BY <2>4, <3>1, <3>2, OverNothing
  <2>7. Audited(s)' = A \cup {v} /\ Refunded(s)' = Refunded(s)
    <3>1. Refunded(s) = A \cup {v}
      BY <1>1, <2>4 DEF Refunded
    <3>2. Audited(s)' = D \ left
      BY <2>5, <2>6 DEF Audited
    <3>3. D \ left = A \cup {v}
      BY <2>3
    <3>4. Refunded(s)' = Audited(s)'
      BY <2>5 DEF Refunded
    <3> QED
      BY <3>1, <3>2, <3>3, <3>4
  <2>8. \A x \in D : Expiring(s, x)'
    BY <2>1, <2>3, <2>6 DEF SweepOK, Expiring, db, Holds
  <2>9. work'[s].rows = {ExpireRow(x, voucher'[x]) : x \in Audited(s)'}
    <3>1. work[s].rows = {ExpireRow(x, voucher[x]) : x \in A}
      BY <2>3 DEF SweepOK
    <3>2. voucher' = voucher
      BY <2>1 DEF db
    <3> HIDE DEF A
    <3> QED
      BY <2>6, <2>7, <3>1, <3>2
  <2>10. ASSUME NEW u \in User PROVE Refunds(s, u)'
    <3>1. Refunds(s, u)
      BY <2>3 DEF SweepOK
    <3> QED
      BY <2>1, <2>6, <2>7, <3>1 DEF Refunds, db
  <2>11. SweepOK(s)'
    <3>1. todo'[s] \subseteq D /\ (pc'[s] = "commit" => todo'[s] = {})
      BY <2>3, <2>5
    <3>2. pc'[s] # "scan" /\ IsFiniteSet(D) /\ DOMAIN work'[s].vch = D
      BY <2>3, <2>5, <2>6 DEF SweepOK
    <3> HIDE DEF D
    <3> QED
      BY <2>8, <2>9, <2>10, <3>1, <3>2 DEF SweepOK
  <2>12. pc'[s] \in {"refund", "commit"}
    BY <2>5
  <2>13. CallOK(s)' /\ Checked(s)'
    BY <2>1, <2>3, <2>12 DEF CallOK, Checked, db
  <2>14. StoreOK(s)'
    BY <2>1, <2>3, <2>11, <2>12, <2>13 DEF StoreOK
  <2>15. Disjoint(work'[s].rows, trx)
    BY <2>1, <2>4, <2>6 DEF Duplicate, StoreInv, Disjoint
  <2>16. ASSUME NEW t \in Session \ {s}
         PROVE  /\ Disjoint(work'[s].rows, work[t].rows)
                /\ Issues(s)' /\ Issues(t) => req'[s].voucher # req[t].voucher
    <3>1. Disjoint(Inserts(s), work[t].rows)
      BY <1>1 DEF CodeHolders
    <3>2. Disjoint(work[s].rows, work[t].rows)
      BY DEF StoreInv, Apart
    <3> QED
      BY <2>1, <2>3, <2>4, <2>6, <3>1, <3>2 DEF Disjoint, Issues
  <2>17. Others(s)
    BY <2>1, <2>2, <2>5, OthersAre DEF Update
  <2> QED
    BY <2>1, <2>14, <2>15, <2>16, <2>17, StatementStore
<1> QED
  BY <1>2, <1>3

(***************************************************************************)
(* Commit publishes one step of WalletLedger.                              *)
(***************************************************************************)
LEMMA SameData ==
  /\ \A D, u : Ledger!Refund(D, u) = RefundOf(voucher, D, u)
  /\ \A r : Ledger!DeductRow(r) = DeductRow(r) /\ Ledger!TransferRows(r) = TransferRows(r)
  /\ \A r : Ledger!RewardRow(r) = RewardRow(r) /\ Ledger!IssueRow(r) = IssueRow(r)
  /\ \A r, row : Ledger!RedeemRow(r, row) = RedeemRow(r, row)
  /\ \A v, row : Ledger!ExpireRow(v, row) = ExpireRow(v, row)
  /\ \A A, B : Ledger!Disjoint(A, B) = Disjoint(A, B)
<1>1. \A D, u : Ledger!Refund(D, u) = RefundOf(voucher, D, u)
  BY DEF Ledger!Refund, RefundOf, Ledger!MapThenSumSet, MapThenSumSet, Ledger!MapThenFoldSet,
         MapThenFoldSet
<1> QED
  BY <1>1 DEF Ledger!DeductRow, DeductRow, Ledger!TransferRows, TransferRows, Ledger!RewardRow,
     RewardRow, Ledger!IssueRow, IssueRow, Ledger!RedeemRow, RedeemRow, Ledger!ExpireRow,
     ExpireRow, Ledger!Trx, Trx, Ledger!Disjoint, Disjoint, Ledger!OutCode, OutCode,
     Ledger!InCode, InCode, Ledger!IssueCode, IssueCode, Ledger!ExpireCode, ExpireCode,
     Ledger!OutWord, OutWord, Ledger!InWord, InWord, Ledger!IssueWord, IssueWord,
     Ledger!ExpireWord, ExpireWord

LEMMA OverIs ==
  ASSUME NEW D, NEW R, NEW f, NEW g \in [D -> R], IsPartial(f, D, R)
  PROVE  Over(f, g) = [x \in D |-> IF x \in DOMAIN f THEN f[x] ELSE g[x]]
<1>1. DOMAIN f \cup DOMAIN g = D
  BY DEF IsPartial
<1> QED
  BY <1>1 DEF Over

LEMMA RaiseDown ==
  ASSUME NEW row \in Account, NEW n \in Nat
  PROVE  Raise(row, 0 - n) = [row EXCEPT !.avail = @ - n]
<1>1. row = [limit |-> row.limit, avail |-> row.avail] /\ row.avail \in Int /\ 0 - n \in Int
  BY DEF Account
<1>2. [row EXCEPT !.avail = @ - n] = [limit |-> row.limit, avail |-> row.avail - n]
  BY <1>1
<1>3. Raise(row, 0 - n) = [limit |-> row.limit, avail |-> row.avail + (0 - n)]
  BY <1>1, RaiseIs
<1>4. row.avail - n = row.avail + (0 - n)
  BY <1>1
<1> QED
  BY <1>2, <1>3, <1>4

\* The state after a commit, row by row.
LEMMA CommitIs ==
  ASSUME IInv, StoreInv, NEW s \in Session, Commit(s)
  PROVE  /\ account' = [u \in User |-> IF u \in DOMAIN work[s].acct THEN work[s].acct[u]
                                       ELSE account[u]]
         /\ voucher' = [v \in Voucher |-> IF v \in DOMAIN work[s].vch THEN work[s].vch[v]
                                          ELSE voucher[v]]
         /\ trx' = trx \cup work[s].rows /\ open' = open /\ lapsed' = lapsed
         /\ Disjoint(work[s].rows, trx) /\ pc[s] = "commit" /\ CallOK(s) /\ Checked(s)
         /\ IF req[s].op = "expire" THEN SweepOK(s) ELSE Written(s)
<1>1. /\ account' = Over(work[s].acct, account) /\ voucher' = Over(work[s].vch, voucher)
      /\ trx' = trx \cup work[s].rows /\ open' = open /\ lapsed' = lapsed /\ pc[s] = "commit"
  BY DEF Commit
<1>2. /\ account' = [u \in User |-> IF u \in DOMAIN work[s].acct THEN work[s].acct[u]
                                    ELSE account[u]]
      /\ voucher' = [v \in Voucher |-> IF v \in DOMAIN work[s].vch THEN work[s].vch[v]
                                       ELSE voucher[v]]
  <2>1. /\ account \in [User -> Account] /\ voucher \in [Voucher -> VoucherRow]
        /\ IsPartial(work[s].acct, User, Account) /\ IsPartial(work[s].vch, Voucher, VoucherRow)
    BY DEF IInv, TypeOK
  <2>2. Over(work[s].acct, account) = [u \in User |-> IF u \in DOMAIN work[s].acct
                                                    THEN work[s].acct[u] ELSE account[u]]
    BY <2>1, OverIs
  <2>3. Over(work[s].vch, voucher) = [v \in Voucher |-> IF v \in DOMAIN work[s].vch
                                                        THEN work[s].vch[v] ELSE voucher[v]]
    BY <2>1, OverIs
  <2> QED
    BY <1>1, <2>2, <2>3
<1>3. Disjoint(work[s].rows, trx) /\ StoreOK(s)
  BY DEF StoreInv
<1>4. CallOK(s) /\ Checked(s) /\ IF req[s].op = "expire" THEN SweepOK(s) ELSE Written(s)
  BY <1>1, <1>3 DEF StoreOK
<1> QED
  BY <1>1, <1>2, <1>3, <1>4

\* One account moves.
LEMMA MoveOne ==
  ASSUME IInv, NEW u \in User, NEW n \in Nat,
         account' = [x \in User |-> IF x \in DOMAIN Moved(u, 0 - n) THEN Moved(u, 0 - n)[x]
                                    ELSE account[x]]
  PROVE  account' = [account EXCEPT ![u].avail = @ - n]
<1>1. account \in [User -> Account]
  BY DEF IInv, TypeOK
<1>2. Moved(u, 0 - n) = Only(u, Raise(account[u], 0 - n))
  BY DEF Moved, Raise
<1>3. account' = [x \in User |-> IF x = u THEN Raise(account[u], 0 - n) ELSE account[x]]
  BY <1>2 DEF Only
<1>4. Raise(account[u], 0 - n) = [account[u] EXCEPT !.avail = @ - n]
  BY <1>1, RaiseDown
<1> QED
  BY <1>1, <1>3, <1>4

\* The audit rows of the vouchers D.
Audit(rows, D) == {ExpireRow(v, rows[v]) : v \in D}

\* A sweep's commit, whether it found anything or not.
Swept(D) ==
  /\ IsFiniteSet(D)
  /\ \A v \in D : voucher[v].state = "issued" /\ v \in lapsed["postgres"]
  /\ voucher' = [v \in Voucher |-> IF v \in D THEN [voucher[v] EXCEPT !.state = "expired"]
                                  ELSE voucher[v]]
  /\ account' = [u \in User |-> Raise(account[u], RefundOf(voucher, D, u))]
  /\ trx' = trx \cup Audit(voucher, D) /\ Disjoint(Audit(voucher, D), trx)

LEMMA SweepCommit ==
  ASSUME IInv, StoreInv, NEW s \in Session, Commit(s), req[s].op = "expire"
  PROVE  \E D \in SUBSET Voucher : Swept(D)
<1> DEFINE A == work[s].acct
           V == work[s].vch
           D == DOMAIN V
<1>1. /\ account' = [u \in User |-> IF u \in DOMAIN A THEN A[u] ELSE account[u]]
      /\ voucher' = [v \in Voucher |-> IF v \in D THEN V[v] ELSE voucher[v]]
      /\ trx' = trx \cup work[s].rows /\ Disjoint(work[s].rows, trx) /\ pc[s] = "commit"
      /\ SweepOK(s)
  BY CommitIs
<1>2. account \in [User -> Account] /\ voucher \in [Voucher -> VoucherRow]
  BY DEF IInv, TypeOK
<1>3. /\ \A v \in D : Expiring(s, v) /\ v \in Voucher
      /\ todo[s] = {} /\ Refunded(s) = D /\ Audited(s) = D /\ IsFiniteSet(D)
  BY <1>1 DEF SweepOK, Refunded, Audited, IInv, TypeOK, IsPartial
<1>4. work[s].rows = Audit(voucher, D)
  BY <1>1, <1>3 DEF SweepOK, Audit
<1>5. \A u \in User : IF u \in DOMAIN A THEN A[u] = Raise(account[u], RefundOf(voucher, D, u))
                      ELSE RefundOf(voucher, D, u) = 0
  BY <1>1, <1>3 DEF SweepOK, Refunds, Raise
<1>6. ASSUME NEW u \in User
      PROVE  account'[u] = Raise(account[u], RefundOf(voucher, D, u))
  <2>1. account[u] = [limit |-> account[u].limit, avail |-> account[u].avail + 0]
    BY <1>2 DEF Account
  <2>2. Raise(account[u], 0) = account[u]
    BY <1>2, <2>1, RaiseIs
  <2> QED
    BY <1>1, <1>5, <2>2
<1>7. account' = [u \in User |-> Raise(account[u], RefundOf(voucher, D, u))]
  <2>1. account' = [u \in User |-> account'[u]]
    BY <1>1
  <2> HIDE DEF D
  <2> QED
    BY <1>6, <2>1
<1>8. \A v \in D : voucher[v].state = "issued" /\ v \in lapsed["postgres"]
                   /\ V[v] = [voucher[v] EXCEPT !.state = "expired"]
  BY <1>3 DEF Expiring
<1>9. voucher' = [v \in Voucher |-> IF v \in D THEN [voucher[v] EXCEPT !.state = "expired"]
                                   ELSE voucher[v]]
  BY <1>1, <1>8
<1> HIDE DEF D
<1>10. D \in SUBSET Voucher /\ Swept(D)
  BY <1>1, <1>3, <1>4, <1>7, <1>8, <1>9 DEF Swept
<1> QED
  BY <1>10

LEMMA CommitLedger ==
  ASSUME IInv, StoreInv, NEW s \in Session, Commit(s)
  PROVE  (req[s] \in Request /\ Ledger!Apply(req[s])) \/ UNCHANGED <<open, account, voucher, trx, lapsed>>
<1> DEFINE r == req[s]
           A == work[s].acct
           V == work[s].vch
<1>1. /\ account' = [u \in User |-> IF u \in DOMAIN A THEN A[u] ELSE account[u]]
      /\ voucher' = [v \in Voucher |-> IF v \in DOMAIN V THEN V[v] ELSE voucher[v]]
      /\ trx' = trx \cup work[s].rows /\ open' = open /\ lapsed' = lapsed
      /\ Disjoint(work[s].rows, trx) /\ pc[s] = "commit" /\ CallOK(s) /\ Checked(s)
      /\ IF r.op = "expire" THEN SweepOK(s) ELSE Written(s)
  BY CommitIs
<1>2. /\ r \in Request /\ r.op \in Op /\ r.op # "deposit" /\ r.user \in User /\ r.to \in User
      /\ r.voucher \in Voucher /\ r.amount \in Nat
  BY <1>1, RequestFields DEF CallOK
<1>3. account \in [User -> Account] /\ voucher \in [Voucher -> VoucherRow]
  BY DEF IInv, TypeOK
<1>4. r.op # "expire" => /\ A = NewBalances(s) /\ V = NewVouchers(s) /\ work[s].rows = NewRows(s)
                         /\ Ledger!Journal(NewRows(s))
  BY <1>1, SameData DEF Written, Ledger!Journal
<1>5. r.op \in {"deduct", "issue", "transfer"} => r.amount <= account[r.user].avail
  BY <1>1 DEF IInv, SessionOK, Spending
<1> HIDE DEF r, A, V
<1>6. ASSUME r.op \in {"deduct", "issue"}
      PROVE  Ledger!Spend(r.user, r.amount)
  <2>1. A = Moved(r.user, 0 - r.amount)
    BY <1>4, <1>6 DEF NewBalances, r
  <2>2. account' = [account EXCEPT ![r.user].avail = @ - r.amount]
    BY <1>1, <1>2, <2>1, MoveOne
  <2>3. r.user \in open
    BY <1>1, <1>6 DEF Checked, r
  <2> QED
    BY <1>5, <1>6, <2>2, <2>3 DEF Ledger!Spend
<1>7. ASSUME r.op \in {"deduct", "transfer", "reward"}
      PROVE  voucher' = voucher
  <2>1. DOMAIN V = {}
    BY <1>4, <1>7 DEF NewVouchers, Nothing, r
  <2>2. \A v \in Voucher : voucher'[v] = voucher[v]
    BY <1>1, <2>1
  <2> QED
    BY <1>1, <1>3, <2>2
<1>8. CASE r.op = "deduct"
  <2>1. NewRows(s) = {DeductRow(r)}
    BY <1>8 DEF NewRows, r
  <2>2. Ledger!Deduct(r)
    BY <1>1, <1>4, <1>6, <1>7, <1>8, <2>1, SameData DEF Ledger!Deduct
  <2> QED
    BY <1>2, <1>8, <2>2 DEF Ledger!Apply, r
<1>9. CASE r.op = "issue"
  <2>1. NewRows(s) = {IssueRow(r)} /\ V = Only(r.voucher, Issued(r))
    BY <1>4, <1>9 DEF NewRows, NewVouchers, r
  <2>2. voucher[r.voucher].state = "none"
    BY <1>1, <1>9 DEF CallOK, r
  <2>3. voucher' = [voucher EXCEPT ![r.voucher] =
                      [state |-> "issued", user |-> r.user, amount |-> r.amount]]
    BY <1>1, <1>2, <1>3, <2>1 DEF Only, Issued
  <2>4. Ledger!Issue(r)
    BY <1>1, <1>4, <1>6, <1>9, <2>1, <2>2, <2>3, SameData DEF Ledger!Issue
  <2> QED
    BY <1>2, <1>9, <2>4 DEF Ledger!Apply, r
<1>10. CASE r.op = "transfer"
  <2> DEFINE u == r.user
             w == r.to
             n == r.amount
  <2>1. /\ NewRows(s) = TransferRows(r) /\ A = Over(Moved(u, 0 - n), Moved(w, n))
        /\ u # w /\ {u, w} \subseteq open
    BY <1>1, <1>4, <1>10 DEF NewRows, NewBalances, CallOK, Checked, r
  <2>2. DOMAIN A = {u, w} /\ A[u] = Raise(account[u], 0 - n) /\ A[w] = Raise(account[w], n)
    BY <2>1 DEF Over, Moved, Only, Raise
  <2>3. Raise(account[u], 0 - n) = [account[u] EXCEPT !.avail = @ - n]
    BY <1>2, <1>3, RaiseDown
  <2>4. account' = [account EXCEPT ![u].avail = @ - n, ![w].avail = @ + n]
    <3>1. account' = [x \in User |-> IF x = u THEN [account[u] EXCEPT !.avail = @ - n]
                                     ELSE IF x = w THEN [account[w] EXCEPT !.avail = @ + n]
                                     ELSE account[x]]
      BY <1>1, <2>1, <2>2, <2>3 DEF Raise
    <3> HIDE DEF u, w, n
    <3> QED
      BY <1>3, <2>1, <3>1
  <2>5. Ledger!Transfer(r)
    BY <1>1, <1>4, <1>5, <1>7, <1>10, <2>1, <2>4, SameData DEF Ledger!Transfer
  <2> QED
    BY <1>2, <1>10, <2>5 DEF Ledger!Apply, r
<1>11. CASE r.op = "reward"
  <2> DEFINE u == r.user
             n == r.amount
  <2>1. /\ NewRows(s) = {RewardRow(r)} /\ u \in open
        /\ A = Only(u, [limit |-> account[u].limit + n, avail |-> account[u].avail + n])
    BY <1>1, <1>4, <1>11 DEF NewRows, NewBalances, Checked, r
  <2>2. account[u] = [limit |-> account[u].limit, avail |-> account[u].avail]
    BY <1>2, <1>3 DEF Account
  <2>3. account' = [account EXCEPT ![u].limit = @ + n, ![u].avail = @ + n]
    <3>1. account' = [x \in User |-> IF x = u THEN [limit |-> account[u].limit + n,
                                                    avail |-> account[u].avail + n]
                                     ELSE account[x]]
      BY <1>1, <2>1 DEF Only
    <3> HIDE DEF u, n
    <3> QED
      BY <1>3, <2>2, <3>1
  <2>4. Ledger!Reward(r)
    BY <1>1, <1>4, <1>7, <1>11, <2>1, <2>3, SameData DEF Ledger!Reward
  <2> QED
    BY <1>2, <1>11, <2>4 DEF Ledger!Apply, r
<1>12. CASE r.op = "redeem"
  <2> DEFINE v == r.voucher
  <2>1. /\ NewRows(s) = {RedeemRow(r, voucher[v])} /\ A = Nothing /\ voucher[v].state = "issued"
        /\ V = Only(v, [voucher[v] EXCEPT !.state = "redeemed"])
    BY <1>1, <1>4, <1>12 DEF NewRows, NewBalances, NewVouchers, Checked, r
  <2>2. account' = account
    <3>1. \A u \in User : account'[u] = account[u]
      BY <1>1, <2>1 DEF Nothing
    <3> QED
      BY <1>1, <1>3, <3>1
  <2>3. voucher' = [voucher EXCEPT ![v].state = "redeemed"]
    BY <1>1, <1>3, <2>1 DEF Only
  <2>4. Ledger!Redeem(r)
    BY <1>1, <1>4, <1>12, <2>1, <2>2, <2>3, SameData DEF Ledger!Redeem
  <2> QED
    BY <1>2, <1>12, <2>4 DEF Ledger!Apply, r
<1>13. CASE r.op = "expire"
  <2>1. PICK D \in SUBSET Voucher : Swept(D)
    BY <1>13, SweepCommit DEF r
  <2>2. \A u \in User : account[u] \in Account
    BY <1>3
  <2>3. CASE D = {}
    <3>1. \A u \in User : account'[u] = Raise(account[u], 0)
      BY <2>1, <2>3, RefundNone DEF Swept
    <3>2. ASSUME NEW u \in User PROVE account'[u] = account[u]
      <4>1. account[u] = [limit |-> account[u].limit, avail |-> account[u].avail + 0]
        BY <2>2 DEF Account
      <4> QED
        BY <2>2, <3>1, <4>1, RaiseIs
    <3>3. account' = account
      BY <1>1, <1>3, <3>2
    <3>4. voucher' = voucher
      BY <1>3, <2>1, <2>3 DEF Swept
    <3>5. trx' = trx
      BY <2>1, <2>3 DEF Swept, Audit
    <3> QED
      BY <1>1, <3>3, <3>4, <3>5
  <2>4. CASE D # {}
    <3>1. account' = [u \in User |-> [account[u] EXCEPT !.avail = @ + Ledger!Refund(D, u)]]
      BY <2>1, SameData DEF Swept, Raise
    <3>2. Ledger!Journal({Ledger!ExpireRow(v, voucher[v]) : v \in D})
      BY <2>1, SameData DEF Swept, Audit, Ledger!Journal
    <3>3. Ledger!Expire(D)
      BY <1>1, <2>1, <2>4, <3>1, <3>2 DEF Swept, Ledger!Expire
    <3> QED
      BY <1>2, <1>13, <3>3 DEF Ledger!Apply, r
  <2> QED
    BY <2>3, <2>4
<1> QED
  BY <1>2, <1>8, <1>9, <1>10, <1>11, <1>12, <1>13 DEF Op

(***************************************************************************)
(* The journal of the vouchers, over steps of WalletLedger.                *)
(***************************************************************************)
OfNoVoucher(rows) == \A x \in rows : x.kind \notin {"issue", "expire"}

LEMMA OtherRows ==
  ASSUME VouchersOK, NEW rows, trx' = trx \cup rows, voucher' = voucher, OfNoVoucher(rows)
  PROVE  VouchersOK'
BY DEF VouchersOK, Reserved, OfNoVoucher

LEMMA OneVoucher ==
  ASSUME VouchersOK, NEW w \in Voucher, NEW x, trx' = trx \cup {x}, x.kind # "expire",
         \A v \in Voucher \ {w} :
           voucher'[v] = voucher[v] /\ (x.kind # "issue" \/ x.code # IssueCode(v)),
         voucher[w].state # "expired", voucher'[w].state \notin {"none", "expired"},
         voucher[w].state # "none" \/ (x.kind = "issue" /\ x.code = IssueCode(w))
  PROVE  VouchersOK'
<1>1. ASSUME NEW v \in Voucher
      PROVE  (voucher'[v].state # "none") = Reserved(v)'
  <2>1. (voucher[v].state # "none") = Reserved(v)
    BY DEF VouchersOK
  <2>2. CASE v = w
    BY <2>1, <2>2 DEF Reserved
  <2>3. CASE v # w
    BY <2>1, <2>3 DEF Reserved
  <2> QED
    BY <2>2, <2>3
<1>2. ASSUME NEW v \in Voucher
      PROVE  voucher'[v].state = "expired" => ExpireRow(v, voucher'[v]) \in trx'
  BY DEF VouchersOK
<1>3. ASSUME NEW v \in Voucher, NEW y \in trx', y.kind = "expire", y.code = ExpireCode(v)
      PROVE  voucher'[v].state = "expired"
  <2>1. y \in trx
    BY <1>3
  <2>2. voucher[v].state = "expired"
    BY <1>3, <2>1 DEF VouchersOK
  <2> QED
    BY <2>2
<1> QED
  BY <1>1, <1>2, <1>3 DEF VouchersOK

LEMMA LedgerVouchers ==
  ASSUME IInv, VouchersOK, NEW r \in Request, Ledger!Apply(r)
  PROVE  VouchersOK'
<1>1. /\ r.op \in Op /\ r.voucher \in Voucher /\ r.user \in User
      /\ voucher \in [Voucher -> VoucherRow]
  BY DataAssumption DEF RequestType, IInv, TypeOK
<1>2. \A rows : Ledger!Journal(rows) => trx' = trx \cup rows /\ Disjoint(rows, trx)
  BY SameData DEF Ledger!Journal
<1>3. CASE Ledger!Deposit(r)
  BY <1>3 DEF Ledger!Deposit, VouchersOK, Reserved
<1>4. CASE Ledger!Deduct(r)
  <2>1. trx' = trx \cup {DeductRow(r)} /\ voucher' = voucher
    BY <1>2, <1>4, SameData DEF Ledger!Deduct
  <2>2. OfNoVoucher({DeductRow(r)})
    BY DEF OfNoVoucher, DeductRow, Trx
  <2> QED
    BY <2>1, <2>2, OtherRows
<1>5. CASE Ledger!Transfer(r)
  <2>1. trx' = trx \cup TransferRows(r) /\ voucher' = voucher
    BY <1>2, <1>5, SameData DEF Ledger!Transfer
  <2>2. OfNoVoucher(TransferRows(r))
    BY DEF OfNoVoucher, TransferRows, Trx
  <2> QED
    BY <2>1, <2>2, OtherRows
<1>6. CASE Ledger!Reward(r)
  <2>1. trx' = trx \cup {RewardRow(r)} /\ voucher' = voucher
    BY <1>2, <1>6, SameData DEF Ledger!Reward
  <2>2. OfNoVoucher({RewardRow(r)})
    BY DEF OfNoVoucher, RewardRow, Trx
  <2> QED
    BY <2>1, <2>2, OtherRows
<1>7. CASE Ledger!Issue(r)
  <2>1. /\ trx' = trx \cup {IssueRow(r)} /\ voucher[r.voucher].state = "none"
        /\ voucher' = [voucher EXCEPT ![r.voucher] =
                         [state |-> "issued", user |-> r.user, amount |-> r.amount]]
    BY <1>2, <1>7, SameData DEF Ledger!Issue
  <2>2. IssueRow(r).code = IssueCode(r.voucher) /\ IssueRow(r).kind = "issue"
    BY DEF IssueRow, Trx
  <2>3. voucher'[r.voucher].state = "issued"
    BY <1>1, <2>1
  <2>4. \A v \in Voucher \ {r.voucher} : voucher'[v] = voucher[v]
    BY <1>1, <2>1
  <2>5. \A v \in Voucher \ {r.voucher} : IssueRow(r).code # IssueCode(v)
    BY <2>2, CodesAre
  <2> QED
    BY <1>1, <2>1, <2>2, <2>3, <2>4, <2>5, OneVoucher
<1>8. CASE Ledger!Redeem(r)
  <2> DEFINE w == r.voucher
  <2>1. /\ trx' = trx \cup {RedeemRow(r, voucher[w])} /\ voucher[w].state = "issued"
        /\ voucher' = [voucher EXCEPT ![w].state = "redeemed"]
    BY <1>2, <1>8, SameData DEF Ledger!Redeem
  <2>2. RedeemRow(r, voucher[w]).kind = "redeem"
    BY DEF RedeemRow, Trx
  <2>3. voucher'[w].state = "redeemed"
    BY <1>1, <2>1 DEF VoucherRow
  <2>4. \A v \in Voucher \ {w} : voucher'[v] = voucher[v]
    BY <1>1, <2>1
  <2> QED
    BY <1>1, <2>1, <2>2, <2>3, <2>4, OneVoucher
<1>9. CASE \E D \in SUBSET Voucher : Ledger!Expire(D)
  <2>1. PICK D \in SUBSET Voucher : Ledger!Expire(D)
    BY <1>9
  <2>2. {Ledger!ExpireRow(v, voucher[v]) : v \in D} = {ExpireRow(v, voucher[v]) : v \in D}
    BY SameData
  <2>3. /\ trx' = trx \cup {ExpireRow(v, voucher[v]) : v \in D}
        /\ \A v \in D : voucher[v].state = "issued"
        /\ voucher' = [v \in Voucher |->
             IF v \in D THEN [voucher[v] EXCEPT !.state = "expired"] ELSE voucher[v]]
    BY <1>2, <2>1, <2>2 DEF Ledger!Expire
  <2>4. \A v : /\ ExpireRow(v, voucher[v]).code = ExpireCode(v)
               /\ ExpireRow(v, voucher[v]).kind = "expire"
    BY DEF ExpireRow, Trx
  <2>5. ASSUME NEW v \in D
        PROVE  voucher'[v].state = "expired" /\ ExpireRow(v, voucher'[v]) = ExpireRow(v, voucher[v])
    <3>1. voucher'[v] = [voucher[v] EXCEPT !.state = "expired"] /\ voucher[v] \in VoucherRow
      BY <1>1, <2>3
    <3>2. /\ voucher'[v].state = "expired" /\ voucher'[v].user = voucher[v].user
          /\ voucher'[v].amount = voucher[v].amount
      BY <3>1 DEF VoucherRow
    <3> QED
      BY <3>2 DEF ExpireRow
  <2>6. \A v \in Voucher \ D : voucher'[v] = voucher[v]
    BY <2>3
  <2>7. ASSUME NEW v \in Voucher
        PROVE  (voucher'[v].state # "none") = Reserved(v)'
    <3>1. (voucher[v].state # "none") = (voucher'[v].state # "none")
      BY <2>3, <2>5, <2>6
    <3>2. Reserved(v) = Reserved(v)'
      BY <2>3, <2>4 DEF Reserved
    <3> QED
      BY <3>1, <3>2 DEF VouchersOK
  <2>8. ASSUME NEW v \in Voucher, voucher'[v].state = "expired"
        PROVE  ExpireRow(v, voucher'[v]) \in trx'
    BY <2>3, <2>5, <2>6, <2>8 DEF VouchersOK
  <2>9. ASSUME NEW v \in Voucher, NEW x \in trx', x.kind = "expire", x.code = ExpireCode(v)
        PROVE  voucher'[v].state = "expired"
    <3>1. CASE x \in trx
      BY <2>5, <2>6, <2>9, <3>1 DEF VouchersOK
    <3>2. CASE x \notin trx
      <4>1. PICK w \in D : x = ExpireRow(w, voucher[w])
        BY <2>3, <3>2
      <4>2. w = v
        BY <2>4, <2>9, <4>1, CodesAre
      <4> QED
        BY <2>5, <4>1, <4>2
    <3> QED
      BY <3>1, <3>2
  <2> QED
    BY <2>7, <2>8, <2>9 DEF VouchersOK
<1> QED
  BY <1>3, <1>4, <1>5, <1>6, <1>7, <1>8, <1>9 DEF Ledger!Apply

LEMMA LapseVouchers ==
  ASSUME VouchersOK, UNCHANGED <<voucher, trx>>
  PROVE  VouchersOK'
BY DEF VouchersOK, Reserved

(***************************************************************************)
(* A commit leaves to the other sessions the rows they have locked.        *)
(***************************************************************************)
LEMMA CommitKeeps ==
  ASSUME IInv, StoreInv, NEW s \in Session, Commit(s), NEW t \in Session \ {s}
  PROVE  Keeps(t)
<1> DEFINE A == work[s].acct
           V == work[s].vch
<1>1. /\ account' = [u \in User |-> IF u \in DOMAIN A THEN A[u] ELSE account[u]]
      /\ voucher' = [v \in Voucher |-> IF v \in DOMAIN V THEN V[v] ELSE voucher[v]]
      /\ open' = open /\ lapsed' = lapsed /\ CallOK(s) /\ Checked(s) /\ pc[s] = "commit"
      /\ IF req[s].op = "expire" THEN SweepOK(s) ELSE Written(s)
  BY CommitIs
<1>2. Release(s)
  BY DEF Commit
<1>3. /\ pc'[t] = pc[t] /\ req'[t] = req[t] /\ work'[t] = work[t]
      /\ \A r \in Row : \A m \in Mode : Holds(t, r, m)' = Holds(t, r, m)
  BY <1>2, ReleaseSession, ReleaseLocks
<1>4. todo'[t] = todo[t]
  BY <1>2 DEF Release, IInv, TypeOK
<1>5. account \in [User -> Account] /\ voucher \in [Voucher -> VoucherRow]
  BY DEF IInv, TypeOK
<1>6. ASSUME NEW u \in User, Holds(t, Acct(u), "N") \/ Holds(t, Acct(u), "X")
      PROVE  account'[u] = account[u]
  <2>1. Acct(u) \in Row
    BY DEF Acct, Row
  <2>2. ~Holds(s, Acct(u), "X") /\ ~Holds(s, Acct(u), "N")
    BY <1>6, <2>1 DEF IInv, LocksExclude, Conflict, Mode
  <2>3. u \notin DOMAIN A
    BY <2>2 DEF IInv, SessionOK
  <2> QED
    BY <1>1, <2>3
<1>7. \A v \in DOMAIN V : v \in Voucher
  BY DEF IInv, TypeOK, IsPartial
<1>8. ASSUME NEW v \in DOMAIN V, voucher[v].state # "none"
      PROVE  voucher[v].state = "issued" /\ (Holds(s, Vch(v), "N") \/ Holds(s, Vch(v), "X"))
  <2>1. CASE req[s].op = "expire"
    BY <1>1, <2>1 DEF SweepOK, Expiring
  <2>2. CASE req[s].op # "expire"
    <3>1. V = NewVouchers(s) /\ req[s].op \in Op
      BY <1>1, <2>2, RequestFields DEF Written
    <3>2. CASE req[s].op = "redeem"
      BY <1>1, <3>1, <3>2 DEF NewVouchers, Only, Checked
    <3>3. CASE req[s].op # "redeem"
      BY <1>1, <1>8, <3>1, <3>3 DEF NewVouchers, Only, Nothing, CallOK
    <3> QED
      BY <3>2, <3>3
  <2> QED
    BY <2>1, <2>2
<1>9. ASSUME NEW v \in Voucher, Holds(t, Vch(v), "N") \/ Holds(t, Vch(v), "X"),
             voucher[v].state = "issued"
      PROVE  voucher'[v] = voucher[v]
  <2>1. Vch(v) \in Row
    BY DEF Vch, Row
  <2>2. ~Holds(s, Vch(v), "X") /\ ~Holds(s, Vch(v), "N")
    BY <1>9, <2>1 DEF IInv, LocksExclude, Conflict, Mode
  <2>3. v \notin DOMAIN V
    BY <1>8, <1>9, <2>2
  <2> QED
    BY <1>1, <2>3
<1>10. ASSUME Issues(t) PROVE voucher'[req[t].voucher] = voucher[req[t].voucher]
  <2> DEFINE v == req[t].voucher
  <2>1. v \in Voucher /\ voucher[v].state = "none"
    BY <1>10, RequestFields DEF Issues, StoreInv, StoreOK, CallOK
  <2>2. ASSUME v \in DOMAIN V PROVE FALSE
    <3>1. CASE req[s].op = "expire"
      BY <1>1, <2>1, <2>2, <3>1 DEF SweepOK, Expiring
    <3>2. CASE req[s].op # "expire"
      <4>1. V = NewVouchers(s) /\ req[s].op \in Op
        BY <1>1, <3>2, RequestFields DEF Written
      <4>2. CASE req[s].op = "redeem"
        BY <1>1, <2>1, <2>2, <4>1, <4>2 DEF NewVouchers, Only, Checked
      <4>3. CASE req[s].op = "issue"
        <5>1. req[s].voucher # v
          BY <1>1, <1>10, <4>3 DEF StoreInv, Apart, Issues
        <5> QED
          BY <2>2, <4>1, <4>3, <5>1 DEF NewVouchers, Only
      <4>4. CASE req[s].op \notin {"redeem", "issue"}
        BY <2>2, <4>1, <4>4 DEF NewVouchers, Nothing
      <4> QED
        BY <4>2, <4>3, <4>4
    <3> QED
      BY <3>1, <3>2
  <2> QED
    BY <1>1, <2>1, <2>2
<1> QED
  BY <1>1, <1>3, <1>4, <1>6, <1>9, <1>10 DEF Keeps

LEMMA CommitStore ==
  ASSUME IInv, StoreInv, NEW s \in Session, Commit(s)
  PROVE  StoreInv'
<1>1. Release(s) /\ trx' = trx \cup work[s].rows
  BY DEF Commit
<1>2. /\ pc'[s] = "idle" /\ work'[s] = NoWork
      /\ \A t \in Session \ {s} : pc'[t] = pc[t] /\ req'[t] = req[t] /\ work'[t] = work[t]
  BY <1>1, ReleaseSession
<1>3. StoreOK(s)'
  BY <1>2 DEF StoreOK
<1>4. ASSUME NEW t \in Session \ {s} PROVE StoreOK(t)'
  BY CommitKeeps, KeepsSession DEF StoreInv
<1>5. work'[s].rows = {}
  BY <1>2 DEF NoWork
<1>6. ASSUME NEW t \in Session, NEW u \in Session, t # u PROVE Apart(t, u)'
  <2>1. CASE t = s \/ u = s
    BY <1>2, <1>5, <2>1 DEF Apart, Disjoint, Issues
  <2>2. CASE t # s /\ u # s
    BY <1>2, <1>6, <2>2 DEF StoreInv, Apart, Disjoint, Issues
  <2> QED
    BY <2>1, <2>2
<1>7. ASSUME NEW t \in Session PROVE Disjoint(work'[t].rows, trx')
  <2>1. CASE t = s
    BY <1>5, <2>1 DEF Disjoint
  <2>2. CASE t # s
    BY <1>1, <1>2, <2>2 DEF StoreInv, Apart, Disjoint
  <2> QED
    BY <2>1, <2>2
<1>8. VouchersOK'
  <2>1. VouchersOK
    BY DEF StoreInv
  <2> QED
    BY <2>1, CommitLedger, LedgerVouchers, LapseVouchers
<1> QED
  BY <1>3, <1>4, <1>6, <1>7, <1>8 DEF StoreInv

LEMMA StoreStep ==
  ASSUME IInv, StoreInv, [Next]_vars
  PROVE  StoreInv'
<1>1. CASE UNCHANGED vars
  <2>1. \A t \in Session : Keeps(t)
    BY <1>1 DEF vars, db, Keeps, Holds
  <2>2. \A t \in Session : StoreOK(t)'
    BY <2>1, KeepsSession DEF StoreInv
  <2> QED
    BY <1>1, <2>2 DEF StoreInv, vars, db, VouchersOK, Reserved, Apart, Issues
<1>2. ASSUME NEW s \in Session, NEW r \in Request, Begin(s, r) PROVE StoreInv'
  BY <1>2, BeginStore
<1>3. ASSUME NEW s \in Session, Step(s) PROVE StoreInv'
  <2>1. CASE DeductLock(s) \/ IssueLock(s)
    BY <2>1, LockAccountStore DEF DeductLock, IssueLock, At
  <2>2. CASE DeductUpdate(s) \/ IssueUpdate(s) \/ TransferLock(s) \/ TransferUpdate(s)
    BY <2>2, DeductStore, IssueStore, TransferLockStore, TransferStore
  <2>3. CASE RewardUpdate(s) \/ RedeemLock(s) \/ RedeemUpdate(s)
    BY <2>3, RewardStore, RedeemLockStore, RedeemStore
  <2>4. CASE ExpireScan(s) \/ ExpireUpdate(s) \/ ExpireRefund(s) \/ ExpireAudit(s)
    BY <2>4, ScanStore, SweepStore, RefundStore, AuditStore
  <2>5. CASE InsertTrx(s) \/ ForeignKey(s) \/ Commit(s)
    BY <2>5, InsertStore, ForeignKeyStore, CommitStore
  <2> QED
    BY <1>3, <2>1, <2>2, <2>3, <2>4, <2>5 DEF Step
<1>4. ASSUME NEW s \in Session, Fail(s) \/ AbortVictim(s) PROVE StoreInv'
  BY <1>4, RollbackStore DEF Fail, AbortVictim
<1>5. ASSUME NEW r \in Request, Deposit(r) PROVE StoreInv'
  BY <1>5, DepositStore
<1>6. ASSUME NEW c \in Clock, NEW v \in Voucher, Lapse(c, v) PROVE StoreInv'
  BY <1>6, LapseStore
<1> QED
  BY <1>1, <1>2, <1>3, <1>4, <1>5, <1>6 DEF Next

\* Everything a session is about to publish is determined by its request and the rows
\* it has locked, in every reachable state.
THEOREM StoreInvariant == Spec => []StoreInv
<1>1. Spec => []IInv
  BY InductiveInvariant
<1> QED
  BY <1>1, InitStore, StoreStep, PTL DEF Spec

(***************************************************************************)
(* WalletStore implements WalletLedger.                                    *)
(***************************************************************************)
ledger == <<open, account, voucher, trx, lapsed>>

\* Until it commits, a session changes nothing that is committed.
LEMMA OnlyCommitWrites ==
  ASSUME NEW s \in Session, Step(s) \/ Fail(s) \/ AbortVictim(s), ~Commit(s)
  PROVE  UNCHANGED db
<1>1. CASE DeductLock(s) \/ DeductUpdate(s) \/ IssueLock(s) \/ IssueUpdate(s)
  BY <1>1 DEF DeductLock, DeductUpdate, IssueLock, IssueUpdate, LockAccount, Rollback
<1>2. CASE TransferLock(s) \/ TransferUpdate(s) \/ RewardUpdate(s)
  BY <1>2 DEF TransferLock, TransferUpdate, RewardUpdate, Rollback
<1>3. CASE RedeemLock(s) \/ RedeemUpdate(s) \/ InsertTrx(s) \/ ForeignKey(s)
  BY <1>3 DEF RedeemLock, RedeemUpdate, InsertTrx, ForeignKey, Rollback
<1>4. CASE ExpireScan(s) \/ ExpireUpdate(s) \/ ExpireRefund(s) \/ ExpireAudit(s)
  BY <1>4 DEF ExpireScan, ExpireUpdate, ExpireRefund, ExpireAudit, Rollback
<1>5. CASE Fail(s) \/ AbortVictim(s)
  BY <1>5 DEF Fail, AbortVictim, Rollback
<1> QED
  BY <1>1, <1>2, <1>3, <1>4, <1>5 DEF Step

\* What a step of the store is to its callers.
LEMMA StepIs ==
  ASSUME IInv, StoreInv, [Next]_vars
  PROVE  \/ \E r \in Request : Ledger!Apply(r)
         \/ \E c \in Clock, v \in Voucher : Ledger!Lapse(c, v)
         \/ UNCHANGED ledger
<1> USE DEF ledger
<1>1. CASE UNCHANGED vars
  BY <1>1 DEF vars, db
<1>2. ASSUME NEW s \in Session, Commit(s)
      PROVE  (\E r \in Request : Ledger!Apply(r)) \/ UNCHANGED ledger
  BY <1>2, CommitLedger
<1>3. ASSUME NEW s \in Session, Step(s) \/ Fail(s) \/ AbortVictim(s), ~Commit(s)
      PROVE  UNCHANGED ledger
  BY <1>3, OnlyCommitWrites DEF db
<1>4. ASSUME NEW s \in Session, NEW r \in Request, Begin(s, r) PROVE UNCHANGED ledger
  BY <1>4 DEF Begin, db
<1>5. ASSUME NEW r \in Request, Deposit(r) PROVE Ledger!Apply(r)
  BY <1>5 DEF Deposit, Ledger!Deposit, Ledger!Apply, Grant, Ledger!Grant
<1>6. ASSUME NEW c \in Clock, NEW v \in Voucher, Lapse(c, v) PROVE Ledger!Lapse(c, v)
  BY <1>6 DEF Lapse, Ledger!Lapse
<1> QED
  BY <1>1, <1>2, <1>3, <1>4, <1>5, <1>6 DEF Next

\* The detailed store implements the abstract one: each method of account.go and
\* vouchers.go is atomic to its callers, with a code applied at most once, however their
\* transactions interleave, fail and deadlock.
THEOREM ImplementsWalletLedger == Spec => ImplementsLedger
<1>1. Init => Ledger!Init
  BY DEF Init, Ledger!Init, Grant, Ledger!Grant, NoVoucher, Ledger!NoVoucher, Clock, Ledger!Clock
<1>2. IInv /\ StoreInv /\ [Next]_vars => [Ledger!Next]_(Ledger!vars)
  BY StepIs DEF Ledger!Next, Ledger!vars, ledger, Clock, Ledger!Clock
<1> QED
  BY <1>1, <1>2, InductiveInvariant, StoreInvariant, PTL DEF Spec, ImplementsLedger, Ledger!Spec

(***************************************************************************)
(* Vouchers: one redemption row for each redeemed voucher.                 *)
(***************************************************************************)
RedeemRows == {x \in trx : x.kind = "redeem"}
Redeemed == {v \in Voucher : voucher[v].state = "redeemed"}
RedeemsMatch ==
  /\ IsFiniteSet(RedeemRows) /\ IsFiniteSet(Redeemed)
  /\ Cardinality(RedeemRows) = Cardinality(Redeemed)

NoRedemption(rows) == \A x \in rows : x.kind # "redeem"

LEMMA KeepsRedeems ==
  ASSUME RedeemsMatch, NEW rows, trx' = trx \cup rows, NoRedemption(rows),
         \A v \in Voucher : voucher'[v].state = "redeemed" <=> voucher[v].state = "redeemed"
  PROVE  RedeemsMatch'
<1>1. RedeemRows' = RedeemRows /\ Redeemed' = Redeemed
  BY DEF RedeemRows, Redeemed, NoRedemption
<1> QED
  BY <1>1 DEF RedeemsMatch

LEMMA LedgerRedeems ==
  ASSUME IInv, RedeemsMatch, NEW r \in Request, Ledger!Apply(r)
  PROVE  RedeemsMatch'
<1>1. /\ r.op \in Op /\ r.voucher \in Voucher /\ r.user \in User
      /\ voucher \in [Voucher -> VoucherRow]
  BY DataAssumption DEF RequestType, IInv, TypeOK
<1>2. \A rows : Ledger!Journal(rows) => trx' = trx \cup rows /\ Disjoint(rows, trx)
  BY SameData DEF Ledger!Journal
<1>3. CASE Ledger!Deposit(r)
  <2>1. RedeemRows' = RedeemRows /\ Redeemed' = Redeemed
    BY <1>3 DEF Ledger!Deposit, RedeemRows, Redeemed
  <2> QED
    BY <2>1 DEF RedeemsMatch
<1>4. CASE Ledger!Deduct(r)
  <2>1. trx' = trx \cup {DeductRow(r)} /\ voucher' = voucher
    BY <1>2, <1>4, SameData DEF Ledger!Deduct
  <2>2. NoRedemption({DeductRow(r)})
    BY DEF DeductRow, Trx, NoRedemption
  <2> QED
    BY <2>1, <2>2, KeepsRedeems
<1>5. CASE Ledger!Transfer(r)
  <2>1. trx' = trx \cup TransferRows(r) /\ voucher' = voucher
    BY <1>2, <1>5, SameData DEF Ledger!Transfer
  <2>2. NoRedemption(TransferRows(r))
    BY DEF TransferRows, Trx, NoRedemption
  <2> QED
    BY <2>1, <2>2, KeepsRedeems
<1>6. CASE Ledger!Reward(r)
  <2>1. trx' = trx \cup {RewardRow(r)} /\ voucher' = voucher
    BY <1>2, <1>6, SameData DEF Ledger!Reward
  <2>2. NoRedemption({RewardRow(r)})
    BY DEF RewardRow, Trx, NoRedemption
  <2> QED
    BY <2>1, <2>2, KeepsRedeems
<1>7. CASE Ledger!Issue(r)
  <2>1. /\ trx' = trx \cup {IssueRow(r)} /\ voucher[r.voucher].state = "none"
        /\ voucher' = [voucher EXCEPT ![r.voucher] =
                         [state |-> "issued", user |-> r.user, amount |-> r.amount]]
    BY <1>2, <1>7, SameData DEF Ledger!Issue
  <2>2. NoRedemption({IssueRow(r)})
    BY DEF IssueRow, Trx, NoRedemption
  <2>3. \A v \in Voucher : voucher'[v].state = "redeemed" <=> voucher[v].state = "redeemed"
    BY <1>1, <2>1
  <2> QED
    BY <2>1, <2>2, <2>3, KeepsRedeems
<1>8. CASE Ledger!Redeem(r)
  <2> DEFINE w == r.voucher
             x == RedeemRow(r, voucher[w])
  <2>1. /\ trx' = trx \cup {x} /\ Disjoint({x}, trx) /\ voucher[w].state = "issued"
        /\ voucher' = [voucher EXCEPT ![w].state = "redeemed"]
    BY <1>2, <1>8, SameData DEF Ledger!Redeem
  <2>2. x.kind = "redeem" /\ x \notin trx
    BY <2>1 DEF RedeemRow, Trx, Disjoint
  <2>3. \A v \in Voucher : voucher'[v].state = "redeemed" <=> v = w \/ voucher[v].state = "redeemed"
    BY <1>1, <2>1 DEF VoucherRow
  <2> HIDE DEF x
  <2>4. RedeemRows' = RedeemRows \cup {x} /\ x \notin RedeemRows
    BY <2>1, <2>2 DEF RedeemRows
  <2>5. Redeemed' = Redeemed \cup {w} /\ w \notin Redeemed
    BY <1>1, <2>1, <2>3 DEF Redeemed
  <2>6. /\ IsFiniteSet(RedeemRows') /\ Cardinality(RedeemRows') = Cardinality(RedeemRows) + 1
        /\ IsFiniteSet(Redeemed') /\ Cardinality(Redeemed') = Cardinality(Redeemed) + 1
    BY <2>4, <2>5, FS_AddElement DEF RedeemsMatch
  <2> QED
    BY <2>6 DEF RedeemsMatch
<1>9. CASE \E D \in SUBSET Voucher : Ledger!Expire(D)
  <2>1. PICK D \in SUBSET Voucher : Ledger!Expire(D)
    BY <1>9
  <2>2. {Ledger!ExpireRow(v, voucher[v]) : v \in D} = {ExpireRow(v, voucher[v]) : v \in D}
    BY SameData
  <2>3. /\ trx' = trx \cup {ExpireRow(v, voucher[v]) : v \in D}
        /\ \A v \in D : voucher[v].state = "issued"
        /\ voucher' = [v \in Voucher |->
             IF v \in D THEN [voucher[v] EXCEPT !.state = "expired"] ELSE voucher[v]]
    BY <1>2, <2>1, <2>2 DEF Ledger!Expire
  <2>4. NoRedemption({ExpireRow(v, voucher[v]) : v \in D})
    BY DEF ExpireRow, Trx, NoRedemption
  <2>5. \A v \in Voucher : voucher'[v].state = "redeemed" <=> voucher[v].state = "redeemed"
    <3>1. \A v \in D : voucher'[v].state = "expired" /\ voucher[v].state # "redeemed"
      BY <1>1, <2>3 DEF VoucherRow
    <3>2. \A v \in Voucher \ D : voucher'[v] = voucher[v]
      BY <2>3
    <3> QED
      BY <3>1, <3>2
  <2> QED
    BY <2>3, <2>4, <2>5, KeepsRedeems
<1> QED
  BY <1>3, <1>4, <1>5, <1>6, <1>7, <1>8, <1>9 DEF Ledger!Apply

\* RedeemVoucher, ExpireVouchers: a voucher is spent or refunded at most once, whatever
\* redemptions and sweeps race, and the journal shows which.
THEOREM VouchersSettleOnce == Spec => []VoucherSettledOnce
<1>1. Init => RedeemsMatch
  <2> SUFFICES ASSUME Init PROVE RedeemsMatch
    OBVIOUS
  <2>1. RedeemRows = {} /\ Redeemed = {}
    BY DEF Init, RedeemRows, Redeemed, NoVoucher
  <2> QED
    BY <2>1, FS_EmptySet DEF RedeemsMatch
<1>2. IInv /\ StoreInv /\ RedeemsMatch /\ [Next]_vars => RedeemsMatch'
  <2> SUFFICES ASSUME IInv, StoreInv, RedeemsMatch, [Next]_vars PROVE RedeemsMatch'
    OBVIOUS
  <2>1. CASE UNCHANGED <<voucher, trx>>
    BY <2>1 DEF RedeemsMatch, RedeemRows, Redeemed
  <2>2. CASE \E r \in Request : Ledger!Apply(r)
    BY <2>2, LedgerRedeems
  <2> QED
    BY <2>1, <2>2, StepIs DEF Ledger!Lapse, ledger
<1>3. StoreInv /\ RedeemsMatch => VoucherSettledOnce
  <2> SUFFICES ASSUME StoreInv, RedeemsMatch PROVE VoucherSettledOnce
    OBVIOUS
  <2>1. \A v \in Voucher : /\ ExpireRow(v, voucher[v]).code = ExpireCode(v)
                          /\ ExpireRow(v, voucher[v]).kind = "expire"
    BY DEF ExpireRow, Trx
  <2>2. VouchersOK
    BY DEF StoreInv
  <2>3. ASSUME NEW v \in Voucher
        PROVE  /\ (voucher[v].state # "none") = Reserved(v)
               /\ (voucher[v].state = "expired") = (ExpireRow(v, voucher[v]) \in trx)
    <3>1. voucher[v].state = "expired" <=> ExpireRow(v, voucher[v]) \in trx
      BY <2>1, <2>2 DEF VouchersOK
    <3>2. (voucher[v].state # "none") = Reserved(v)
      BY <2>2 DEF VouchersOK
    <3>3. (voucher[v].state = "expired") = (ExpireRow(v, voucher[v]) \in trx)
      BY <3>1
    <3> QED
      BY <3>2, <3>3, Zenon
  <2>4. Cardinality({x \in trx : x.kind = "redeem"}) =
          Cardinality({v \in Voucher : voucher[v].state = "redeemed"})
    BY DEF RedeemsMatch, RedeemRows, Redeemed
  <2> QED
    BY <2>3, <2>4 DEF VoucherSettledOnce
<1> QED
  BY <1>1, <1>2, <1>3, InductiveInvariant, StoreInvariant, PTL DEF Spec

(***************************************************************************)
(* The journal explains every balance.                                     *)
(***************************************************************************)
EffectSum(S) == MapThenSumSet(Effect, S)
Effects == [x \in TrxRow |-> Effect(x)]
OfUser(rows, u) == {x \in rows : x.user = u}
RowsSince(u) == {x \in trx \ before[u] : x.user = u}

Balanced(row, S) == row.avail = row.limit + EffectSum(S)
JournalOK ==
  /\ IsFiniteSet(trx)
  /\ \A u \in User : before[u] \subseteq trx /\ Balanced(account[u], RowsSince(u))

\* The gap between available credit and limit grows by n.
Gains(row, new, n) == new \in Account /\ new.avail - new.limit = (row.avail - row.limit) + n

LEMMA EffectType == ASSUME NEW x \in TrxRow PROVE Effect(x) \in Int
<1>1. x.amount \in Int
  BY DEF TrxRow
<1> QED
  BY <1>1 DEF Effect

LEMMA EffectSumIs ==
  ASSUME NEW S, S \subseteq TrxRow, IsFiniteSet(S)
  PROVE  /\ Integers(Effects, S) /\ EffectSum(S) \in Int
         /\ EffectSum(S) = SumFunctionOnSet(Effects, S)
<1> DEFINE e == [x \in S |-> Effect(x)]
<1>1. \A x \in S : Effect(x) \in Int /\ Effects[x] = Effect(x) /\ e[x] = Effect(x)
  BY EffectType DEF Effects
<1>2. EffectSum(S) = SumFunctionOnSet(e, S)
  BY <1>1, EffectsAreSum DEF EffectSum
<1>3. Integers(Effects, S) /\ Agree(Effects, e, S)
  BY <1>1 DEF Integers, Agree
<1> HIDE DEF e
<1>4. SumFunctionOnSet(Effects, S) = SumFunctionOnSet(e, S) /\ SumFunctionOnSet(Effects, S) \in Int
  BY <1>3, SumSame, SumType
<1> QED
  BY <1>2, <1>3, <1>4

LEMMA EffectAdd ==
  ASSUME NEW S, S \subseteq TrxRow, IsFiniteSet(S), NEW x \in TrxRow, x \notin S
  PROVE  EffectSum(S \cup {x}) = EffectSum(S) + Effect(x)
<1> DEFINE T == S \cup {x}
<1>1. IsFiniteSet(T) /\ T \subseteq TrxRow
  BY FS_AddElement
<1>2. Integers(Effects, S) /\ EffectSum(S) = SumFunctionOnSet(Effects, S) /\ EffectSum(S) \in Int
  BY EffectSumIs
<1>3. Effects[x] = Effect(x) /\ Effect(x) \in Int
  BY EffectType DEF Effects
<1>4. SumFunctionOnSet(Effects, T) = Effects[x] + SumFunctionOnSet(Effects, S)
  BY <1>2, <1>3, SumAdd
<1> HIDE DEF T
<1>5. EffectSum(T) = SumFunctionOnSet(Effects, T)
  BY <1>1, EffectSumIs
<1> QED
  BY <1>2, <1>3, <1>4, <1>5 DEF T

\* The audit rows of a sweep add up to its refunds.
LEMMA AuditSum ==
  ASSUME NEW vs \in [Voucher -> VoucherRow], NEW D \in SUBSET Voucher, IsFiniteSet(D),
         NEW T, T \subseteq TrxRow, IsFiniteSet(T), Disjoint(Audit(vs, D), T), NEW u
  PROVE  /\ IsFiniteSet(Audit(vs, D)) /\ Audit(vs, D) \subseteq TrxRow
         /\ EffectSum(T \cup OfUser(Audit(vs, D), u)) = EffectSum(T) + RefundOf(vs, D, u)
<1> DEFINE All(E) == T \cup OfUser(Audit(vs, E), u)
           Good(E) == /\ IsFiniteSet(Audit(vs, E))
                      /\ EffectSum(All(E)) = EffectSum(T) + RefundOf(vs, E, u)
           W == {E \in SUBSET D : ~Good(E)}
           N == {Cardinality(E) : E \in W}
<1>1. ASSUME NEW v \in D
      PROVE  /\ ExpireRow(v, vs[v]) \in TrxRow /\ ExpireRow(v, vs[v]).code = ExpireCode(v)
             /\ ExpireRow(v, vs[v]).user = vs[v].user /\ vs[v].amount \in Nat
             /\ Effect(ExpireRow(v, vs[v])) = vs[v].amount
  <2>1. v \in Nat /\ vs[v] \in VoucherRow
    BY DataAssumption
  <2>2. vs[v].amount \in Nat /\ vs[v].user \in User
    BY <2>1 DEF VoucherRow
  <2> QED
    BY <2>1, <2>2, CodesAre DEF ExpireRow, Trx, TrxRow, Kind, Effect
<1>2. Audit(vs, D) \subseteq TrxRow
  BY <1>1 DEF Audit
<1>3. EffectSum(T) \in Int
  BY EffectSumIs
<1>4. Good({})
  <2>1. Audit(vs, {}) = {} /\ All({}) = T
    BY DEF Audit, OfUser
  <2>2. RefundOf(vs, {}, u) = 0
    BY RefundNone
  <2>3. IsFiniteSet(Audit(vs, {}))
    BY <2>1, FS_EmptySet
  <2> HIDE DEF All
  <2>4. EffectSum(All({})) = EffectSum(T) + RefundOf(vs, {}, u)
    BY <1>3, <2>1, <2>2
  <2> QED
    BY <2>3, <2>4
<1>5. ASSUME NEW E \in SUBSET D, Good(E), NEW v \in D \ E PROVE Good(E \cup {v})
  <2> DEFINE x == ExpireRow(v, vs[v])
             A == Audit(vs, E)
             O == T \cup OfUser(A, u)
  <2>1. Audit(vs, E \cup {v}) = A \cup {x}
    BY DEF Audit
  <2>2. IsFiniteSet(A) /\ EffectSum(O) = EffectSum(T) + RefundOf(vs, E, u)
    BY <1>5
  <2>3. IsFiniteSet(A \cup {x})
    BY <2>2, FS_AddElement
  <2>4. x \in TrxRow /\ x.user = vs[v].user /\ Effect(x) = vs[v].amount /\ vs[v].amount \in Nat
    BY <1>1
  <2>5. x \notin O
    <3>1. x \notin A
      <4>1. \A w \in E : ExpireRow(w, vs[w]) # x
        BY <1>1, CodesAre
      <4> HIDE DEF x
      <4> QED
        BY <4>1 DEF Audit
    <3>2. x \in Audit(vs, D)
      BY DEF Audit
    <3>3. x \notin T
      BY <3>2 DEF Disjoint
    <3> HIDE DEF x, A
    <3> QED
      BY <3>1, <3>3 DEF OfUser
  <2>6. Amounts(vs, E) /\ RefundOf(vs, E, u) \in Int
    <3>1. IsFiniteSet(E) /\ \A w \in E : vs[w].amount \in Nat
      BY <1>1, FS_Subset
    <3> QED
      BY <3>1, RefundType DEF Amounts
  <2>7. RefundOf(vs, E \cup {v}, u) =
          RefundOf(vs, E, u) + (IF vs[v].user = u THEN vs[v].amount ELSE 0)
    BY <2>4, <2>6, RefundMore
  <2>8. IsFiniteSet(O) /\ O \subseteq TrxRow
    <3>1. OfUser(A, u) \subseteq A /\ A \subseteq TrxRow
      BY <1>1 DEF OfUser, Audit
    <3> HIDE DEF A
    <3>2. IsFiniteSet(OfUser(A, u))
      BY <2>2, <3>1, FS_Subset
    <3> QED
      BY <3>1, <3>2, FS_Union
  <2> HIDE DEF x, A
  <2>9. CASE x.user = u
    <3>1. All(E \cup {v}) = O \cup {x}
      BY <2>1, <2>9 DEF OfUser
    <3> HIDE DEF O
    <3>2. EffectSum(O \cup {x}) = EffectSum(O) + Effect(x)
      BY <2>4, <2>5, <2>8, EffectAdd
    <3> HIDE DEF All
    <3>3. EffectSum(All(E \cup {v})) = EffectSum(O) + vs[v].amount
      BY <2>4, <3>1, <3>2
    <3>4. RefundOf(vs, E \cup {v}, u) = RefundOf(vs, E, u) + vs[v].amount
      BY <2>4, <2>7, <2>9
    <3>5. EffectSum(All(E \cup {v})) = EffectSum(T) + RefundOf(vs, E \cup {v}, u)
      BY <1>3, <2>2, <2>4, <2>6, <3>3, <3>4
    <3> QED
      BY <2>1, <2>3, <3>5
  <2>10. CASE x.user # u
    <3>1. All(E \cup {v}) = O
      BY <2>1, <2>10 DEF OfUser
    <3>2. RefundOf(vs, E \cup {v}, u) = RefundOf(vs, E, u)
      BY <2>4, <2>6, <2>7, <2>10
    <3> QED
      BY <2>1, <2>2, <2>3, <3>1, <3>2
  <2> QED
    BY <2>9, <2>10
<1> HIDE DEF Good
<1>6. W = {}
  <2>1. SUFFICES ASSUME W # {} PROVE FALSE
    OBVIOUS
  <2>2. \A E \in SUBSET D : IsFiniteSet(E) /\ Cardinality(E) \in Nat
    BY FS_Subset, FS_CardinalityType
  <2>3. PICK n \in N : \A m \in N : n <= m
    <3>1. N \subseteq Nat /\ N # {}
      BY <2>1, <2>2
    <3> HIDE DEF N
    <3> QED
      BY <3>1, LeastNat
  <2>4. PICK E \in W : Cardinality(E) = n
    BY <2>3
  <2>5. PICK v \in E : TRUE
    BY <1>4, <2>4
  <2>6. E \ {v} \in SUBSET D /\ Cardinality(E \ {v}) = n - 1 /\ n \in Nat
    BY <2>2, <2>4, <2>5, FS_RemoveElement
  <2>7. Good(E \ {v})
    <3>1. Cardinality(E \ {v}) \notin N
      BY <2>3, <2>6
    <3> QED
      BY <2>6, <3>1
  <2>8. (E \ {v}) \cup {v} = E /\ v \in D \ (E \ {v})
    BY <2>4, <2>5
  <2>9. Good((E \ {v}) \cup {v})
    BY <1>5, <2>6, <2>7, <2>8
  <2> QED
    BY <2>4, <2>8, <2>9
<1>7. Good(D)
  BY <1>6
<1> QED
  BY <1>2, <1>7 DEF Good

LEMMA SinceFacts ==
  ASSUME IInv, JournalOK, NEW u \in User
  PROVE  /\ RowsSince(u) \subseteq trx /\ RowsSince(u) \subseteq TrxRow
         /\ IsFiniteSet(RowsSince(u)) /\ EffectSum(RowsSince(u)) \in Int
         /\ account[u].avail = account[u].limit + EffectSum(RowsSince(u))
         /\ account[u] \in Account /\ account[u].avail \in Int /\ account[u].limit \in Int
<1>1. RowsSince(u) \subseteq trx /\ trx \subseteq TrxRow /\ account[u] \in Account
  BY DEF RowsSince, IInv, TypeOK
<1>2. IsFiniteSet(RowsSince(u))
  BY <1>1, FS_Subset DEF JournalOK
<1>3. EffectSum(RowsSince(u)) \in Int
  BY <1>1, <1>2, EffectSumIs
<1>4. account[u].avail = account[u].limit + EffectSum(RowsSince(u))
  BY DEF JournalOK, Balanced
<1>5. account[u].avail \in Int /\ account[u].limit \in Int
  BY <1>1 DEF Account
<1> QED
  BY <1>1, <1>2, <1>3, <1>4, <1>5

\* New rows keep the journal when they explain what each account gains.
LEMMA JournalKeeps ==
  ASSUME JournalOK, NEW rows, IsFiniteSet(rows), trx' = trx \cup rows,
         Disjoint(rows, trx), before' = before,
         \A u \in User : Balanced(account'[u], RowsSince(u) \cup OfUser(rows, u))
  PROVE  JournalOK'
<1>1. IsFiniteSet(trx')
  BY FS_Union DEF JournalOK
<1>2. ASSUME NEW u \in User
      PROVE  RowsSince(u)' = RowsSince(u) \cup OfUser(rows, u) /\ before'[u] \subseteq trx'
  <2>1. before[u] \subseteq trx
    BY DEF JournalOK
  <2>2. \A x \in rows : x \notin before[u]
    BY <2>1 DEF Disjoint
  <2> QED
    BY <2>1, <2>2 DEF RowsSince, OfUser
<1>3. ASSUME NEW u \in User PROVE Balanced(account'[u], RowsSince(u)')
  BY <1>2
<1> QED
  BY <1>1, <1>2, <1>3 DEF JournalOK

\* Each row explains the account of its own user, and no user has two.
Explains(rows, old, new) ==
  \A u \in User :
    \/ OfUser(rows, u) = {} /\ Gains(old[u], new[u], 0)
    \/ \E x \in rows : OfUser(rows, u) = {x} /\ Gains(old[u], new[u], Effect(x))

LEMMA JournalOneEach ==
  ASSUME IInv, JournalOK, NEW rows, rows \subseteq TrxRow, IsFiniteSet(rows),
         trx' = trx \cup rows, Disjoint(rows, trx), before' = before,
         Explains(rows, account, account')
  PROVE  JournalOK'
<1>1. ASSUME NEW u \in User
      PROVE  Balanced(account'[u], RowsSince(u) \cup OfUser(rows, u))
  <2> DEFINE S == RowsSince(u)
  <2>1. /\ S \subseteq trx /\ S \subseteq TrxRow /\ IsFiniteSet(S) /\ EffectSum(S) \in Int
        /\ account[u].avail = account[u].limit + EffectSum(S)
        /\ account[u].avail \in Int /\ account[u].limit \in Int
    BY SinceFacts
  <2> HIDE DEF S
  <2>2. CASE OfUser(rows, u) = {} /\ Gains(account[u], account'[u], 0)
    <3>1. S \cup OfUser(rows, u) = S
      BY <2>2
    <3>2. account'[u].avail \in Int /\ account'[u].limit \in Int
      BY <2>2 DEF Gains, Account
    <3>3. account'[u].avail = account'[u].limit + EffectSum(S)
      BY <2>1, <2>2, <3>2 DEF Gains
    <3> QED
      BY <3>1, <3>3 DEF Balanced, S
  <2>3. ASSUME NEW x \in rows, OfUser(rows, u) = {x}, Gains(account[u], account'[u], Effect(x))
        PROVE  Balanced(account'[u], S \cup OfUser(rows, u))
    <3>1. x \in TrxRow /\ x \notin S /\ Effect(x) \in Int
      <4>1. x \notin trx
        BY DEF Disjoint
      <4> QED
        BY <2>1, <4>1, EffectType
    <3>2. EffectSum(S \cup {x}) = EffectSum(S) + Effect(x)
      BY <2>1, <3>1, EffectAdd
    <3>3. account'[u].avail \in Int /\ account'[u].limit \in Int
      BY <2>3 DEF Gains, Account
    <3>4. account'[u].avail = account'[u].limit + (EffectSum(S) + Effect(x))
      BY <2>1, <2>3, <3>1, <3>3 DEF Gains
    <3> QED
      BY <2>3, <3>2, <3>4 DEF Balanced
  <2> QED
    BY <2>2, <2>3 DEF Explains, S
<1> QED
  BY <1>1, JournalKeeps

LEMMA SameGain ==
  ASSUME NEW row \in Account
  PROVE  Gains(row, row, 0)
<1>1. row.avail \in Int /\ row.limit \in Int
  BY DEF Account
<1> QED
  BY <1>1 DEF Gains

\* A request with one row x, which moves the account of its user by Effect(x).
LEMMA JournalOneRow ==
  ASSUME IInv, JournalOK, NEW x \in TrxRow, trx' = trx \cup {x}, Disjoint({x}, trx),
         before' = before, \A u \in User \ {x.user} : account'[u] = account[u],
         Gains(account[x.user], account'[x.user], Effect(x))
  PROVE  JournalOK'
<1> DEFINE rows == {x}
<1>1. \A u \in User : account[u] \in Account
  BY DEF IInv, TypeOK
<1>2. ASSUME NEW u \in User
      PROVE  \/ OfUser(rows, u) = {} /\ Gains(account[u], account'[u], 0)
             \/ \E y \in rows : OfUser(rows, u) = {y} /\ Gains(account[u], account'[u], Effect(y))
  <2>1. CASE u = x.user
    BY <2>1 DEF OfUser
  <2>2. CASE u # x.user
    <3>1. OfUser(rows, u) = {}
      BY <2>2 DEF OfUser
    <3>2. Gains(account[u], account'[u], 0)
      BY <1>1, <2>2, SameGain
    <3> QED
      BY <3>1, <3>2
  <2> QED
    BY <2>1, <2>2
<1>3. rows \subseteq TrxRow /\ IsFiniteSet(rows)
  BY FS_Singleton
<1>4. Explains(rows, account, account')
  BY <1>2 DEF Explains
<1>5. trx' = trx \cup rows /\ Disjoint(rows, trx)
  OBVIOUS
<1> HIDE DEF rows
<1> QED
  BY <1>3, <1>4, <1>5, JournalOneEach

\* The same for a sweep, whose rows are any number.
LEMMA JournalSweep ==
  ASSUME IInv, JournalOK, NEW D \in SUBSET Voucher, Swept(D), before' = before
  PROVE  JournalOK'
<1> DEFINE rows == Audit(voucher, D)
<1>1. /\ IsFiniteSet(D) /\ trx' = trx \cup rows /\ Disjoint(rows, trx)
      /\ \A u \in User : account'[u] = Raise(account[u], RefundOf(voucher, D, u))
  BY DEF Swept
<1>2. voucher \in [Voucher -> VoucherRow]
  BY DEF IInv, TypeOK
<1>3. ASSUME NEW u \in User
      PROVE  Balanced(account'[u], RowsSince(u) \cup OfUser(rows, u)) /\ IsFiniteSet(rows)
  <2> DEFINE S == RowsSince(u)
             n == RefundOf(voucher, D, u)
  <2>1. /\ S \subseteq trx /\ S \subseteq TrxRow /\ IsFiniteSet(S) /\ EffectSum(S) \in Int
        /\ account[u].avail = account[u].limit + EffectSum(S) /\ account[u] \in Account
        /\ account[u].avail \in Int /\ account[u].limit \in Int
    BY SinceFacts
  <2>2. Disjoint(rows, S)
    BY <1>1, <2>1 DEF Disjoint
  <2>3. n \in Int
    <3>1. Amounts(voucher, D)
      BY <1>1, <1>2 DEF Amounts, VoucherRow
    <3> QED
      BY <3>1, RefundType
  <2> HIDE DEF S
  <2>4. IsFiniteSet(rows) /\ EffectSum(S \cup OfUser(rows, u)) = EffectSum(S) + n
    <3>1. IsFiniteSet(D) /\ IsFiniteSet(S) /\ S \subseteq TrxRow
      BY <1>1, <2>1
    <3> QED
      BY <1>2, <2>2, <3>1, AuditSum
  <2> HIDE DEF n
  <2>5. account'[u] = [limit |-> account[u].limit, avail |-> account[u].avail + n]
    BY <1>1, <2>1, <2>3, RaiseIs DEF n
  <2>6. account'[u].avail = account'[u].limit + EffectSum(S \cup OfUser(rows, u))
    BY <2>1, <2>3, <2>4, <2>5
  <2> QED
    BY <2>4, <2>6 DEF Balanced, S
<1>4. IsFiniteSet(rows)
  BY <1>3, DataAssumption
<1> HIDE DEF rows
<1> QED
  BY <1>1, <1>3, <1>4, JournalKeeps

\* The rows a request writes, and what each does to its user.
LEMMA RowEffects ==
  ASSUME NEW r \in Request, NEW row \in VoucherRow
  PROVE  /\ DeductRow(r) \in TrxRow /\ DeductRow(r).user = r.user
         /\ Effect(DeductRow(r)) = 0 - r.amount
         /\ IssueRow(r) \in TrxRow /\ IssueRow(r).user = r.user
         /\ Effect(IssueRow(r)) = 0 - r.amount
         /\ RewardRow(r) \in TrxRow /\ RewardRow(r).user = r.user
         /\ Effect(RewardRow(r)) = 0
         /\ RedeemRow(r, row) \in TrxRow /\ RedeemRow(r, row).user \in User
         /\ Effect(RedeemRow(r, row)) = 0
<1>1. /\ r.user \in User /\ r.amount \in Nat /\ r.code \in Code
      /\ IssueCode(r.voucher) \in Code /\ row.user \in User /\ row.amount \in Nat
  BY DataAssumption, CodeAssumption, CodesAre DEF RequestType, VoucherRow
<1> QED
  BY <1>1 DEF DeductRow, IssueRow, RewardRow, RedeemRow, Trx, TrxRow, Kind, Effect

LEMMA SpendGains ==
  ASSUME IInv, NEW u \in User, NEW n \in Nat,
         account' = [account EXCEPT ![u].avail = @ - n]
  PROVE  /\ Gains(account[u], account'[u], 0 - n)
         /\ \A x \in User \ {u} : account'[x] = account[x]
<1>1. account \in [User -> Account]
  BY DEF IInv, TypeOK
<1>2. account'[u] = [account[u] EXCEPT !.avail = @ - n] /\ account[u] \in Account
  BY <1>1
<1>3. account[u] = [limit |-> account[u].limit, avail |-> account[u].avail]
      /\ account[u].limit \in Int /\ account[u].avail \in Int
  BY <1>2 DEF Account
<1>4. account'[u] = [limit |-> account[u].limit, avail |-> account[u].avail - n]
  BY <1>2, <1>3
<1>5. account'[u] \in Account /\ account'[u].avail = account[u].avail - n
      /\ account'[u].limit = account[u].limit
  BY <1>3, <1>4 DEF Account
<1>6. Gains(account[u], account'[u], 0 - n)
  BY <1>3, <1>5 DEF Gains
<1> QED
  BY <1>1, <1>6

LEMMA LedgerJournal ==
  ASSUME IInv, JournalOK, NEW r \in Request, Ledger!Apply(r),
         r.op \notin {"deposit", "expire"}, before' = before
  PROVE  JournalOK'
<1>1. /\ r.op \in Op /\ r.voucher \in Voucher /\ r.user \in User /\ r.to \in User
      /\ r.amount \in Nat /\ OutCode(r.code) \in Code /\ InCode(r.code) \in Code
      /\ voucher \in [Voucher -> VoucherRow] /\ account \in [User -> Account]
  BY DataAssumption, CodeAssumption, CodesAre DEF RequestType, IInv, TypeOK
<1>2. \A rows : Ledger!Journal(rows) => trx' = trx \cup rows /\ Disjoint(rows, trx)
  BY SameData DEF Ledger!Journal
<1>3. CASE Ledger!Deduct(r)
  <2> DEFINE x == DeductRow(r)
  <2>1. trx' = trx \cup {x} /\ Disjoint({x}, trx)
    BY <1>2, <1>3, SameData DEF Ledger!Deduct
  <2>2. account' = [account EXCEPT ![r.user].avail = @ - r.amount]
    BY <1>3 DEF Ledger!Deduct, Ledger!Spend
  <2>3. x \in TrxRow /\ x.user = r.user /\ Effect(x) = 0 - r.amount
    BY <1>1, RowEffects
  <2> HIDE DEF x
  <2>4. /\ \A u \in User \ {x.user} : account'[u] = account[u]
        /\ Gains(account[x.user], account'[x.user], Effect(x))
    BY <1>1, <2>2, <2>3, SpendGains
  <2> QED
    BY <2>1, <2>3, <2>4, JournalOneRow
<1>4. CASE Ledger!Issue(r)
  <2> DEFINE x == IssueRow(r)
  <2>1. trx' = trx \cup {x} /\ Disjoint({x}, trx)
    BY <1>2, <1>4, SameData DEF Ledger!Issue
  <2>2. account' = [account EXCEPT ![r.user].avail = @ - r.amount]
    BY <1>4 DEF Ledger!Issue, Ledger!Spend
  <2>3. x \in TrxRow /\ x.user = r.user /\ Effect(x) = 0 - r.amount
    BY <1>1, RowEffects
  <2> HIDE DEF x
  <2>4. /\ \A u \in User \ {x.user} : account'[u] = account[u]
        /\ Gains(account[x.user], account'[x.user], Effect(x))
    BY <1>1, <2>2, <2>3, SpendGains
  <2> QED
    BY <2>1, <2>3, <2>4, JournalOneRow
<1>5. CASE Ledger!Reward(r)
  <2> DEFINE x == RewardRow(r)
             u == r.user
             n == r.amount
  <2>1. trx' = trx \cup {x} /\ Disjoint({x}, trx)
    BY <1>2, <1>5, SameData DEF Ledger!Reward
  <2>2. account' = [account EXCEPT ![u].limit = @ + n, ![u].avail = @ + n]
    BY <1>5 DEF Ledger!Reward
  <2>3. x \in TrxRow /\ x.user = u /\ Effect(x) = 0 /\ u \in User /\ n \in Nat
    BY <1>1, RowEffects
  <2> HIDE DEF x, u, n
  <2>4. /\ account[u] = [limit |-> account[u].limit, avail |-> account[u].avail]
        /\ account[u].limit \in Int /\ account[u].avail \in Int
    BY <1>1, <2>3 DEF Account
  <2>5. account'[u] = [limit |-> account[u].limit + n, avail |-> account[u].avail + n]
    BY <1>1, <2>2, <2>3, <2>4
  <2>6. account'[u] \in Account /\ account'[u].avail = account[u].avail + n
        /\ account'[u].limit = account[u].limit + n
    BY <2>3, <2>4, <2>5 DEF Account
  <2>7. Gains(account[u], account'[u], 0)
    BY <2>3, <2>4, <2>6 DEF Gains
  <2>8. \A w \in User \ {u} : account'[w] = account[w]
    BY <1>1, <2>2, <2>3
  <2> QED
    BY <2>1, <2>3, <2>7, <2>8, JournalOneRow
<1>6. CASE Ledger!Redeem(r)
  <2> DEFINE x == RedeemRow(r, voucher[r.voucher])
  <2>1. trx' = trx \cup {x} /\ Disjoint({x}, trx) /\ account' = account
    BY <1>2, <1>6, SameData DEF Ledger!Redeem
  <2>2. x \in TrxRow /\ x.user \in User /\ Effect(x) = 0
    BY <1>1, RowEffects
  <2> HIDE DEF x
  <2>3. Gains(account[x.user], account'[x.user], Effect(x))
    BY <1>1, <2>1, <2>2, SameGain
  <2> QED
    BY <2>1, <2>2, <2>3, JournalOneRow
<1>7. CASE Ledger!Transfer(r)
  <2> DEFINE u == r.user
             w == r.to
             n == r.amount
             out == Trx("out", OutCode(r.code), u, n)
             in == Trx("in", InCode(r.code), w, n)
             rows == {out, in}
  <2>1. trx' = trx \cup rows /\ Disjoint(rows, trx)
    BY <1>2, <1>7, SameData DEF Ledger!Transfer, TransferRows
  <2>2. account' = [account EXCEPT ![u].avail = @ - n, ![w].avail = @ + n] /\ u # w
    BY <1>7 DEF Ledger!Transfer
  <2>3. /\ out \in TrxRow /\ out.user = u /\ Effect(out) = 0 - n
        /\ in \in TrxRow /\ in.user = w /\ Effect(in) = n
        /\ u \in User /\ w \in User /\ n \in Nat
    BY <1>1 DEF Trx, TrxRow, Kind, Effect
  <2> HIDE DEF u, w, n, out, in
  <2>4. rows \subseteq TrxRow /\ IsFiniteSet(rows)
    <3>1. rows = {out} \cup {in}
      OBVIOUS
    <3>2. IsFiniteSet({out}) /\ IsFiniteSet({in})
      BY FS_Singleton
    <3>3. IsFiniteSet({out} \cup {in})
      BY <3>2, FS_Union
    <3> QED
      BY <2>3, <3>1, <3>3
  <2>5. /\ account[u] = [limit |-> account[u].limit, avail |-> account[u].avail]
        /\ account[u].limit \in Int /\ account[u].avail \in Int
        /\ account[w] = [limit |-> account[w].limit, avail |-> account[w].avail]
        /\ account[w].limit \in Int /\ account[w].avail \in Int
    BY <1>1, <2>3 DEF Account
  <2>6. /\ account'[u] = [account[u] EXCEPT !.avail = @ - n]
        /\ account'[w] = [account[w] EXCEPT !.avail = @ + n]
        /\ \A y \in User \ {u, w} : account'[y] = account[y]
    BY <1>1, <2>2, <2>3
  <2>7. Gains(account[u], account'[u], 0 - n)
    <3>1. account'[u] = [limit |-> account[u].limit, avail |-> account[u].avail - n]
      BY <2>5, <2>6
    <3>2. account'[u] \in Account /\ account'[u].avail = account[u].avail - n
          /\ account'[u].limit = account[u].limit
      BY <2>3, <2>5, <3>1 DEF Account
    <3> QED
      BY <2>3, <2>5, <3>2 DEF Gains
  <2>8. Gains(account[w], account'[w], n)
    <3>1. account'[w] = [limit |-> account[w].limit, avail |-> account[w].avail + n]
      BY <2>5, <2>6
    <3>2. account'[w] \in Account /\ account'[w].avail = account[w].avail + n
          /\ account'[w].limit = account[w].limit
      BY <2>3, <2>5, <3>1 DEF Account
    <3> QED
      BY <2>3, <2>5, <3>2 DEF Gains
  <2>9. Explains(rows, account, account')
    <3>1. ASSUME NEW y \in User
          PROVE  \/ OfUser(rows, y) = {} /\ Gains(account[y], account'[y], 0)
                 \/ \E x \in rows : OfUser(rows, y) = {x} /\ Gains(account[y], account'[y], Effect(x))
      <4>1. CASE y = u
        <5>1. OfUser(rows, y) = {out}
          BY <2>2, <2>3, <4>1 DEF OfUser
        <5> QED
          BY <2>3, <2>7, <4>1, <5>1
      <4>2. CASE y = w
        <5>1. OfUser(rows, y) = {in}
          BY <2>2, <2>3, <4>2 DEF OfUser
        <5> QED
          BY <2>3, <2>8, <4>2, <5>1
      <4>3. CASE y \notin {u, w}
        <5>1. OfUser(rows, y) = {}
          BY <2>3, <4>3 DEF OfUser
        <5>2. Gains(account[y], account'[y], 0)
          BY <1>1, <2>6, <4>3, SameGain
        <5> QED
          BY <5>1, <5>2
      <4> QED
        BY <4>1, <4>2, <4>3
    <3> QED
      BY <3>1 DEF Explains
  <2> HIDE DEF rows
  <2> QED
    BY <2>1, <2>4, <2>9, JournalOneEach
<1> QED
  BY <1>1, <1>3, <1>4, <1>5, <1>6, <1>7 DEF Ledger!Apply

LEMMA DepositJournal ==
  ASSUME IInv, JournalOK, NEW r \in Request, Deposit(r)
  PROVE  JournalOK'
<1>1. /\ r.user \in User /\ r.amount \in Nat /\ trx' = trx
      /\ account' = [account EXCEPT ![r.user] = Grant(r.amount)]
      /\ before' = [before EXCEPT ![r.user] = trx]
      /\ account \in [User -> Account] /\ before \in [User -> SUBSET TrxRow]
  BY DataAssumption DEF RequestType, Deposit, IInv, TypeOK
<1>2. ASSUME NEW u \in User
      PROVE  before'[u] \subseteq trx' /\ Balanced(account'[u], RowsSince(u)')
  <2>1. CASE u = r.user
    <3>1. before'[u] = trx /\ account'[u] = Grant(r.amount) /\ RowsSince(u)' = {}
      BY <1>1, <2>1 DEF RowsSince
    <3>2. EffectSum({}) = 0
      BY FS_EmptySet, EffectSumIs, SumEmpty
    <3> QED
      BY <1>1, <3>1, <3>2 DEF Balanced, Grant
  <2>2. CASE u # r.user
    <3>1. before'[u] = before[u] /\ account'[u] = account[u] /\ RowsSince(u)' = RowsSince(u)
      BY <1>1, <2>2 DEF RowsSince
    <3> QED
      BY <1>1, <3>1 DEF JournalOK
  <2> QED
    BY <2>1, <2>2
<1> QED
  BY <1>1, <1>2 DEF JournalOK

LEMMA JournalStep ==
  ASSUME IInv, StoreInv, JournalOK, [Next]_vars
  PROVE  JournalOK'
<1>1. CASE UNCHANGED <<account, trx, before>>
  BY <1>1 DEF JournalOK, RowsSince
<1>2. ASSUME NEW s \in Session, Commit(s) PROVE JournalOK'
  <2>1. before' = before /\ req[s].op # "deposit"
    BY <1>2, CommitIs DEF Commit, CallOK
  <2>2. CASE req[s].op = "expire"
    BY <1>2, <2>1, <2>2, SweepCommit, JournalSweep
  <2>3. CASE req[s].op # "expire"
    BY <1>1, <1>2, <2>1, <2>3, CommitLedger, LedgerJournal
  <2> QED
    BY <2>2, <2>3
<1>3. ASSUME NEW r \in Request, Deposit(r) PROVE JournalOK'
  BY <1>3, DepositJournal
<1>4. \/ \E s \in Session : Commit(s)
      \/ \E r \in Request : Deposit(r)
      \/ UNCHANGED <<account, trx, before>>
  <2>1. ASSUME NEW s \in Session, Step(s) \/ Fail(s) \/ AbortVictim(s)
        PROVE  Commit(s) \/ UNCHANGED db
    BY <2>1, OnlyCommitWrites
  <2> QED
    BY <2>1 DEF Next, vars, db, Begin, Lapse
<1> QED
  BY <1>1, <1>2, <1>3, <1>4

\* DeductCredit, TransferCredit, Reward, IssueVoucher, RedeemVoucher, ExpireVouchers: no
\* schedule, rollback or crash leaves a balance that its committed rows do not explain.
THEOREM JournalExplains == Spec => []JournalExplainsBalance
<1>1. Init => JournalOK
  <2> SUFFICES ASSUME Init PROVE JournalOK
    OBVIOUS
  <2>1. EffectSum({}) = 0
    BY FS_EmptySet, EffectSumIs, SumEmpty
  <2>2. IsFiniteSet(trx) /\ \A u \in User : RowsSince(u) = {} /\ before[u] = {}
    BY FS_EmptySet DEF Init, RowsSince
  <2>3. \A u \in User : account[u] = [limit |-> 0, avail |-> 0]
    BY DEF Init, Grant
  <2> QED
    BY <2>1, <2>2, <2>3 DEF JournalOK, Balanced
<1>2. IInv /\ StoreInv /\ JournalOK /\ [Next]_vars => JournalOK'
  BY JournalStep
<1>3. JournalOK => JournalExplainsBalance
  BY DEF JournalOK, Balanced, RowsSince, EffectSum, JournalExplainsBalance
<1> QED
  BY <1>1, <1>2, <1>3, InductiveInvariant, StoreInvariant, PTL DEF Spec

(***************************************************************************)
(* Deadlocks.  A transaction that waits for an account holds at most one,  *)
(* and then it is a transfer waiting for a larger user_id; a redemption    *)
(* holds no account while it waits for one.  Two kinds of circles remain:  *)
(* a sweep refunds in the order of voucher ids, and a redemption inserts   *)
(* its row, whose code another call may want, before it waits.             *)
(***************************************************************************)
LockOK(t) ==
  /\ pc[t] = "lock" => \A a \in User : \A m \in Mode : Holds(t, Acct(a), m) =>
       req[t].op = "transfer" /\ \A b \in Unlocked(t) : a < b
  /\ req[t].op = "redeem" /\ pc[t] # "commit" =>
       \A a \in User : \A m \in Mode : ~Holds(t, Acct(a), m)
  /\ \A v \in Voucher : \A m \in Mode : Holds(t, Vch(v), m) =>
       req[t].op \in {"redeem", "expire"} /\ pc[t] # "lock"
LockInv == \A t \in Session : LockOK(t)

LEMMA RowsAre ==
  /\ \A a \in User : Acct(a) \in Row /\ \A v : Acct(a) # Vch(v)
  /\ \A v \in Voucher : Vch(v) \in Row
  /\ \A a, b : Acct(a) = Acct(b) => a = b
  /\ \A v, w : Vch(v) = Vch(w) => v = w
BY DEF Acct, Vch, Row

LEMMA LockKept ==
  ASSUME LockInv, NEW t \in Session, pc'[t] = pc[t], req'[t] = req[t],
         \A r \in Row : \A m \in Mode : Holds(t, r, m)' = Holds(t, r, m)
  PROVE  LockOK(t)'
<1>1. Held(t)' = Held(t)
  BY DEF Held, Holds
<1>2. Unlocked(t)' = Unlocked(t)
  BY <1>1 DEF Unlocked
<1>3. /\ \A a \in User : \A m \in Mode : Holds(t, Acct(a), m)' = Holds(t, Acct(a), m)
      /\ \A v \in Voucher : \A m \in Mode : Holds(t, Vch(v), m)' = Holds(t, Vch(v), m)
  BY RowsAre
<1> QED
  BY <1>2, <1>3 DEF LockInv, LockOK

LEMMA ReleaseLock ==
  ASSUME IInv, LockInv, NEW s \in Session, Release(s)
  PROVE  LockInv'
<1>1. LockOK(s)'
  BY ReleaseLocks, ReleaseSession, RowsAre DEF LockOK
<1>2. ASSUME NEW t \in Session \ {s} PROVE LockOK(t)'
  BY ReleaseLocks, ReleaseSession, LockKept
<1> QED
  BY <1>1, <1>2 DEF LockInv

\* The statements that lock nothing, and the beginning of a call.
LEMMA NoLock ==
  ASSUME IInv, LockInv, NEW s \in Session, UNCHANGED locks, pc[s] # "commit",
         \E p : Goto(s, p),
         \/ req' = req /\ pc'[s] # "lock"
         \/ (\E r : req' = [req EXCEPT ![s] = r]) /\ pc[s] = "idle"
  PROVE  LockInv'
<1>1. \A t \in Session : \A r \in Row : \A m \in Mode : Holds(t, r, m)' = Holds(t, r, m)
  BY DEF Holds
<1>2. ASSUME NEW t \in Session \ {s} PROVE LockOK(t)'
  <2>1. pc'[t] = pc[t] /\ req'[t] = req[t]
    BY DEF Goto, IInv, TypeOK
  <2> QED
    BY <1>1, <2>1, LockKept
<1>3. LockOK(s)'
  <2>1. CASE req' = req /\ pc'[s] # "lock"
    BY <1>1, <2>1, RowsAre DEF LockInv, LockOK
  <2>2. CASE pc[s] = "idle"
    <3>1. \A r \in Row : \A m \in Mode : ~Holds(s, r, m)'
      BY <1>1, <2>2 DEF IInv, SessionOK
    <3> QED
      BY <3>1, RowsAre DEF LockOK
  <2> QED
    BY <2>1, <2>2
<1> QED
  BY <1>2, <1>3 DEF LockInv

\* What a statement locks.
LEMMA NextLockIs ==
  ASSUME IInv, NEW s \in Session, pc[s] # "idle", NEW l \in NextLock(s)
  PROVE  \/ /\ \E a \in User, m \in Mode : l = <<Acct(a), m>>
            /\ req[s].op = "redeem" => pc[s] = "fk"
            /\ pc[s] = "lock" /\ req[s].op = "transfer" =>
                 \E a \in LockOrder(s) : l = <<Acct(a), "X">> /\ a \in User
         \/ /\ \E v \in Voucher, m \in Mode : l = <<Vch(v), m>>
            /\ req[s].op \in {"redeem", "expire"}
            /\ pc[s] = "lock" => req[s].op = "redeem"
<1>1. /\ req[s].op \in Op /\ req[s].user \in User /\ req[s].to \in User
      /\ req[s].voucher \in Voucher
  BY RequestFields
<1>2. /\ \A v \in Voucher : voucher[v].user \in User
      /\ todo[s] \subseteq Voucher
  BY DEF IInv, TypeOK, VoucherRow
<1>3. /\ pc[s] \in {"scan", "refund"} => req[s].op = "expire"
      /\ pc[s] = "fk" => req[s].op = "redeem"
  BY DEF IInv, SessionOK
<1>4. "X" \in Mode /\ "N" \in Mode /\ "K" \in Mode
  BY DEF Mode
<1>5. CASE pc[s] = "lock" /\ req[s].op \in {"deduct", "issue"}
  <2>1. l = <<Acct(req[s].user), "X">>
    BY <1>5 DEF NextLock, ForUpdate
  <2> QED
    BY <1>1, <1>4, <1>5, <2>1
<1>6. CASE pc[s] = "lock" /\ req[s].op = "transfer"
  <2>1. l \in UNION {ForUpdate(Acct(u)) : u \in LockOrder(s)}
    BY <1>6 DEF NextLock
  <2>2. PICK u \in LockOrder(s) : l = <<Acct(u), "X">>
    BY <2>1 DEF ForUpdate
  <2>3. u \in User
    BY <1>1 DEF LockOrder, First, Unlocked
  <2> QED
    BY <1>4, <1>6, <2>2, <2>3
<1>7. CASE pc[s] = "lock" /\ req[s].op = "reward"
  <2>1. l = <<Acct(req[s].user), "N">>
    BY <1>7 DEF NextLock
  <2> QED
    BY <1>1, <1>4, <1>7, <2>1
<1>8. CASE pc[s] = "lock" /\ req[s].op = "redeem"
  <2>1. l = <<Vch(req[s].voucher), "X">>
    BY <1>8 DEF NextLock, ForUpdate
  <2> QED
    BY <1>1, <1>4, <1>8, <2>1
<1>9. CASE pc[s] = "scan"
  <2>1. l \in {<<Vch(v), "N">> : v \in First(todo[s])}
    BY <1>9 DEF NextLock
  <2>2. PICK v \in First(todo[s]) : l = <<Vch(v), "N">>
    BY <2>1
  <2> QED
    BY <1>2, <1>3, <1>4, <1>9, <2>2, FirstIn
<1>10. CASE pc[s] = "refund"
  <2>1. l \in {<<Acct(voucher[v].user), "N">> : v \in First(todo[s])}
    BY <1>10 DEF NextLock
  <2>2. PICK v \in First(todo[s]) : l = <<Acct(voucher[v].user), "N">>
    BY <2>1
  <2> QED
    BY <1>2, <1>3, <1>4, <1>10, <2>2, FirstIn
<1>11. CASE pc[s] = "fk"
  <2>1. l = <<Acct(voucher[req[s].voucher].user), "K">>
    BY <1>11 DEF NextLock
  <2> QED
    BY <1>1, <1>2, <1>4, <1>11, <2>1
<1> QED
  <2>1. NextLock(s) # {}
    OBVIOUS
  <2> HIDE DEF Mode
  <2>2. \/ pc[s] = "lock" /\ req[s].op \in {"deduct", "issue", "transfer", "reward", "redeem"}
        \/ pc[s] \in {"scan", "refund", "fk"}
    BY <2>1 DEF NextLock
  <2> QED
    BY <1>5, <1>6, <1>7, <1>8, <1>9, <1>10, <1>11, <2>2

\* The statements that lock a row and go on.
LEMMA LockMore ==
  ASSUME IInv, LockInv, NEW s \in Session, Acquire(s), req' = req, pc[s] # "idle",
         pc[s] # "commit", NEW p, Goto(s, p), p # "lock", pc[s] = "fk" => p = "commit"
  PROVE  LockInv'
<1>1. ASSUME NEW t \in Session \ {s} PROVE LockOK(t)'
  <2>1. pc'[t] = pc[t] /\ req'[t] = req[t]
    BY DEF Goto, IInv, TypeOK
  <2> QED
    BY <2>1, AcquireLocks, LockKept
<1>2. pc'[s] = p /\ req'[s] = req[s]
  BY DEF Goto, IInv, TypeOK
<1>3. \A r \in Row : \A m \in Mode : Holds(s, r, m)' = (Holds(s, r, m) \/ <<r, m>> \in NextLock(s))
  BY AcquireLocks
<1>4. ASSUME NEW a \in User, NEW m \in Mode, req[s].op = "redeem", p # "commit"
      PROVE  ~Holds(s, Acct(a), m)'
  <2>1. ~Holds(s, Acct(a), m)
    BY <1>4 DEF LockInv, LockOK
  <2>2. <<Acct(a), m>> \notin NextLock(s)
    BY <1>4, NextLockIs, RowsAre
  <2> QED
    BY <1>3, <2>1, <2>2, RowsAre
<1>5. ASSUME NEW v \in Voucher, NEW m \in Mode, Holds(s, Vch(v), m)'
      PROVE  req[s].op \in {"redeem", "expire"}
  <2>1. CASE Holds(s, Vch(v), m)
    BY <2>1 DEF LockInv, LockOK
  <2>2. CASE <<Vch(v), m>> \in NextLock(s)
    BY <2>2, NextLockIs, RowsAre
  <2> QED
    BY <1>3, <1>5, <2>1, <2>2, RowsAre
<1>6. LockOK(s)'
  BY <1>2, <1>4, <1>5 DEF LockOK
<1> QED
  BY <1>1, <1>6 DEF LockInv

LEMMA TransferLockLock ==
  ASSUME IInv, LockInv, NEW s \in Session, TransferLock(s)
  PROVE  LockInv'
<1>1. pc[s] = "lock" /\ req[s].op = "transfer"
  BY DEF TransferLock, At
<1>2. CASE Rollback(s)
  BY <1>2, ReleaseLock DEF Rollback
<1>3. CASE Acquire(s) /\ Goto(s, "write") /\ req' = req
  BY <1>1, <1>3, LockMore
<1>4. CASE Acquire(s) /\ Goto(s, "lock") /\ req' = req
  <2>1. ASSUME NEW t \in Session \ {s} PROVE LockOK(t)'
    <3>1. pc'[t] = pc[t] /\ req'[t] = req[t]
      BY <1>4 DEF Goto, IInv, TypeOK
    <3> QED
      BY <1>4, <3>1, AcquireLocks, LockKept
  <2>2. \A r \in Row : \A m \in Mode : Holds(s, r, m)' = (Holds(s, r, m) \/ <<r, m>> \in NextLock(s))
    BY <1>4, AcquireLocks
  <2>3. Held(s) \subseteq Held(s)'
    BY <2>2 DEF Held, Holds
  <2>4. Unlocked(s)' \subseteq Unlocked(s)
    BY <1>4, <2>3 DEF Unlocked
  <2>5. Unlocked(s) \subseteq User /\ User \subseteq Nat
    BY <1>1, RequestFields, DataAssumption DEF Unlocked
  <2>6. ASSUME NEW a \in User, NEW m \in Mode, Holds(s, Acct(a), m)', NEW b \in Unlocked(s)'
        PROVE  a < b
    <3>1. CASE Holds(s, Acct(a), m)
      BY <1>1, <2>4, <3>1 DEF LockInv, LockOK
    <3>2. CASE <<Acct(a), m>> \in NextLock(s)
      <4>1. a \in LockOrder(s)
        BY <1>1, <3>2, NextLockIs, RowsAre
      <4>2. a <= b
        BY <2>4, <4>1 DEF LockOrder, First
      <4>3. Acct(a) \in Held(s)'
        BY <2>6, RowsAre DEF Held, Holds
      <4>4. a # b
        BY <4>3 DEF Unlocked
      <4>5. a \in Nat /\ b \in Nat
        BY <2>4, <2>5
      <4> QED
        BY <4>2, <4>4, <4>5
    <3> QED
      BY <2>2, <2>6, <3>1, <3>2, RowsAre
  <2>7. ASSUME NEW v \in Voucher, NEW m \in Mode PROVE ~Holds(s, Vch(v), m)'
    <3>1. ~Holds(s, Vch(v), m)
      BY <1>1 DEF LockInv, LockOK
    <3>2. <<Vch(v), m>> \notin NextLock(s)
      BY <1>1, NextLockIs, RowsAre
    <3> QED
      BY <2>2, <3>1, <3>2, RowsAre
  <2>8. LockOK(s)'
    BY <1>1, <1>4, <2>6, <2>7 DEF LockOK
  <2> QED
    BY <2>1, <2>8 DEF LockInv
<1> QED
  BY <1>2, <1>3, <1>4 DEF TransferLock

LEMMA LockStep ==
  ASSUME IInv, LockInv, [Next]_vars
  PROVE  LockInv'
<1>1. CASE UNCHANGED <<pc, req, locks>>
  <2>1. \A t \in Session : \A r \in Row : \A m \in Mode : Holds(t, r, m)' = Holds(t, r, m)
    BY <1>1 DEF Holds
  <2>2. \A t \in Session : LockOK(t)'
    BY <1>1, <2>1, LockKept
  <2> QED
    BY <2>2 DEF LockInv
<1>2. ASSUME NEW s \in Session, NEW r \in Request, Begin(s, r) PROVE LockInv'
  BY <1>2, NoLock DEF Begin, Goto
<1>3. ASSUME NEW s \in Session, Rollback(s) \/ Commit(s) PROVE LockInv'
  BY <1>3, ReleaseLock DEF Rollback, Commit
<1>4. ASSUME NEW s \in Session, Step(s) PROVE LockInv'
  <2>1. CASE DeductLock(s) \/ IssueLock(s)
    <3>1. Rollback(s) \/ (pc[s] = "lock" /\ Acquire(s) /\ Goto(s, "write") /\ req' = req)
      BY <2>1 DEF DeductLock, IssueLock, LockAccount, At
    <3>2. CASE Rollback(s)
      BY <1>3, <3>2
    <3>3. CASE ~Rollback(s)
      BY <3>1, <3>3, LockMore
    <3> QED
      BY <3>2, <3>3
  <2>2. CASE DeductUpdate(s) \/ IssueUpdate(s) \/ TransferUpdate(s) \/ RedeemUpdate(s)
    <3>1. pc[s] = "write" /\ Goto(s, "insert") /\ req' = req /\ UNCHANGED locks
      BY <2>2 DEF DeductUpdate, IssueUpdate, TransferUpdate, RedeemUpdate, At
    <3>2. pc'[s] = "insert"
      BY <3>1 DEF Goto, IInv, TypeOK
    <3> QED
      BY <3>1, <3>2, NoLock
  <2>3. CASE TransferLock(s)
    BY <2>3, TransferLockLock
  <2>4. CASE RewardUpdate(s)
    <3>1. Rollback(s) \/ (pc[s] = "lock" /\ Acquire(s) /\ Goto(s, "insert") /\ req' = req)
      BY <2>4 DEF RewardUpdate, At
    <3>2. CASE Rollback(s)
      BY <1>3, <3>2
    <3>3. CASE ~Rollback(s)
      BY <3>1, <3>3, LockMore
    <3> QED
      BY <3>2, <3>3
  <2>5. CASE RedeemLock(s)
    <3>1. Rollback(s) \/ (pc[s] = "lock" /\ Acquire(s) /\ Goto(s, "write") /\ req' = req)
      BY <2>5 DEF RedeemLock, At
    <3>2. CASE Rollback(s)
      BY <1>3, <3>2
    <3>3. CASE ~Rollback(s)
      BY <3>1, <3>3, LockMore
    <3> QED
      BY <3>2, <3>3
  <2>6. CASE ExpireScan(s)
    <3>1. pc[s] = "lock" /\ (\E p \in {"commit", "scan"} : Goto(s, p)) /\ req' = req /\ UNCHANGED locks
      BY <2>6 DEF ExpireScan, At
    <3>2. pc'[s] # "lock"
      BY <3>1 DEF Goto, IInv, TypeOK
    <3> QED
      BY <3>1, <3>2, NoLock
  <2>7. CASE ExpireUpdate(s) \/ ExpireRefund(s)
    <3>1. /\ pc[s] \in {"scan", "refund"} /\ Acquire(s) /\ req' = req
          /\ \E p \in {"commit", "scan", "refund", "audit"} : Goto(s, p)
      BY <2>7 DEF ExpireUpdate, ExpireRefund
    <3> QED
      BY <3>1, LockMore
  <2>8. CASE InsertTrx(s)
    <3>1. CASE Rollback(s)
      BY <1>3, <3>1
    <3>2. CASE ~Rollback(s)
      <4>1. /\ pc[s] = "insert" /\ req' = req /\ UNCHANGED locks
            /\ \E p \in {"fk", "commit"} : Goto(s, p)
        BY <2>8, <3>2 DEF InsertTrx
      <4>2. pc'[s] # "lock"
        BY <4>1 DEF Goto, IInv, TypeOK
      <4> QED
        BY <4>1, <4>2, NoLock
    <3> QED
      BY <3>1, <3>2
  <2>9. CASE ForeignKey(s)
    <3>1. pc[s] = "fk" /\ Acquire(s) /\ Goto(s, "commit") /\ req' = req
      BY <2>9 DEF ForeignKey
    <3> QED
      BY <3>1, LockMore
  <2>10. CASE Commit(s)
    BY <1>3, <2>10
  <2>11. CASE ExpireAudit(s)
    <3>1. CASE Rollback(s)
      BY <1>3, <3>1
    <3>2. CASE ~Rollback(s)
      <4>1. /\ pc[s] = "audit" /\ req' = req /\ UNCHANGED locks
            /\ \E p \in {"refund", "commit"} : Goto(s, p)
        BY <2>11, <3>2 DEF ExpireAudit
      <4>2. pc'[s] # "lock"
        BY <4>1 DEF Goto, IInv, TypeOK
      <4> QED
        BY <4>1, <4>2, NoLock
    <3> QED
      BY <3>1, <3>2
  <2> QED
    BY <1>4, <2>1, <2>2, <2>3, <2>4, <2>5, <2>6, <2>7, <2>8, <2>9, <2>10, <2>11 DEF Step
<1>5. ASSUME NEW s \in Session, Fail(s) \/ AbortVictim(s) PROVE LockInv'
  BY <1>3, <1>5 DEF Fail, AbortVictim
<1>6. ASSUME NEW r \in Request, Deposit(r) PROVE LockInv'
  BY <1>1, <1>6 DEF Deposit
<1>7. ASSUME NEW c \in Clock, NEW v \in Voucher, Lapse(c, v) PROVE LockInv'
  BY <1>1, <1>7 DEF Lapse
<1>8. CASE UNCHANGED vars
  BY <1>1, <1>8 DEF vars
<1> QED
  BY <1>2, <1>4, <1>5, <1>6, <1>7, <1>8 DEF Next

LEMMA HasGreatest ==
  ASSUME NEW S, S \subseteq Nat, IsFiniteSet(S), S # {}
  PROVE  \E m \in S : \A x \in S : x <= m
<1> DEFINE W == {s \in SUBSET S : s # {} /\ ~\E m \in s : \A x \in s : x <= m}
           N == {Cardinality(s) : s \in W}
<1>1. SUFFICES ASSUME W # {} PROVE FALSE
  OBVIOUS
<1>2. \A s \in SUBSET S : IsFiniteSet(s) /\ Cardinality(s) \in Nat
  BY FS_Subset, FS_CardinalityType
<1>3. PICK n \in N : \A m \in N : n <= m
  <2>1. N \subseteq Nat /\ N # {}
    BY <1>1, <1>2
  <2> HIDE DEF N
  <2> QED
    BY <2>1, LeastNat
<1>4. PICK s \in W : Cardinality(s) = n
  BY <1>3
<1>5. PICK x \in s : TRUE
  BY <1>4
<1>6. s \ {x} \in SUBSET S /\ Cardinality(s \ {x}) = n - 1 /\ n \in Nat
  BY <1>2, <1>4, <1>5, FS_RemoveElement
<1>7. s \ {x} \notin W
  <2>1. Cardinality(s \ {x}) \notin N
    BY <1>3, <1>6
  <2> QED
    BY <2>1
<1>8. \A y, z \in s : y \in Nat /\ z \in Nat
  BY <1>4
<1>9. CASE s \ {x} = {}
  <2>1. \A y \in s : y <= x
    BY <1>5, <1>8, <1>9
  <2> QED
    BY <1>4, <1>5, <2>1
<1>10. CASE s \ {x} # {}
  <2>1. PICK m \in s \ {x} : \A y \in s \ {x} : y <= m
    BY <1>6, <1>7, <1>10
  <2>2. CASE m <= x
    <3>1. \A y \in s : y <= x
      BY <1>5, <1>8, <2>1, <2>2
    <3> QED
      BY <1>4, <1>5, <3>1
  <2>3. CASE x <= m
    <3>1. \A y \in s : y <= m
      BY <1>5, <1>8, <2>1, <2>3
    <3> QED
      BY <1>4, <2>1, <3>1
  <2> QED
    BY <1>5, <1>8, <2>1, <2>2, <2>3
<1> QED
  BY <1>9, <1>10

\* A statement waits for one row at most.
LEMMA OneLock ==
  ASSUME IInv, NEW s \in Session, pc[s] # "idle", NEW k \in NextLock(s), NEW l \in NextLock(s)
  PROVE  k = l
<1>1. ASSUME NEW A, A \subseteq Nat, NEW a \in First(A), NEW b \in First(A) PROVE a = b
  BY <1>1 DEF First
<1>2. CASE pc[s] = "lock" /\ req[s].op \in {"deduct", "issue", "reward", "redeem"}
  BY <1>2 DEF NextLock, ForUpdate
<1>3. CASE pc[s] = "lock" /\ req[s].op = "transfer"
  <2>1. Unlocked(s) \subseteq Nat
    BY RequestFields, DataAssumption DEF Unlocked
  <2>2. k \in UNION {ForUpdate(Acct(u)) : u \in LockOrder(s)}
        /\ l \in UNION {ForUpdate(Acct(u)) : u \in LockOrder(s)}
    BY <1>3 DEF NextLock
  <2>3. PICK a \in LockOrder(s), b \in LockOrder(s) : k = <<Acct(a), "X">> /\ l = <<Acct(b), "X">>
    BY <2>2 DEF ForUpdate
  <2>4. a = b
    BY <1>1, <2>1, <2>3 DEF LockOrder
  <2> QED
    BY <2>3, <2>4
<1>4. todo[s] \subseteq Nat
  BY DataAssumption DEF IInv, TypeOK
<1>5. CASE pc[s] = "scan"
  <2>1. k \in {<<Vch(v), "N">> : v \in First(todo[s])} /\ l \in {<<Vch(v), "N">> : v \in First(todo[s])}
    BY <1>5 DEF NextLock
  <2> QED
    BY <1>1, <1>4, <2>1
<1>6. CASE pc[s] = "refund"
  <2>1. /\ k \in {<<Acct(voucher[v].user), "N">> : v \in First(todo[s])}
        /\ l \in {<<Acct(voucher[v].user), "N">> : v \in First(todo[s])}
    BY <1>6 DEF NextLock
  <2> QED
    BY <1>1, <1>4, <2>1
<1>7. CASE pc[s] = "fk"
  BY <1>7 DEF NextLock
<1> QED
  <2>1. NextLock(s) # {}
    OBVIOUS
  <2>2. \/ pc[s] = "lock" /\ req[s].op \in {"deduct", "issue", "transfer", "reward", "redeem"}
        \/ pc[s] \in {"scan", "refund", "fk"}
    BY <2>1 DEF NextLock
  <2> QED
    BY <1>2, <1>3, <1>5, <1>6, <1>7, <2>2

\* A circle without a sweep and without a redemption whose code is wanted.
LEMMA NoCycle ==
  ASSUME IInv, StoreInv, LockInv, IsFiniteSet(User), NEW S \in SUBSET Session, Deadlocked(S),
         \A s \in S : req[s].op # "expire" /\ ~CodeTaken(s, S)
  PROVE  FALSE
<1>1. /\ S # {}
      /\ \A s \in S : \E t \in S : t \in LockHolders(s) \/ t \in CodeHolders(s)
  BY DEF Deadlocked, Blockers
<1>2. ASSUME NEW s \in S
      PROVE  /\ pc[s] \in {"lock", "insert", "fk"} /\ req[s] \in Request
             /\ req[s].op \in {"deduct", "issue", "transfer", "reward", "redeem"}
             /\ s \in Session /\ StoreOK(s) /\ LockOK(s) /\ CallOK(s)
             /\ pc[s] = "fk" => req[s].op = "redeem"
  <2>1. pc[s] \in {"insert", "audit"} \/ NextLock(s) # {}
    <3>1. NextLock(s) # {} \/ Inserts(s) # {}
      BY <1>1 DEF LockHolders, CodeHolders, Disjoint
    <3> QED
      BY <3>1 DEF Inserts
  <2>2. pc[s] \in {"lock", "insert", "scan", "refund", "audit", "fk"}
    BY <2>1 DEF NextLock
  <2>3. req[s] \in Request /\ req[s].op \in Op
    BY <2>2, RequestFields
  <2>4. StoreOK(s) /\ SessionOK(s) /\ LockOK(s)
    BY DEF StoreInv, IInv, LockInv
  <2>5. req[s].op # "expire" /\ req[s].op # "deposit" /\ CallOK(s)
    BY <2>2, <2>3, <2>4 DEF StoreOK, CallOK
  <2>6. pc[s] \notin {"scan", "refund", "audit"} /\ (pc[s] = "fk" => req[s].op = "redeem")
    BY <2>4, <2>5 DEF SessionOK
  <2> QED
    BY <2>2, <2>3, <2>4, <2>5, <2>6 DEF Op
\* A code can only be wanted of a redemption, which the assumption rules out.
<1>3. ASSUME NEW s \in S, NEW t \in S, t \in CodeHolders(s) PROVE FALSE
  <2>1. PICK y \in work[t].rows : TRUE
    BY <1>3 DEF CodeHolders, Disjoint
  <2>2. pc[t] # "lock"
    BY <1>2, <2>1 DEF CallOK, NoWork
  <2>3. pc[t] # "insert"
    BY <1>2, <2>1 DEF StoreOK, Written
  <2>4. req[t].op = "redeem"
    BY <1>2, <2>2, <2>3
  <2> QED
    BY <1>3, <2>4 DEF CodeTaken
\* Whoever holds an account in S is a transfer that waits for a larger one.
<1>4. ASSUME NEW t \in S, NEW a \in User, NEW m \in Mode, Holds(t, Acct(a), m)
      PROVE  /\ pc[t] = "lock" /\ req[t].op = "transfer"
             /\ \A b \in Unlocked(t) : a < b
  <2>1. pc[t] # "insert"
    BY <1>1, <1>3 DEF LockHolders, NextLock
  <2>2. pc[t] = "lock"
    BY <1>2, <1>4, <2>1 DEF LockOK
  <2> QED
    BY <1>2, <1>4, <2>2 DEF LockOK
<1> DEFINE M == {a \in User : \E t \in S : \E m \in Mode : Holds(t, Acct(a), m)}
<1>5. ASSUME NEW s \in S, NEW l \in NextLock(s)
      PROVE  \E t \in S, n \in Mode : Holds(t, l[1], n)
  <2>1. PICK t \in S : t \in LockHolders(s)
    BY <1>1, <1>3
  <2>2. PICK k \in NextLock(s), n \in Mode : Holds(t, k[1], n)
    BY <2>1 DEF LockHolders, Holds
  <2>3. k = l
    BY <1>2, <2>2, OneLock
  <2> QED
    BY <2>2, <2>3
<1>6. ASSUME NEW a \in M PROVE \E b \in M : a < b
  <2>1. PICK t \in S, m \in Mode : Holds(t, Acct(a), m)
    BY <1>6
  <2>2. pc[t] = "lock" /\ req[t].op = "transfer" /\ \A b \in Unlocked(t) : a < b
    BY <1>4, <1>6, <2>1
  <2>3. PICK l \in NextLock(t) : TRUE
    <3>1. PICK u \in S : u \in LockHolders(t)
      BY <1>1, <1>3
    <3> QED
      BY <3>1 DEF LockHolders
  <2>4. PICK b \in LockOrder(t) : l = <<Acct(b), "X">> /\ b \in User
    <3>1. pc[t] # "idle" /\ t \in Session
      BY <1>2
    <3> QED
      BY <2>2, <3>1, NextLockIs
  <2>5. b \in Unlocked(t)
    BY <2>4 DEF LockOrder, First
  <2>6. PICK u \in S, n \in Mode : Holds(u, l[1], n)
    BY <1>5, <2>3
  <2>7. b \in M
    BY <2>4, <2>6
  <2> QED
    BY <2>2, <2>5, <2>7
<1>7. M # {}
  <2>1. ASSUME NEW s \in S, pc[s] = "fk" PROVE M # {}
    <3>1. PICK l \in NextLock(s) : TRUE
      BY <2>1 DEF NextLock
    <3>2. PICK a \in User, m \in Mode : l = <<Acct(a), m>>
      <4>1. req[s].op = "redeem" /\ req[s].voucher \in Voucher
        BY <1>2, <2>1, RequestFields
      <4>2. l = <<Acct(voucher[req[s].voucher].user), "K">>
        BY <2>1, <3>1 DEF NextLock
      <4>3. voucher[req[s].voucher].user \in User
        BY <4>1 DEF IInv, TypeOK, VoucherRow
      <4> QED
        BY <4>2, <4>3 DEF Mode
    <3>3. PICK t \in S, n \in Mode : Holds(t, l[1], n)
      BY <1>5, <3>1
    <3> QED
      BY <3>2, <3>3
  <2>2. ASSUME NEW s \in S, pc[s] = "insert" PROVE M # {}
    BY <1>1, <1>3, <2>2 DEF LockHolders, NextLock
  <2>3. ASSUME NEW s \in S, pc[s] = "lock" PROVE M # {}
    <3>1. PICK l \in NextLock(s) : TRUE
      <4>1. PICK u \in S : u \in LockHolders(s)
        BY <1>1, <1>3
      <4> QED
        BY <4>1 DEF LockHolders
    <3>2. PICK t \in S, n \in Mode : Holds(t, l[1], n)
      BY <1>5, <3>1
    <3>3. CASE \E a \in User, m \in Mode : l = <<Acct(a), m>>
      BY <3>2, <3>3
    <3>4. CASE \E v \in Voucher, m \in Mode : l = <<Vch(v), m>>
      <4>1. PICK v \in Voucher : l[1] = Vch(v)
        BY <3>4
      <4>2. pc[t] # "lock"
        BY <1>2, <3>2, <4>1 DEF LockOK
      <4> QED
        BY <1>2, <2>1, <2>2, <4>2
    <3> QED
      BY <1>2, <2>3, <3>1, <3>3, <3>4, NextLockIs
  <2> QED
    BY <1>1, <1>2, <2>1, <2>2, <2>3
<1>8. M \subseteq Nat /\ IsFiniteSet(M)
  BY DataAssumption, FS_Subset
<1> HIDE DEF M
<1>9. PICK m \in M : \A x \in M : x <= m
  BY <1>7, <1>8, HasGreatest
<1>10. PICK b \in M : m < b
  BY <1>6
<1> QED
  <2>1. m \in Nat /\ b \in Nat /\ b <= m
    BY <1>8, <1>9, <1>10
  <2> QED
    BY <1>10, <2>1

\* TransferCredit's comment on its ORDER BY user_id: transfers lock in one order, so
\* charges, transfers, rewards and issues never wait in a circle; every circle has a sweep
\* in it, or a redemption that has inserted a code which another call in it waits for.
THEOREM NoLockCycle == IsFiniteSet(User) => (Spec => []NoDeadlock)
<1>1. Init => LockInv
  <2> SUFFICES ASSUME Init PROVE LockInv
    OBVIOUS
  <2>1. \A t \in Session : \A r \in Row : \A m \in Mode : ~Holds(t, r, m)
    BY DEF Init, Holds
  <2> QED
    BY <2>1, RowsAre DEF LockInv, LockOK
<1>2. IInv /\ LockInv /\ [Next]_vars => LockInv'
  BY LockStep
<1>3. IsFiniteSet(User) /\ IInv /\ StoreInv /\ LockInv => NoDeadlock
  BY NoCycle DEF NoDeadlock
<1>4. Spec => []LockInv
  BY <1>1, <1>2, InductiveInvariant, PTL DEF Spec
<1>5. ASSUME IsFiniteSet(User) PROVE Spec => []NoDeadlock
  <2>1. IInv /\ StoreInv /\ LockInv => NoDeadlock
    BY <1>3, <1>5
  <2> QED
    BY <1>4, <2>1, InductiveInvariant, StoreInvariant, PTL
<1> QED
  BY <1>5
=============================================================================
