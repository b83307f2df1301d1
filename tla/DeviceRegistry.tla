----------------------------- MODULE DeviceRegistry -----------------------------
(***************************************************************************)
(* The device keys of one user in the wallet's Postgres store.             *)
(* EnrollDevice and RevokeDevice are single statements; RebindDevices is a *)
(* READ COMMITTED transaction of two.  Users do not share rows.            *)
(***************************************************************************)
EXTENDS Naturals, FiniteSets

CONSTANTS
  Key,       \* public keys of phones
  Session    \* connections that run RebindDevices

VARIABLES
  status,    \* status[k]: "absent", "active" or "revoked", committed
  pc,        \* pc[s]: the statement session s runs next
  new,       \* new[s]: the key it enrolls, as a set of at most one
  todo,      \* keys its revoking UPDATE has still to visit
  own,       \* row versions it wrote and nobody else sees yet
  locks,     \* locks[s]: the rows it holds
  old        \* ghost: keys active in the snapshot of s and not enrolled since

txn == <<pc, new, todo, own, locks>>
vars == <<status, txn, old>>

NoVersions == [k \in {} |-> "absent"]
Active == {k \in Key : status[k] = "active"}

Init ==
  /\ status = [k \in Key |-> "absent"]
  /\ pc = [s \in Session |-> "idle"]
  /\ new = [s \in Session |-> {}]
  /\ todo = [s \in Session |-> {}]
  /\ own = [s \in Session |-> NoVersions]
  /\ locks = [s \in Session |-> {}]
  /\ old = [s \in Session |-> {}]

\* Sessions other than s that hold the row of k (external: row locks, and the
\* unique index entry of a key another transaction has just inserted).
Holders(S, k) == {t \in S : k \in locks[t]}
Free(k) == Holders(Session, k) = {}

\* What ON CONFLICT does to a key the user enrolled before; the mutant's clause is
\* DO NOTHING.
DoNothing(k) == IF status[k] = "absent" THEN "active" ELSE status[k]
Reactivate(k) == "active"

EnrollDevice(k) ==
  /\ Free(k)
  /\ status' = [status EXCEPT ![k] = Reactivate(k)]
  /\ old' = [s \in Session |-> old[s] \ {k}]
  /\ UNCHANGED txn

\* An UPDATE does not see, and does not wait for, a row not committed yet.
RevokeDevice(k) ==
  /\ status[k] # "absent" /\ Free(k)
  /\ status' = [status EXCEPT ![k] = "revoked"]
  /\ UNCHANGED <<txn, old>>

(***************************************************************************)
(* RebindDevices.                                                          *)
(***************************************************************************)
Goto(s, p) == pc' = [pc EXCEPT ![s] = p]

Begin(s, k) ==
  /\ pc[s] = "idle"
  /\ Goto(s, "scan")
  /\ new' = [new EXCEPT ![s] = {k}]
  /\ UNCHANGED <<status, todo, own, locks, old>>

\* UPDATE ... WHERE status = 1: the snapshot of the statement picks the keys.
Scan(s) ==
  /\ pc[s] = "scan"
  /\ todo' = [todo EXCEPT ![s] = Active]
  /\ old' = [old EXCEPT ![s] = Active]
  /\ Goto(s, IF Active = {} THEN "enroll" ELSE "revoke")
  /\ UNCHANGED <<status, new, own, locks>>

\* Rows are locked in an order nothing fixes; under the lock the WHERE clause is
\* evaluated again on the row as it is committed now.
Lock(s, k) ==
  /\ Holders(Session \ {s}, k) = {}
  /\ locks' = [locks EXCEPT ![s] = @ \cup {k}]

Write(s, k, value) ==
  own' = [own EXCEPT ![s] =
            [x \in DOMAIN @ \cup {k} |-> IF x = k THEN value ELSE own[s][x]]]

RevokeOld(s) ==
  /\ pc[s] = "revoke"
  /\ \E k \in todo[s] :
       /\ Lock(s, k)
       /\ \/ status[k] = "active" /\ Write(s, k, "revoked")
          \/ status[k] # "active" /\ UNCHANGED own
       /\ todo' = [todo EXCEPT ![s] = @ \ {k}]
       /\ Goto(s, IF todo[s] = {k} THEN "enroll" ELSE "revoke")
  /\ UNCHANGED <<status, new, old>>

EnrollNew(s) ==
  /\ pc[s] = "enroll"
  /\ \E k \in new[s] : Lock(s, k) /\ Write(s, k, Reactivate(k))
  /\ Goto(s, "commit")
  /\ UNCHANGED <<status, new, todo, old>>

\* The mutants return the connection without ending its transaction, or end it
\* but keep what it wrote.
KeepVersions(s) ==
  /\ Goto(s, "idle")
  /\ new' = [new EXCEPT ![s] = {}]
  /\ todo' = [todo EXCEPT ![s] = {}]
  /\ locks' = [locks EXCEPT ![s] = {}]
  /\ UNCHANGED own

LeakTransaction(s) ==
  /\ Goto(s, "idle")
  /\ new' = [new EXCEPT ![s] = {}]
  /\ todo' = [todo EXCEPT ![s] = {}]
  /\ own' = [own EXCEPT ![s] = NoVersions]
  /\ UNCHANGED locks

Release(s) ==
  /\ Goto(s, "idle")
  /\ new' = [new EXCEPT ![s] = {}]
  /\ todo' = [todo EXCEPT ![s] = {}]
  /\ own' = [own EXCEPT ![s] = NoVersions]
  /\ locks' = [locks EXCEPT ![s] = {}]

Commit(s) ==
  /\ pc[s] = "commit"
  /\ status' = [k \in Key |-> IF k \in DOMAIN own[s] THEN own[s][k] ELSE status[k]]
  /\ old' = [t \in Session |-> IF t = s THEN {} ELSE old[t] \ new[s]]
  /\ Release(s)

Rollback(s) ==
  /\ old' = [old EXCEPT ![s] = {}]
  /\ Release(s)
  /\ UNCHANGED status

Fail(s) == pc[s] # "idle" /\ Rollback(s)

\* The rows s may try next, and the deadlock detector (external): sessions that
\* only wait for each other, of which it aborts one.
Wants(s) ==
  CASE pc[s] = "revoke" -> todo[s] [] pc[s] = "enroll" -> new[s] [] OTHER -> {}
Deadlocked(S) ==
  S # {} /\ \A s \in S : Wants(s) # {} /\ \A k \in Wants(s) : Holders(S \ {s}, k) # {}
\* Sessions that only queue behind a cycle are no victims.
Cycle(S) == Deadlocked(S) /\ \A T \in SUBSET S : Deadlocked(T) => T = S
AbortVictim(s) == (\E S \in SUBSET Session : s \in S /\ Cycle(S)) /\ Rollback(s)

Step(s) == Scan(s) \/ RevokeOld(s) \/ EnrollNew(s) \/ Commit(s)

Next ==
  \/ \E k \in Key : EnrollDevice(k) \/ RevokeDevice(k)
  \/ \E s \in Session, k \in Key : Begin(s, k)
  \/ \E s \in Session : Step(s) \/ Fail(s) \/ AbortVictim(s)

Spec == Init /\ [][Next]_vars

\* Postgres grants a row to its waiters in turn and looks for deadlocks.
FairSpec ==
  /\ Spec
  /\ \A s \in Session : SF_vars(Step(s))
  /\ WF_vars(\E s \in Session : AbortVictim(s))

(***************************************************************************)
(* Properties.                                                             *)
(***************************************************************************)
\* The type invariant; rows are written under a lock nobody else holds.
TypeOK ==
  /\ status \in [Key -> {"absent", "active", "revoked"}]
  /\ pc \in [Session -> {"idle", "scan", "revoke", "enroll", "commit"}]
  /\ new \in [Session -> SUBSET Key] /\ todo \in [Session -> SUBSET Key]
  /\ old \in [Session -> SUBSET Key]
  /\ locks \in [Session -> SUBSET Key]
  /\ \A s \in Session :
       /\ DOMAIN own[s] \subseteq locks[s]
       /\ \A k \in DOMAIN own[s] : own[s][k] \in {"active", "revoked"}
       /\ \A t \in Session \ {s} : locks[s] \cap locks[t] = {}

\* RebindDevices: once it commits the new phone's key is active, whatever it was
\* before, and no key it found active still is, unless enrolled again meanwhile.
RebindTakesOver ==
  [][\A s \in Session : Commit(s) =>
       /\ \A k \in new[s] : status'[k] = "active"
       /\ \A k \in old[s] \ new[s] : status'[k] # "active"]_vars

\* Every rebind ends, although rebinds of one user may deadlock.
RebindEnds == \A s \in Session : pc[s] # "idle" ~> pc[s] = "idle"
=============================================================================
