--------------------------- MODULE DeviceAccessProofs ---------------------------
(***************************************************************************)
(* For every set of keys, sessions, handlers, payments and auth frames: a  *)
(* recovery takes over, never locks its user out, and the gateway acts on  *)
(* keys that were active since the request arrived and, where the signed   *)
(* code and skus contain no "|", on amounts that were signed.              *)
(***************************************************************************)
EXTENDS TLAPS, DeviceAccess, SequenceTheorems

(***************************************************************************)
(* The registry.  TypeOK is not enough for what a commit publishes: it     *)
(* rests on what the session wrote and locked at each statement before.    *)
(***************************************************************************)
\* A key the snapshot found active and the session has visited: it is locked, and
\* the session revokes it or nobody has it active.
Visited(s, k) ==
  /\ k \in locks[s]
  /\ IF k \in DOMAIN own[s] THEN own[s][k] = "revoked" ELSE status[k] # "active"

\* What session s has written and locked at its statement.
RebindOK(s) ==
  /\ pc[s] = "scan" => DOMAIN own[s] = {}
  /\ pc[s] = "idle" => DOMAIN own[s] = {}
  /\ pc[s] # "idle" => \E k \in Key : new[s] = {k}
  /\ pc[s] \in {"revoke", "enroll"} => \A k \in DOMAIN own[s] : own[s][k] = "revoked"
  /\ pc[s] \in {"enroll", "commit"} => todo[s] = {}
  /\ pc[s] \in {"revoke", "enroll", "commit"} =>
       \A k \in (old[s] \ new[s]) \ todo[s] : Visited(s, k)
  /\ pc[s] = "commit" =>
       \A k \in new[s] : k \in DOMAIN own[s] /\ own[s][k] = "active"

RegistryInv ==
  /\ TypeOK
  /\ DOMAIN own = Session
  /\ \A s \in Session : RebindOK(s)

LEMMA InitRegistry == Init => RegistryInv
<1> SUFFICES ASSUME Init PROVE RegistryInv
  OBVIOUS
<1>1. \A s \in Session : own[s] = NoVersions /\ locks[s] = {} /\ pc[s] = "idle"
  BY DEF Init
<1>2. DOMAIN NoVersions = {}
  BY DEF NoVersions
<1>3. TypeOK
  BY <1>1, <1>2 DEF Init, TypeOK
<1>4. DOMAIN own = Session
  BY DEF Init
<1>5. \A s \in Session : RebindOK(s)
  BY <1>1, <1>2 DEF RebindOK
<1> QED
  BY <1>3, <1>4, <1>5 DEF RegistryInv

\* A session whose part of the state a step leaves alone keeps its part of the
\* invariant, if the rows it holds keep their status.
LEMMA OtherSession ==
  ASSUME RegistryInv, NEW t \in Session,
         pc'[t] = pc[t], new'[t] = new[t], todo'[t] = todo[t], own'[t] = own[t],
         locks'[t] = locks[t], old'[t] \subseteq old[t],
         \A k \in locks[t] : status'[k] = status[k]
  PROVE  RebindOK(t)'
<1>1. RebindOK(t)
  BY DEF RegistryInv
<1>2. \A k : Visited(t, k) => Visited(t, k)'
  BY DEF Visited
<1> QED
  BY <1>1, <1>2 DEF RebindOK

\* Ending a transaction leaves the other sessions alone.
LEMMA ReleaseSession ==
  ASSUME RegistryInv, NEW s \in Session, Release(s),
         old' \in [Session -> SUBSET Key],
         status' \in [Key -> {"absent", "active", "revoked"}],
         \A t \in Session \ {s} : /\ old'[t] \subseteq old[t]
                                  /\ \A k \in locks[t] : status'[k] = status[k]
  PROVE  RegistryInv'
<1>1. TypeOK /\ DOMAIN own = Session
  BY DEF RegistryInv
<1>2. DOMAIN NoVersions = {}
  BY DEF NoVersions
<1>3. /\ pc' = [pc EXCEPT ![s] = "idle"]
      /\ new' = [new EXCEPT ![s] = {}]
      /\ todo' = [todo EXCEPT ![s] = {}]
      /\ own' = [own EXCEPT ![s] = NoVersions]
      /\ locks' = [locks EXCEPT ![s] = {}]
  BY DEF Release, Goto
<1>4. TypeOK'
  BY <1>1, <1>2, <1>3 DEF TypeOK
<1>5. DOMAIN own' = Session
  BY <1>1, <1>3
<1>6. ASSUME NEW t \in Session PROVE RebindOK(t)'
  <2>1. CASE t = s
    BY <2>1, <1>1, <1>2, <1>3 DEF RebindOK, TypeOK
  <2>2. CASE t # s
    <3>1. /\ pc'[t] = pc[t] /\ new'[t] = new[t] /\ todo'[t] = todo[t]
          /\ own'[t] = own[t] /\ locks'[t] = locks[t]
      BY <2>2, <1>1, <1>3 DEF TypeOK
    <3> QED
      BY <2>2, <3>1, OtherSession
  <2> QED
    BY <2>1, <2>2
<1> QED
  BY <1>4, <1>5, <1>6 DEF RegistryInv

LEMMA EnrollStep ==
  ASSUME RegistryInv, NEW k \in Key, EnrollDevice(k)
  PROVE  RegistryInv' /\ k \in Active'
<1>1. TypeOK /\ DOMAIN own = Session
  BY DEF RegistryInv
<1>2. /\ status' = [status EXCEPT ![k] = "active"]
      /\ old' = [s \in Session |-> old[s] \ {k}]
      /\ UNCHANGED <<pc, new, todo, own, locks>>
      /\ \A s \in Session : k \notin locks[s]
  BY DEF EnrollDevice, Reactivate, txn, Free, Holders
<1>3. TypeOK' /\ k \in Active'
  BY <1>1, <1>2 DEF TypeOK, Active
<1>4. ASSUME NEW t \in Session PROVE RebindOK(t)'
  BY <1>1, <1>2, OtherSession DEF TypeOK
<1> QED
  BY <1>1, <1>2, <1>3, <1>4 DEF RegistryInv

LEMMA RevokeStep ==
  ASSUME RegistryInv, NEW k \in Key, RevokeDevice(k)
  PROVE  RegistryInv'
<1>1. TypeOK /\ DOMAIN own = Session
  BY DEF RegistryInv
<1>2. /\ status' = [status EXCEPT ![k] = "revoked"]
      /\ UNCHANGED <<pc, new, todo, own, locks, old>>
      /\ \A s \in Session : k \notin locks[s]
  BY DEF RevokeDevice, txn, Free, Holders
<1>3. TypeOK'
  BY <1>1, <1>2 DEF TypeOK
<1>4. ASSUME NEW t \in Session PROVE RebindOK(t)'
  BY <1>1, <1>2, OtherSession DEF TypeOK
<1> QED
  BY <1>1, <1>2, <1>3, <1>4 DEF RegistryInv

LEMMA BeginStep ==
  ASSUME RegistryInv, NEW s \in Session, NEW k \in Key, Begin(s, k)
  PROVE  RegistryInv' /\ UNCHANGED status
<1>1. TypeOK /\ DOMAIN own = Session
  BY DEF RegistryInv
<1>2. /\ pc[s] = "idle" /\ pc' = [pc EXCEPT ![s] = "scan"]
      /\ new' = [new EXCEPT ![s] = {k}]
      /\ UNCHANGED <<status, todo, own, locks, old>>
  BY DEF Begin, Goto
<1>3. TypeOK'
  BY <1>1, <1>2 DEF TypeOK
<1>4. RebindOK(s)'
  BY <1>1, <1>2 DEF RegistryInv, RebindOK, TypeOK
<1>5. ASSUME NEW t \in Session \ {s} PROVE RebindOK(t)'
  BY <1>1, <1>2, OtherSession DEF TypeOK
<1> QED
  BY <1>1, <1>2, <1>3, <1>4, <1>5 DEF RegistryInv

LEMMA ScanStep ==
  ASSUME RegistryInv, NEW s \in Session, Scan(s)
  PROVE  RegistryInv' /\ UNCHANGED status
<1>1. TypeOK /\ DOMAIN own = Session /\ RebindOK(s)
  BY DEF RegistryInv
<1>2. /\ pc[s] = "scan"
      /\ pc' = [pc EXCEPT ![s] = IF Active = {} THEN "enroll" ELSE "revoke"]
      /\ todo' = [todo EXCEPT ![s] = Active] /\ old' = [old EXCEPT ![s] = Active]
      /\ UNCHANGED <<status, new, own, locks>>
  BY DEF Scan, Goto
<1>3. Active \subseteq Key
  BY DEF Active
<1>4. TypeOK'
  BY <1>1, <1>2, <1>3 DEF TypeOK
<1>5. RebindOK(s)'
  BY <1>1, <1>2 DEF RebindOK, TypeOK
<1>6. ASSUME NEW t \in Session \ {s} PROVE RebindOK(t)'
  BY <1>1, <1>2, OtherSession DEF TypeOK
<1> QED
  BY <1>1, <1>2, <1>4, <1>5, <1>6 DEF RegistryInv

LEMMA RevokeOldStep ==
  ASSUME RegistryInv, NEW s \in Session, RevokeOld(s)
  PROVE  RegistryInv' /\ UNCHANGED status
<1>1. TypeOK /\ DOMAIN own = Session /\ RebindOK(s)
  BY DEF RegistryInv
<1>2. PICK k \in todo[s] :
        /\ Lock(s, k)
        /\ \/ status[k] = "active" /\ Write(s, k, "revoked")
           \/ status[k] # "active" /\ UNCHANGED own
        /\ todo' = [todo EXCEPT ![s] = @ \ {k}]
        /\ Goto(s, IF todo[s] = {k} THEN "enroll" ELSE "revoke")
  BY DEF RevokeOld
<1>3. pc[s] = "revoke" /\ UNCHANGED <<status, new, old>>
  BY DEF RevokeOld
<1>4. k \in Key /\ \A t \in Session \ {s} : k \notin locks[t]
  BY <1>1, <1>2 DEF TypeOK, Lock, Holders
<1>5. /\ pc' = [pc EXCEPT ![s] = IF todo[s] = {k} THEN "enroll" ELSE "revoke"]
      /\ locks' = [locks EXCEPT ![s] = @ \cup {k}]
  BY <1>2 DEF Goto, Lock
<1>6. /\ DOMAIN own' = Session
      /\ \A t \in Session \ {s} : own'[t] = own[t]
      /\ DOMAIN own'[s] \subseteq DOMAIN own[s] \cup {k}
      /\ \A x \in DOMAIN own'[s] : own'[s][x] = "revoked"
      /\ \A x \in DOMAIN own[s] : x \in DOMAIN own'[s]
      /\ \A x \in DOMAIN own'[s] \ {k} : x \in DOMAIN own[s]
      /\ k \notin DOMAIN own'[s] => status[k] # "active"
  BY <1>1, <1>2, <1>3 DEF Write, RebindOK
<1>7. TypeOK'
  BY <1>1, <1>2, <1>3, <1>4, <1>5, <1>6 DEF TypeOK
<1>8. RebindOK(s)'
  <2>1. \A x \in (old[s] \ new[s]) \ todo'[s] : Visited(s, x)'
    BY <1>1, <1>2, <1>3, <1>5, <1>6 DEF RebindOK, Visited, TypeOK
  <2> QED
    BY <1>1, <1>2, <1>3, <1>5, <1>6, <2>1 DEF RebindOK, TypeOK
<1>9. ASSUME NEW t \in Session \ {s} PROVE RebindOK(t)'
  BY <1>1, <1>2, <1>3, <1>5, <1>6, OtherSession DEF TypeOK
<1> QED
  BY <1>3, <1>6, <1>7, <1>8, <1>9 DEF RegistryInv

LEMMA EnrollNewStep ==
  ASSUME RegistryInv, NEW s \in Session, EnrollNew(s)
  PROVE  RegistryInv' /\ UNCHANGED status
<1>1. TypeOK /\ DOMAIN own = Session /\ RebindOK(s)
  BY DEF RegistryInv
<1>2. PICK k \in new[s] : Lock(s, k) /\ Write(s, k, "active")
  BY DEF EnrollNew, Reactivate
<1>3. pc[s] = "enroll" /\ UNCHANGED <<status, new, todo, old>>
  BY DEF EnrollNew
<1>4. /\ k \in Key /\ new[s] = {k}
      /\ \A t \in Session \ {s} : k \notin locks[t]
  BY <1>1, <1>2, <1>3 DEF TypeOK, Lock, Holders, RebindOK
<1>5. /\ pc' = [pc EXCEPT ![s] = "commit"]
      /\ locks' = [locks EXCEPT ![s] = @ \cup {k}]
  BY <1>2 DEF EnrollNew, Goto, Lock
<1>6. /\ DOMAIN own' = Session
      /\ \A t \in Session \ {s} : own'[t] = own[t]
      /\ DOMAIN own'[s] = DOMAIN own[s] \cup {k}
      /\ own'[s][k] = "active"
      /\ \A x \in DOMAIN own'[s] \ {k} : own'[s][x] = own[s][x]
  BY <1>1, <1>2 DEF Write
<1>7. TypeOK'
  BY <1>1, <1>3, <1>4, <1>5, <1>6, SMTT(30) DEF TypeOK
<1>8. RebindOK(s)'
  <2>1. \A x \in old[s] \ new[s] : Visited(s, x)'
    BY <1>1, <1>3, <1>4, <1>5, <1>6 DEF RebindOK, Visited, TypeOK
  <2> QED
    BY <1>1, <1>3, <1>4, <1>5, <1>6, <2>1 DEF RebindOK, TypeOK
<1>9. ASSUME NEW t \in Session \ {s} PROVE RebindOK(t)'
  BY <1>1, <1>3, <1>5, <1>6, OtherSession DEF TypeOK
<1> QED
  BY <1>3, <1>6, <1>7, <1>8, <1>9 DEF RegistryInv

\* What RebindTakesOver says of the commit.
TakesOver(s) ==
  /\ \A k \in new[s] : status'[k] = "active"
  /\ \A k \in old[s] \ new[s] : status'[k] # "active"

LEMMA CommitStep ==
  ASSUME RegistryInv, NEW s \in Session, Commit(s)
  PROVE  RegistryInv' /\ TakesOver(s) /\ Active' # {}
<1>1. TypeOK /\ DOMAIN own = Session /\ RebindOK(s)
  BY DEF RegistryInv
<1>2. /\ pc[s] = "commit"
      /\ status' = [k \in Key |-> IF k \in DOMAIN own[s] THEN own[s][k] ELSE status[k]]
      /\ old' = [t \in Session |-> IF t = s THEN {} ELSE old[t] \ new[s]]
      /\ Release(s)
  BY DEF Commit
<1>3. /\ DOMAIN own[s] \subseteq Key
      /\ \A t \in Session \ {s} : locks[t] \subseteq Key \ DOMAIN own[s]
  BY <1>1 DEF TypeOK
<1>4. RegistryInv'
  <2>1. old' \in [Session -> SUBSET Key] /\ status' \in [Key -> {"absent", "active", "revoked"}]
    BY <1>1, <1>2 DEF TypeOK
  <2>2. \A t \in Session \ {s} : /\ old'[t] \subseteq old[t]
                                 /\ \A k \in locks[t] : status'[k] = status[k]
    BY <1>2, <1>3
  <2> QED
    BY <1>2, <2>1, <2>2, ReleaseSession
<1>5. TakesOver(s)
  <2>1. old[s] \subseteq Key /\ new[s] \subseteq Key /\ todo[s] = {}
    BY <1>1, <1>2 DEF TypeOK, RebindOK
  <2> QED
    BY <1>1, <1>2, <2>1 DEF TakesOver, RebindOK, Visited
<1>6. Active' # {}
  BY <1>1, <1>2, <1>5 DEF RebindOK, TakesOver, Active
<1> QED
  BY <1>4, <1>5, <1>6

LEMMA RollbackStep ==
  ASSUME RegistryInv, NEW s \in Session, Rollback(s)
  PROVE  RegistryInv' /\ UNCHANGED status
<1>1. Release(s) /\ old' = [old EXCEPT ![s] = {}] /\ UNCHANGED status
  BY DEF Rollback
<1>2. TypeOK
  BY DEF RegistryInv
<1>3. /\ old' \in [Session -> SUBSET Key]
      /\ status' \in [Key -> {"absent", "active", "revoked"}]
      /\ \A t \in Session \ {s} : old'[t] = old[t]
  BY <1>1, <1>2 DEF TypeOK
<1> QED
  BY <1>1, <1>3, ReleaseSession

LEMMA RegistryStep ==
  ASSUME RegistryInv, [Next]_vars
  PROVE  /\ RegistryInv'
         /\ \A s \in Session : Commit(s) => TakesOver(s)
         /\ Active' = {} /\ Active # {} => \E k \in Key : RevokeDevice(k)
<1>1. ASSUME NEW s \in Session, Commit(s) PROVE TakesOver(s)
  BY <1>1, CommitStep
<1>2. ASSUME UNCHANGED status PROVE Active' = Active
  BY <1>2 DEF Active
<1>3. CASE UNCHANGED vars
  <2>1. RegistryInv'
    BY <1>3 DEF vars, txn, RegistryInv, TypeOK, RebindOK, Visited
  <2> QED
    BY <1>1, <1>2, <1>3, <2>1 DEF vars
<1>4. ASSUME NEW k \in Key, EnrollDevice(k) \/ RevokeDevice(k)
      PROVE  RegistryInv' /\ (Active' # {} \/ RevokeDevice(k))
  BY <1>4, EnrollStep, RevokeStep
<1>5. ASSUME NEW s \in Session, NEW k \in Key, Begin(s, k)
      PROVE  RegistryInv' /\ UNCHANGED status
  BY <1>5, BeginStep
<1>6. ASSUME NEW s \in Session, Step(s) \/ Fail(s) \/ AbortVictim(s)
      PROVE  RegistryInv' /\ (UNCHANGED status \/ Active' # {})
  BY <1>6, ScanStep, RevokeOldStep, EnrollNewStep, CommitStep, RollbackStep
     DEF Step, Fail, AbortVictim
<1> QED
  BY <1>1, <1>2, <1>3, <1>4, <1>5, <1>6 DEF Next

\* The inductive invariant of the registry, whatever its users do.
THEOREM RegistryInvariant == Spec => []RegistryInv
<1>1. RegistryInv /\ [Next]_vars => RegistryInv'
  BY RegistryStep
<1> QED
  BY InitRegistry, <1>1, PTL DEF Spec

(***************************************************************************)
(* The gateway.                                                            *)
(***************************************************************************)
\* DeviceAccess uses the registry through its operations only: what holds of every
\* behaviour of the registry holds of it under the gateway's endpoints.
LEMMA AccessStepsRegistry == [AccessNext]_access => [Next]_vars
<1> SUFFICES ASSUME [AccessNext]_access PROVE [Next]_vars
  OBVIOUS
<1>1. CASE UNCHANGED access
  BY <1>1 DEF access
<1>2. ASSUME NEW k \in Key, DeviceEnroll(k) \/ RevokeDeviceRPC(k) PROVE Next
  BY <1>2 DEF DeviceEnroll, RevokeDeviceRPC, Next
<1>3. ASSUME NEW s \in Session, NEW k \in Key, RecoveryRebind(s, k) PROVE Next
  BY <1>3 DEF RecoveryRebind, Next
<1>4. ASSUME NEW s \in Session, RebindStep(s) PROVE Next
  BY <1>4 DEF RebindStep, Next
<1>5. ASSUME NEW h \in Handler, NEW p, PaySigned(h, p) \/ AuthFrame(h, p)
      PROVE  UNCHANGED vars
  BY <1>5 DEF PaySigned, AuthFrame
<1>6. ASSUME NEW h \in Handler,
             \/ Accept(h) \/ HandshakeTimeout(h) \/ LookUp(h) \/ LookUpFails(h)
             \/ Settle(h) \/ Vanish(h) \/ Close(h) \/ Ping(h)
      PROVE  UNCHANGED vars
  BY <1>6 DEF Accept, HandshakeTimeout, LookUp, LookUpFails, Settle, Vanish, Close, Ping
<1> QED
  BY <1>1, <1>2, <1>3, <1>4, <1>5, <1>6 DEF AccessNext

\* The gateway's handlers touch the registry only through its own operations, so the
\* theorems about the registry hold with them.
THEOREM AccessImplementsRegistry == AccessSpec => Spec
<1>1. AccessInit => Init
  BY DEF AccessInit
<1> QED
  BY <1>1, AccessStepsRegistry, PTL DEF AccessSpec, Spec

\* RebindDevices: the key it enrolls is active at its commit and the keys its snapshot
\* found are not, for any number of concurrent recoveries of a user.
THEOREM RecoveryTakesOver == AccessSpec => RebindTakesOver
<1>1. RegistryInv /\ [Next]_vars =>
        [\A s \in Session : Commit(s) =>
           /\ \A k \in new[s] : status'[k] = "active"
           /\ \A k \in old[s] \ new[s] : status'[k] # "active"]_vars
  BY RegistryStep DEF TakesOver
<1>2. Spec => RebindTakesOver
  BY <1>1, RegistryInvariant, PTL DEF Spec, RebindTakesOver
<1> QED
  BY <1>2, AccessImplementsRegistry, PTL

\* RebindDevices, RevokeDevice: a user loses the last active key by a revocation and
\* by no recovery, failed, aborted or concurrent.
THEOREM RecoveryLeavesKey == AccessSpec => NeverLockedOut
<1>1. RegistryInv /\ [Next]_vars =>
        [ActiveNow = {} /\ Active # {} => \E k \in Key : RevokeDevice(k)]_vars
  <2>1. ActiveNow = Active'
    BY DEF ActiveNow, Active
  <2> QED
    BY <2>1, RegistryStep
<1>2. Spec => NeverLockedOut
  BY <1>1, RegistryInvariant, PTL DEF Spec, NeverLockedOut
<1> QED
  BY <1>2, AccessImplementsRegistry, PTL

\* KeyWasActive is not inductive: the look-up reads the registry, so what it relies on
\* is that a handler waiting for one whose key is active now has been seen.
AccessInv ==
  /\ AccessTypeOK
  /\ DOMAIN job = Handler
  /\ KeyWasActive
  /\ \A h \in Handler :
       /\ at[h] = "lookup" /\ job[h].key \in Active => h \in seen
       /\ at[h] = "settle" => job[h].kind = "pay" /\ Verifies(job[h])
       /\ at[h] = "session" => job[h].kind = "auth" /\ Verifies(job[h])

LEMMA InitAccess == AccessInit => AccessInv
<1> SUFFICES ASSUME AccessInit PROVE AccessInv
  OBVIOUS
<1>1. TypeOK
  BY InitRegistry DEF AccessInit, RegistryInv
<1>2. \A h \in Handler : at[h] = "idle" /\ job[h] = NoJob
  BY DEF AccessInit
<1>3. AccessTypeOK
  BY <1>1, <1>2 DEF AccessInit, AccessTypeOK, Connected
<1> QED
  BY <1>2, <1>3 DEF AccessInit, AccessInv, KeyWasActive

\* Steps of the registry, and the waiting of a handler.
LEMMA ServedStep ==
  ASSUME AccessInv, TypeOK', Served
  PROVE  AccessInv'
<1>1. UNCHANGED <<at, job, gone>> /\ Watch
  BY DEF Served, gateway
<1>2. ActiveNow = Active'
  BY DEF ActiveNow, Active
<1>3. seen' \subseteq Handler
  BY <1>1 DEF Watch
<1>4. AccessTypeOK'
  BY <1>1, <1>3 DEF AccessInv, AccessTypeOK, Connected
<1>5. KeyWasActive'
  BY <1>1 DEF AccessInv, KeyWasActive, Watch
<1> QED
  BY <1>1, <1>2, <1>4, <1>5 DEF AccessInv, Watch, Verifies, CanonicalCart

\* One handler goes on with job j, the registry unchanged.
LEMMA GoesStep ==
  ASSUME AccessInv, TypeOK', NEW h \in Handler, NEW stage, NEW j, Goes(h, stage, j),
         gone' = gone \ {h}, Watch,
         \/ stage = "idle" /\ j = NoJob
         \/ stage = "challenge" /\ j = NoJob
         \/ stage = "lookup" /\ j \in Payment \cup Auth
         \/ stage = "settle" /\ j \in Payment /\ Verifies(j) /\ h \in seen
         \/ stage = "session" /\ j \in Auth /\ Verifies(j) /\ h \in seen
  PROVE  AccessInv'
<1>1. AccessTypeOK /\ KeyWasActive
  BY DEF AccessInv
<1>2. at' = [at EXCEPT ![h] = stage] /\ job' = [job EXCEPT ![h] = j]
  BY DEF Goes
<1>3. DOMAIN job' = Handler /\ job'[h] = j /\ \A x \in Handler \ {h} : job'[x] = job[x]
  BY <1>2 DEF AccessInv
<1>4. ActiveNow = Active'
  BY DEF ActiveNow, Active
<1>5. seen' \subseteq Handler
  BY DEF Watch
<1>6. /\ at' \in [Handler -> {"idle", "challenge", "lookup", "settle", "session"}]
      /\ at'[h] = stage /\ \A x \in Handler \ {h} : at'[x] = at[x]
  BY <1>1, <1>2 DEF AccessTypeOK
<1>7. AccessTypeOK'
  <2>1. gone' \subseteq Connected'
    BY <1>1, <1>6 DEF AccessTypeOK, Connected
  <2>2. ASSUME NEW x \in Handler
        PROVE  CASE at'[x] = "settle" -> job'[x] \in Payment
                 [] at'[x] = "session" -> job'[x] \in Auth
                 [] at'[x] = "lookup" -> job'[x] \in Payment \cup Auth
                 [] OTHER -> job'[x] = NoJob
    <3>1. CASE x = h
      BY <1>3, <1>6, <3>1
    <3>2. CASE x # h
      BY <1>1, <1>3, <1>6, <3>2 DEF AccessTypeOK
    <3> QED
      BY <3>1, <3>2
  <2> QED
    BY <1>5, <1>6, <2>1, <2>2 DEF AccessTypeOK
<1>8. KeyWasActive'
  BY <1>1, <1>3, <1>6 DEF KeyWasActive, Watch
<1>9. ASSUME NEW x \in Handler
      PROVE  /\ at'[x] = "lookup" /\ job'[x].key \in Active' => x \in seen'
             /\ at'[x] = "settle" => job'[x].kind = "pay" /\ Verifies(job'[x])
             /\ at'[x] = "session" => job'[x].kind = "auth" /\ Verifies(job'[x])
  <2>1. at'[x] = "lookup" /\ job'[x].key \in Active' => x \in seen'
    BY <1>4 DEF Watch
  <2>2. CASE x = h
    BY <1>3, <1>6, <2>1, <2>2, AccessAssumption
  <2>3. CASE x # h
    BY <1>3, <1>6, <2>1, <2>3 DEF AccessInv
  <2> QED
    BY <2>2, <2>3
<1>10. \A x \in Handler : Verifies(job[x])' = Verifies(job'[x])
  BY DEF Verifies, CanonicalCart
<1> QED
  BY <1>3, <1>7, <1>8, <1>9, <1>10 DEF AccessInv

LEMMA AccessStep ==
  ASSUME AccessInv, TypeOK', [AccessNext]_access
  PROVE  AccessInv'
<1>1. CASE UNCHANGED access
  <2>1. UNCHANGED <<status, pc, new, todo, own, locks, old, at, job, gone, seen>>
    BY <1>1 DEF access, vars, txn, gateway
  <2>2. \A h \in Handler : Verifies(job[h])' = Verifies(job[h])
    BY <2>1 DEF Verifies, CanonicalCart
  <2>3. AccessTypeOK' /\ KeyWasActive' /\ Active' = Active
    BY <2>1 DEF AccessInv, AccessTypeOK, KeyWasActive, Connected, Active
  <2> QED
    BY <2>1, <2>2, <2>3 DEF AccessInv
<1>2. ASSUME Served PROVE AccessInv'
  BY <1>2, ServedStep
<1>3. ASSUME NEW k \in Key, DeviceEnroll(k) \/ RevokeDeviceRPC(k) PROVE Served
  BY <1>3 DEF DeviceEnroll, RevokeDeviceRPC
<1>4. ASSUME NEW s \in Session, NEW k \in Key, RecoveryRebind(s, k) PROVE Served
  BY <1>4 DEF RecoveryRebind
<1>5. ASSUME NEW s \in Session, RebindStep(s) PROVE Served
  BY <1>5 DEF RebindStep
<1>6. ASSUME NEW h \in Handler, at[h] # "session", UNCHANGED gone
      PROVE  gone' = gone \ {h}
  BY <1>6 DEF AccessInv, AccessTypeOK, Connected
<1>7. ASSUME NEW h \in Handler, NEW p \in Payment, PaySigned(h, p) PROVE AccessInv'
  BY <1>6, <1>7, GoesStep DEF PaySigned
<1>8. ASSUME NEW h \in Handler, NEW f \in Auth, AuthFrame(h, f) PROVE AccessInv'
  BY <1>6, <1>8, GoesStep DEF AuthFrame
<1>9. ASSUME NEW h \in Handler, Accept(h) PROVE AccessInv'
  BY <1>6, <1>9, GoesStep DEF Accept
<1>10. ASSUME NEW h \in Handler, Ends(h), Watch PROVE AccessInv'
  BY <1>10, GoesStep DEF Ends
<1>11. ASSUME NEW h \in Handler, LookUp(h) PROVE AccessInv'
  <2>1. at[h] = "lookup" /\ Watch
    BY <1>11 DEF LookUp
  <2>2. CASE Ends(h)
    BY <1>10, <2>1, <2>2
  <2>3. CASE /\ Admitted(job[h]) /\ UNCHANGED gone
             /\ Goes(h, IF job[h].kind = "pay" THEN "settle" ELSE "session", job[h])
    <3>1. Verifies(job[h]) /\ h \in seen
      BY <2>1, <2>3 DEF Admitted, Listed, AccessInv
    <3>2. job[h] \in Payment \cup Auth
      BY <2>1 DEF AccessInv, AccessTypeOK
    <3>3. CASE job[h].kind = "pay"
      <4>1. job[h] \in Payment
        BY <3>2, <3>3, AccessAssumption
      <4> QED
        BY <1>6, <2>1, <2>3, <3>1, <3>3, <4>1, GoesStep
    <3>4. CASE job[h].kind # "pay"
      <4>1. job[h] \in Auth
        BY <3>2, <3>4, AccessAssumption
      <4> QED
        BY <1>6, <2>1, <2>3, <3>1, <3>4, <4>1, GoesStep
    <3> QED
      BY <3>3, <3>4
  <2> QED
    BY <1>11, <2>2, <2>3 DEF LookUp
<1>12. ASSUME NEW h \in Handler, Vanish(h) PROVE AccessInv'
  <2>1. UNCHANGED <<vars, at, job>> /\ gone' = gone \cup {h} /\ h \in Connected /\ Watch
    BY <1>12 DEF Vanish
  <2>2. UNCHANGED status /\ ActiveNow = Active'
    BY <2>1 DEF vars, ActiveNow, Active
  <2>3. seen' \subseteq Handler
    BY <2>1 DEF Watch
  <2>4. AccessTypeOK'
    BY <2>1, <2>3 DEF AccessInv, AccessTypeOK, Connected
  <2>5. KeyWasActive'
    BY <2>1 DEF AccessInv, KeyWasActive, Watch
  <2>6. \A x \in Handler : Verifies(job[x])' = Verifies(job[x])
    BY <2>1 DEF Verifies, CanonicalCart
  <2> QED
    BY <2>1, <2>2, <2>4, <2>5, <2>6 DEF AccessInv, Watch
<1>13. ASSUME NEW h \in Handler,
              HandshakeTimeout(h) \/ LookUpFails(h) \/ Settle(h) \/ Close(h) \/ Ping(h)
       PROVE  AccessInv'
  BY <1>10, <1>13 DEF HandshakeTimeout, LookUpFails, Settle, Close, Ping
<1> QED
  BY <1>1, <1>2, <1>3, <1>4, <1>5, <1>7, <1>8, <1>9, <1>11, <1>12, <1>13 DEF AccessNext

\* The inductive invariant of the whole: what each handler has read of the registry, and
\* when, whatever the phones send.
THEOREM AccessInvariant == AccessSpec => []AccessInv
<1>1. AccessSpec => []TypeOK
  <2>1. RegistryInv => TypeOK
    BY DEF RegistryInv
  <2> QED
    BY <2>1, AccessImplementsRegistry, RegistryInvariant, PTL
<1>2. AccessInv /\ TypeOK' /\ [AccessNext]_access => AccessInv'
  BY AccessStep
<1> QED
  BY InitAccess, <1>1, <1>2, PTL DEF AccessSpec

\* Handlers, sessions of the wallet and phones are in the states their code knows, and
\* no two transactions hold one row.
THEOREM AccessTypeCorrect == AccessSpec => []AccessTypeOK
<1>1. AccessInv => AccessTypeOK
  BY DEF AccessInv
<1> QED
  BY <1>1, AccessInvariant, PTL

\* paySigned, wsHandshake: who is admitted had an active key after the request arrived.
THEOREM AdmittedWasActive == AccessSpec => []KeyWasActive
<1>1. AccessInv => KeyWasActive
  BY DEF AccessInv
<1> QED
  BY <1>1, AccessInvariant, PTL

(***************************************************************************)
(* Signed texts.                                                           *)
(***************************************************************************)
Fields(a, d, r) == Append(a, Bar) \o Append(d, Bar) \o r

\* The words of a text t of three fields, by position.
Words(t, a, d, r) ==
  /\ Len(t) = Len(a) + Len(d) + Len(r) + 2
  /\ \A i \in 1 .. Len(a) : t[i] = a[i]
  /\ t[Len(a) + 1] = Bar
  /\ \A i \in 1 .. Len(d) : t[Len(a) + 1 + i] = d[i]
  /\ t[Len(a) + Len(d) + 2] = Bar
  /\ \A i \in 1 .. Len(r) : t[Len(a) + Len(d) + 2 + i] = r[i]

LEMMA FieldWords ==
  ASSUME NEW a \in Seq(Int), NEW d \in Seq(Int), NEW r \in Seq(Int)
  PROVE  Words(Fields(a, d, r), a, d, r)
<1> DEFINE x == Append(a, Bar)
           y == Append(d, Bar)
           z == x \o y
           t == z \o r
<1>1. Bar \in Int /\ Len(a) \in Nat /\ Len(d) \in Nat /\ Len(r) \in Nat
  BY DEF Bar
<1>2. /\ x \in Seq(Int) /\ Len(x) = Len(a) + 1 /\ x[Len(a) + 1] = Bar
      /\ \A i \in 1 .. Len(a) : x[i] = a[i]
  BY <1>1, AppendProperties
<1>3. /\ y \in Seq(Int) /\ Len(y) = Len(d) + 1 /\ y[Len(d) + 1] = Bar
      /\ \A i \in 1 .. Len(d) : y[i] = d[i]
  BY <1>1, AppendProperties
<1>4. t = Fields(a, d, r)
  BY DEF Fields
<1> HIDE DEF x, y
<1>5. /\ z \in Seq(Int) /\ Len(z) = Len(x) + Len(y)
      /\ \A i \in 1 .. Len(x) + Len(y) : z[i] = IF i <= Len(x) THEN x[i] ELSE y[i - Len(x)]
  BY <1>2, <1>3, ConcatProperties
<1> HIDE DEF z
<1>6. /\ Len(t) = Len(z) + Len(r)
      /\ \A i \in 1 .. Len(z) + Len(r) : t[i] = IF i <= Len(z) THEN z[i] ELSE r[i - Len(z)]
  <2>1. z \in Seq(Int)
    BY <1>5
  <2> QED
    BY <2>1, ConcatProperties
<1> HIDE DEF t
<1>7. Len(z) = Len(a) + Len(d) + 2 /\ Len(z) \in Nat /\ Len(t) = Len(a) + Len(d) + Len(r) + 2
  BY <1>1, <1>2, <1>3, <1>5, <1>6
<1>8. ASSUME NEW i \in 1 .. Len(a) + 1 PROVE t[i] = x[i]
  <2>1. i \in 1 .. Len(z) + Len(r) /\ i <= Len(z) /\ i \in 1 .. Len(x) + Len(y) /\ i <= Len(x)
    BY <1>1, <1>2, <1>3, <1>7
  <2> QED
    BY <1>5, <1>6, <2>1
<1>9. ASSUME NEW i \in 1 .. Len(d) + 1 PROVE t[Len(a) + 1 + i] = y[i]
  <2> DEFINE j == Len(a) + 1 + i
  <2>1. /\ j \in 1 .. Len(z) + Len(r) /\ j <= Len(z) /\ j \in 1 .. Len(x) + Len(y)
        /\ ~(j <= Len(x)) /\ j - Len(x) = i
    BY <1>1, <1>2, <1>3, <1>7
  <2> HIDE DEF j
  <2>2. t[j] = y[i]
    BY <1>5, <1>6, <2>1
  <2> QED
    BY <2>2 DEF j
<1>10. ASSUME NEW i \in 1 .. Len(r) PROVE t[Len(a) + Len(d) + 2 + i] = r[i]
  <2> DEFINE j == Len(a) + Len(d) + 2 + i
  <2>1. j \in 1 .. Len(z) + Len(r) /\ ~(j <= Len(z)) /\ j - Len(z) = i
    BY <1>1, <1>7
  <2> HIDE DEF j
  <2>2. t[j] = r[i]
    BY <1>6, <2>1
  <2> QED
    BY <2>2 DEF j
<1>11. t[Len(a) + Len(d) + 2] = Bar
  <2>1. Len(d) + 1 \in 1 .. Len(d) + 1 /\ Len(a) + 1 + (Len(d) + 1) = Len(a) + Len(d) + 2
    BY <1>1
  <2> QED
    BY <1>3, <1>9, <2>1
<1>12. t[Len(a) + 1] = Bar /\ \A i \in 1 .. Len(a) : t[i] = a[i]
  BY <1>1, <1>2, <1>8
<1>13. \A i \in 1 .. Len(d) : t[Len(a) + 1 + i] = d[i]
  BY <1>1, <1>3, <1>9
<1>14. Words(t, a, d, r)
  BY <1>7, <1>10, <1>11, <1>12, <1>13 DEF Words
<1> QED
  BY <1>4, <1>14

LEMMA DecimalWords ==
  ASSUME NEW n \in Int
  PROVE  /\ Decimal(n) \in Seq(Int)
         /\ \A i \in 1 .. Len(Decimal(n)) : Decimal(n)[i] # Bar
         /\ \A m \in Int : Decimal(m) = Decimal(n) => m = n
<1>1. CASE n < 0
  <2>1. Decimal(n) = <<Minus, 0 - n>>
    BY <1>1 DEF Decimal
  <2> QED
    BY <1>1, <2>1 DEF Decimal, Minus, Bar
<1>2. CASE ~(n < 0)
  <2>1. Decimal(n) = <<n>>
    BY <1>2 DEF Decimal
  <2> QED
    BY <1>2, <2>1 DEF Decimal, Minus, Bar
<1> QED
  BY <1>1, <1>2

\* A field that can be told from its separators.
NoBar(s) == \A i \in 1 .. Len(s) : s[i] # Bar

\* A text whose first, second and last fields contain no "|" can be read in no other way.
LEMMA OneReading ==
  ASSUME NEW a \in Seq(Int), NEW d \in Seq(Int), NEW r \in Seq(Int),
         NEW x \in Seq(Int), NEW y \in Seq(Int), NEW z \in Seq(Int),
         NoBar(a), NoBar(d), NoBar(r),
         Fields(a, d, r) = Fields(x, y, z)
  PROVE  a = x /\ d = y
<1> DEFINE t == Fields(a, d, r)
           second == Len(a) + Len(d) + 2
<1>1. /\ Len(a) \in Nat /\ Len(d) \in Nat /\ Len(r) \in Nat
      /\ Len(x) \in Nat /\ Len(y) \in Nat /\ Len(z) \in Nat
  OBVIOUS
<1>2. Words(t, a, d, r) /\ Words(t, x, y, z)
  <2>1. Words(Fields(a, d, r), a, d, r) /\ Words(Fields(x, y, z), x, y, z)
    BY FieldWords
  <2> QED
    BY <2>1
<1> HIDE DEF t
<1>3. /\ Len(t) = Len(a) + Len(d) + Len(r) + 2
      /\ \A i \in 1 .. Len(a) : t[i] = a[i]
      /\ \A i \in 1 .. Len(d) : t[Len(a) + 1 + i] = d[i]
      /\ \A i \in 1 .. Len(r) : t[second + i] = r[i]
  BY <1>2 DEF Words
<1>4. /\ Len(t) = Len(x) + Len(y) + Len(z) + 2
      /\ \A i \in 1 .. Len(x) : t[i] = x[i]
      /\ \A i \in 1 .. Len(y) : t[Len(x) + 1 + i] = y[i]
      /\ t[Len(x) + 1] = Bar /\ t[Len(x) + Len(y) + 2] = Bar
  BY <1>2 DEF Words
<1>5. ASSUME NEW i \in Nat, i >= 1, i <= Len(t), t[i] = Bar
      PROVE  i = Len(a) + 1 \/ i = second
  <2>1. ASSUME i <= Len(a) PROVE FALSE
    <3>1. i \in 1 .. Len(a)
      BY <1>1, <1>5, <2>1
    <3>2. t[i] = a[i] /\ a[i] # Bar
      BY <1>3, <3>1 DEF NoBar
    <3> QED
      BY <1>5, <3>2
  <2>2. ASSUME i > Len(a) + 1, i < second PROVE FALSE
    <3> DEFINE k == i - (Len(a) + 1)
    <3>1. k \in 1 .. Len(d) /\ Len(a) + 1 + k = i
      BY <1>1, <1>5, <2>2
    <3> HIDE DEF k
    <3>2. t[i] = d[k]
      BY <1>3, <3>1
    <3> QED
      BY <1>5, <3>1, <3>2 DEF NoBar
  <2>3. ASSUME i > second PROVE FALSE
    <3> DEFINE k == i - second
    <3>1. k \in 1 .. Len(r) /\ second + k = i
      BY <1>1, <1>3, <1>5, <2>3
    <3> HIDE DEF k, second
    <3>2. t[i] = r[k]
      BY <1>3, <3>1
    <3> QED
      BY <1>5, <3>1, <3>2 DEF NoBar
  <2>4. i > Len(a)
    BY <1>1, <2>1
  <2>5. i <= Len(a) + 1 \/ i >= second
    BY <1>1, <2>2
  <2>6. i <= second
    BY <1>1, <2>3
  <2>7. \A m \in Nat, n \in Nat : i > m /\ (i <= m + 1 \/ i >= n) /\ i <= n => i = m + 1 \/ i = n
    OBVIOUS
  <2>8. second \in Nat
    BY <1>1
  <2> QED
    BY <1>1, <2>4, <2>5, <2>6, <2>7, <2>8
<1>6. Len(x) = Len(a) /\ Len(y) = Len(d)
  <2>1. Len(x) = Len(a) \/ Len(x) + 1 = second
    BY <1>1, <1>4, <1>5
  <2>2. Len(x) + Len(y) + 2 = Len(a) + 1 \/ Len(x) + Len(y) + 2 = second
    BY <1>1, <1>4, <1>5
  <2>3. \A k, l, m, n \in Nat : k + 1 = m + n + 2 => k + l + 2 > m + n + 2
    OBVIOUS
  <2>4. Len(x) + 1 # second
    BY <1>1, <2>2, <2>3
  <2>5. Len(x) = Len(a)
    BY <2>1, <2>4
  <2>6. \A l, m, n \in Nat : m + l + 2 # m + 1 /\ (m + l + 2 = m + n + 2 => l = n)
    OBVIOUS
  <2> QED
    BY <1>1, <2>2, <2>5, <2>6
<1>7. /\ \A i \in 1 .. Len(a) : a[i] = x[i]
      /\ \A i \in 1 .. Len(d) : d[i] = y[i]
  BY <1>3, <1>4, <1>6
<1> QED
  BY <1>6, <1>7, SeqEqual

\* A bill whose code and items contain no "|" shares its text with none of another
\* code or total.
LEMMA SignedTextBinds ==
  ASSUME NEW signed, NEW bill, IsBill(signed), IsBill(bill), Unambiguous(signed),
         CanonicalCart(signed) = CanonicalCart(bill)
  PROVE  bill.code = signed.code /\ Total(bill.items) = Total(signed.items)
<1> DEFINE a == signed.code
           d == Decimal(Total(signed.items))
           r == ItemsText(signed.items)
           x == bill.code
           y == Decimal(Total(bill.items))
           z == ItemsText(bill.items)
<1>1. /\ a \in Seq(Int) /\ d \in Seq(Int) /\ r \in Seq(Int)
      /\ x \in Seq(Int) /\ y \in Seq(Int) /\ z \in Seq(Int)
      /\ Total(signed.items) \in Int /\ Total(bill.items) \in Int
  BY DecimalWords DEF IsBill
<1>2. Fields(a, d, r) = Fields(x, y, z)
  BY DEF CanonicalCart, Fields
<1>3. NoBar(d)
  BY <1>1, DecimalWords DEF NoBar
<1>4. NoBar(a) /\ NoBar(r)
  <2>1. Bar \notin ToSet(a) /\ Bar \notin ToSet(r)
    BY DEF Unambiguous
  <2> QED
    BY <2>1 DEF ToSet, NoBar
<1>5. a = x /\ d = y
  <2> HIDE DEF a, d, r, x, y, z
  <2> QED
    BY <1>1, <1>2, <1>3, <1>4, OneReading
<1> QED
  BY <1>1, <1>5, DecimalWords

\* canonicalCart: a signature over a bill without a "|" in its code or skus authorizes
\* its code and its amount only, for every payment a phone can send.
THEOREM DebitIsSigned == AccessSpec => []DebitsWhatWasSigned
<1>1. AccessInv => DebitsWhatWasSigned
  <2> SUFFICES ASSUME AccessInv PROVE DebitsWhatWasSigned
    OBVIOUS
  <2>1. ASSUME NEW h \in Handler, at[h] = "settle"
        PROVE  /\ job[h].signer = job[h].key
               /\ Unambiguous(job[h].signed) =>
                    /\ job[h].bill.code = job[h].signed.code
                    /\ Total(job[h].bill.items) = Total(job[h].signed.items)
    <3>1. job[h] \in Payment /\ job[h].kind = "pay" /\ Verifies(job[h])
      BY <2>1 DEF AccessInv, AccessTypeOK
    <3>2. /\ job[h].signer = job[h].key
          /\ CanonicalCart(job[h].signed) = CanonicalCart(job[h].bill)
      BY <3>1 DEF Verifies
    <3>3. IsBill(job[h].signed) /\ IsBill(job[h].bill)
      BY <3>1, AccessAssumption
    <3> QED
      BY <3>2, <3>3, SignedTextBinds
  <2>2. ASSUME NEW h \in Handler, at[h] = "session"
        PROVE  job[h].signer = job[h].key /\ job[h].signed = "this nonce"
    BY <2>2 DEF AccessInv, Verifies
  <2> QED
    BY <2>1, <2>2 DEF DebitsWhatWasSigned
<1> QED
  BY <1>1, AccessInvariant, PTL
=============================================================================
