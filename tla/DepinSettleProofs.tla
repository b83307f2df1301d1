--------------------------- MODULE DepinSettleProofs ---------------------------
(***************************************************************************)
(* For any number of nodes, owners and overlapping settlers: no unit a     *)
(* node replicated is paid twice or lost, and the totals agree with the    *)
(* wallet.                                                                 *)
(***************************************************************************)
EXTENDS DepinSettle, LedgerClusterProofs, Sums

(***************************************************************************)
(* The inductive invariant.  What a settler still has to clear is covered  *)
(* by what is pending, because nobody else settles that node; a node that  *)
(* does not exist yet has no account in any of the books.                  *)
(***************************************************************************)
Idle == \A s \in Settler : stage[s] = "idle" => DOMAIN meters[s] = {} /\ sum[s] = 0
ReadOnce ==
  \A s, t \in Settler, id \in Id :
    s # t /\ id \in DOMAIN meters[s] /\ id \in DOMAIN meters[t] => id \in overlapped
Covered ==
  \A s \in Settler : \A id \in DOMAIN meters[s] :
    id \notin overlapped => meters[s][id].units <= Pending(id)
Unborn ==
  \A id \in Id : id >= nextID =>
    /\ paid[id] = 0 /\ unheard[id] = 0 /\ forfeited[id] = 0 /\ id \notin overlapped
    /\ \A s \in Settler : id \notin DOMAIN meters[s]

SettleInv ==
  /\ ClusterInv
  /\ SettleTypeOK
  /\ Idle /\ ReadOnce /\ Covered /\ Unborn
  /\ RewardConserved
  /\ TotalsArePaid

(***************************************************************************)
(* What a step of the cluster does to the meter of a node.                 *)
(***************************************************************************)
Metering(id) ==
  /\ metered'[id] \in Nat /\ metered'[id] >= metered[id]
  /\ id \in Live /\ id \in DOMAIN replica' =>
       replica'[id].pending = replica[id].pending + (metered'[id] - metered[id])
  /\ ~(id \in Live /\ id \in DOMAIN replica') => metered'[id] = metered[id]
  /\ id \in DOMAIN replica' /\ id \notin Live => id = nextID /\ replica'[id].pending = 0

LEMMA AppendMeters ==
  ASSUME ClusterInv, AppendPayment, NEW id \in Id
  PROVE  Metering(id)
<1>1. ClusterTypeOK /\ length \in Nat
  BY DEF ClusterInv, ClusterTypeOK
<1>2. /\ DOMAIN replica' = Live
      /\ \A x \in Live : replica'[x] = Receive(replica[x])
      /\ \A x \in Id : metered'[x] =
           IF x \in Live /\ Accepts(replica[x]) THEN metered[x] + 1 ELSE metered[x]
  BY DEF AppendPayment
<1>3. metered[id] \in Nat
  BY <1>1 DEF ClusterTypeOK
<1>4. CASE id \in Live /\ Accepts(replica[id])
  <2>1. replica[id] \in Replica /\ replica[id].pending \in Nat
    BY <1>1, <1>4, ReplicaFields DEF ClusterTypeOK
  <2>2. replica'[id].pending = replica[id].pending + 1
    BY <1>1, <1>2, <1>4, <2>1, ReceiveFields
  <2> QED
    BY <1>2, <1>3, <1>4, <2>1, <2>2 DEF Metering
<1>5. CASE id \in Live /\ ~Accepts(replica[id])
  <2>1. replica'[id] = replica[id] /\ metered'[id] = metered[id]
    BY <1>2, <1>5 DEF Receive
  <2>2. replica[id].pending \in Nat
    BY <1>1, <1>5, ReplicaFields
  <2> QED
    BY <1>2, <1>3, <1>5, <2>1, <2>2 DEF Metering
<1>6. CASE id \notin Live
  BY <1>2, <1>3, <1>6 DEF Metering
<1> QED
  BY <1>4, <1>5, <1>6

LEMMA RegisterMeters ==
  ASSUME ClusterInv, NEW r \in Replica, r.pending = 0, Register(r), metered' = metered,
         NEW id \in Id
  PROVE  Metering(id)
<1>1. ClusterTypeOK /\ metered[id] \in Nat
  BY DEF ClusterInv, ClusterTypeOK
<1>2. /\ DOMAIN replica' = Live \cup {nextID}
      /\ replica'[nextID] = r /\ \A x \in Live : replica'[x] = replica[x]
  BY RegisterNode DEF Live
<1>3. id \in Live => replica[id].pending \in Nat
  BY <1>1, ReplicaFields
<1> QED
  BY <1>1, <1>2, <1>3 DEF Metering

LEMMA AckMeters ==
  ASSUME ClusterInv, NEW x \in Id, Ack(x), NEW id \in Id
  PROVE  Metering(id)
<1> DEFINE unit == IF Meters(replica[x], Head(socket[x].acks)) THEN 1 ELSE 0
<1>1. ClusterTypeOK /\ metered \in [Id -> Nat] /\ x \in Live
  BY DEF ClusterInv, ClusterTypeOK, Ack, Remote
<1>2. unit \in Nat /\ (id \in Live => replica[id].pending \in Nat)
  BY <1>1, ReplicaFields
<1> HIDE DEF unit
<1>3. CASE UNCHANGED <<replica, metered>>
  BY <1>1, <1>2, <1>3 DEF Metering, Live
<1>4. CASE /\ replica' = [replica EXCEPT ![x].acked = @ + 1,
                                         ![x].pending = @ + unit,
                                         ![x].lifetime = @ + unit]
           /\ metered' = [metered EXCEPT ![x] = @ + unit]
  <2>1. DOMAIN replica' = Live
    BY <1>4 DEF Live
  <2>2. CASE id = x
    <3>1. replica'[id] = [replica[id] EXCEPT !.acked = @ + 1, !.pending = @ + unit,
                                             !.lifetime = @ + unit]
      BY <1>1, <1>4, <2>2 DEF Live
    <3>2. replica[id] \in Replica
      BY <1>1, <2>2 DEF ClusterTypeOK
    <3>3. replica'[id].pending = replica[id].pending + unit
      BY <3>1, <3>2 DEF Replica
    <3>4. metered'[id] = metered[id] + unit
      BY <1>1, <1>4, <2>2
    <3>5. metered[id] \in Nat
      BY <1>1
    <3> QED
      BY <1>1, <1>2, <2>1, <2>2, <3>3, <3>4, <3>5 DEF Metering
  <2>3. CASE id # x
    <3>1. metered'[id] = metered[id] /\ metered[id] \in Nat
      BY <1>1, <1>4, <2>3
    <3>2. id \in Live => replica'[id] = replica[id]
      BY <1>4, <2>3 DEF Live
    <3> QED
      BY <1>2, <2>1, <3>1, <3>2 DEF Metering
  <2> QED
    BY <2>2, <2>3
<1> QED
  BY <1>3, <1>4 DEF Ack, unit

LEMMA ClusterMeters ==
  ASSUME ClusterInv, ClusterStep, NEW id \in Id
  PROVE  Metering(id)
<1>1. ClusterTypeOK /\ metered[id] \in Nat /\ length \in Nat
  BY DEF ClusterInv, ClusterTypeOK
<1>2. id \in Live => replica[id].pending \in Nat
  BY <1>1, ReplicaFields
<1>3. CASE AppendPayment
  BY <1>3, AppendMeters
<1>4. ASSUME NEW o \in Owner \cup {NoOwner}, AddReplica(o) PROVE Metering(id)
  <2> DEFINE r == [owner |-> o, remote |-> FALSE, copy |-> length, baseline |-> 0,
                   acked |-> 0, pending |-> 0, lifetime |-> length]
  <2>1. r \in Replica /\ r.pending = 0
    BY <1>1 DEF Replica
  <2>2. Register(r) /\ metered' = metered
    BY <1>4 DEF AddReplica, BackFilled
  <2> HIDE DEF r
  <2> QED
    BY <2>1, <2>2, RegisterMeters
<1>5. ASSUME NEW o \in Owner, NEW mode \in Reconnect, Connect(o, mode) PROVE Metering(id)
  <2> DEFINE r == [owner |-> o, remote |-> TRUE, copy |-> 0, baseline |-> length,
                   acked |-> 0, pending |-> 0, lifetime |-> length]
  <2>1. r \in Replica /\ r.pending = 0
    BY <1>1 DEF Replica
  <2>2. Register(r) /\ metered' = metered
    BY <1>5 DEF Connect
  <2> HIDE DEF r
  <2> QED
    BY <2>1, <2>2, RegisterMeters
<1>6. ASSUME NEW o \in Owner, Deliver(o) \/ Disconnect(o) PROVE Metering(id)
  <2>1. UNCHANGED <<replica, metered>>
    BY <1>6 DEF Deliver, Disconnect
  <2> QED
    BY <1>1, <1>2, <2>1 DEF Metering, Live
<1>7. ASSUME NEW o \in Owner, NEW seq \in 0 .. MaxLength, Claim(o, seq) PROVE Metering(id)
  <2>1. UNCHANGED <<replica, metered>>
    BY <1>7 DEF Claim
  <2> QED
    BY <1>1, <1>2, <2>1 DEF Metering, Live
<1>8. ASSUME NEW x \in Id, Ack(x) PROVE Metering(id)
  BY <1>8, AckMeters
<1>9. ASSUME NEW x \in Id, KillReplica(x) PROVE Metering(id)
  <2>1. /\ DOMAIN replica' = Live \ {x} /\ \A y \in Live \ {x} : replica'[y] = replica[y]
        /\ metered' = metered
    BY <1>9 DEF KillReplica
  <2> QED
    BY <1>1, <1>2, <2>1 DEF Metering
<1> QED
  BY <1>3, <1>4, <1>5, <1>6, <1>7, <1>8, <1>9 DEF ClusterStep

LEMMA NextIDGrows ==
  ASSUME ClusterInv, ClusterStep
  PROVE  nextID' \in Nat /\ nextID' >= nextID
<1>1. nextID \in Nat
  BY DEF ClusterInv, ClusterTypeOK
<1>2. \A r : Register(r) => nextID' = nextID + 1
  BY DEF Register
<1>3. nextID' \in {nextID, nextID + 1}
  BY <1>2 DEF ClusterStep, AppendPayment, AddReplica, Connect, Deliver, Claim, Disconnect,
    Ack, KillReplica
<1> QED
  BY <1>1, <1>3

\* Clearing a meter leaves the rest of the cluster as it is.
LEMMA ClearPendingStep ==
  ASSUME ClusterInv, NEW id \in Id, NEW units \in Nat, ClearPending(id, units)
  PROVE  /\ ClusterInv' /\ DOMAIN replica' = Live
         /\ \A x \in Live \ {id} : replica'[x] = replica[x]
         /\ id \in Live => replica'[id].pending = Less(replica[id].pending, units)
<1>1. ClusterTypeOK
  BY DEF ClusterInv
<1>2. /\ replica' = [x \in Live |->
           IF x = id
           THEN [replica[x] EXCEPT !.pending = IF units > @ THEN 0 ELSE @ - units]
           ELSE replica[x]]
      /\ UNCHANGED <<length, nextID, socket, phone, link, dropped, claimed, metered>>
  BY DEF ClearPending
<1>3. Live' = Live /\ \A x \in Live \ {id} : replica'[x] = replica[x]
  BY <1>2 DEF Live
<1>4. ASSUME id \in Live
      PROVE  /\ replica'[id] \in Replica
             /\ replica'[id].pending = Less(replica[id].pending, units)
             /\ replica'[id].owner = replica[id].owner
             /\ replica'[id].remote = replica[id].remote
             /\ replica'[id].copy = replica[id].copy
             /\ replica'[id].baseline = replica[id].baseline
             /\ replica'[id].acked = replica[id].acked
  <2>1. replica[id] \in Replica /\ replica[id].pending \in Nat
    BY <1>1, <1>4, ReplicaFields DEF ClusterTypeOK
  <2> DEFINE n == Less(replica[id].pending, units)
  <2>2. n \in Nat
    BY <2>1 DEF Less
  <2>3. replica'[id] = [replica[id] EXCEPT !.pending = n]
    BY <1>2, <1>4 DEF Less
  <2> HIDE DEF n
  <2>4. /\ replica'[id] \in Replica /\ replica'[id].pending = n
        /\ replica'[id].owner = replica[id].owner
        /\ replica'[id].remote = replica[id].remote
        /\ replica'[id].copy = replica[id].copy
        /\ replica'[id].baseline = replica[id].baseline
        /\ replica'[id].acked = replica[id].acked
    BY <2>1, <2>2, <2>3 DEF Replica
  <2> QED
    BY <2>4 DEF n
<1>5. ASSUME NEW x \in Live
      PROVE  /\ replica'[x] \in Replica /\ replica'[x].owner = replica[x].owner
             /\ replica'[x].remote = replica[x].remote /\ replica'[x].copy = replica[x].copy
             /\ replica'[x].baseline = replica[x].baseline
             /\ replica'[x].acked = replica[x].acked
  <2>1. CASE x = id
    BY <1>4, <2>1
  <2>2. CASE x # id
    <3>1. replica[x] \in Replica /\ replica'[x] = replica[x]
      BY <1>1, <1>3, <2>2 DEF ClusterTypeOK
    <3> QED
      BY <3>1
  <2> QED
    BY <2>1, <2>2
<1>6. Remote' = Remote
  BY <1>3, <1>5 DEF Remote
<1>7. ClusterTypeOK'
  BY <1>1, <1>2, <1>3, <1>5, <1>6 DEF ClusterTypeOK
<1>8. LocalCopiesAgree'
  BY <1>2, <1>3, <1>5 DEF ClusterInv, LocalCopiesAgree
<1>9. ASSUME NEW x \in Remote PROVE MeterOK(x)' /\ ChannelOK(x)'
  <2>1. x \in Live /\ MeterOK(x) /\ ChannelOK(x)
    BY DEF ClusterInv, Remote
  <2> QED
    BY <1>2, <1>5, <2>1 DEF MeterOK, ChannelOK
<1>10. ASSUME NEW o \in Owner, NEW x \in Id, link'[o] = x PROVE LinkOK(o, x)'
  <2>1. LinkOK(o, x) /\ x \in Remote /\ x \in Live
    BY <1>2, <1>10 DEF ClusterInv, LinkOK, Remote
  <2>2. Cursor(x)' = Cursor(x)
    BY <1>2, <1>5, <2>1 DEF Cursor
  <2> QED
    BY <1>2, <1>5, <1>6, <2>1, <2>2 DEF LinkOK
<1>11. ClusterInv'
  BY <1>2, <1>6, <1>7, <1>8, <1>9, <1>10 DEF ClusterInv
<1> QED
  BY <1>3, <1>4, <1>11 DEF Live

(***************************************************************************)
(* The books.                                                              *)
(***************************************************************************)
Held(id) == SumFunction([s \in Settler |-> Uncleared(s, id)])
HeldTotal == SumFunction([s \in Settler |-> UnclearedBy(s)])

LEMMA FiniteIds == IsFiniteSet(Id) /\ IsFiniteSet(Settler)
<1>1. 0 \in Int /\ MaxNodes - 1 \in Int
  BY ClusterAssumption
<1> QED
  BY <1>1, FS_Interval, SettleAssumption DEF Id

LEMMA MeterFields ==
  ASSUME SettleTypeOK, NEW s \in Settler, NEW id \in DOMAIN meters[s]
  PROVE  /\ id \in Id /\ id \in Nat /\ meters[s][id].owner \in Owner
         /\ meters[s][id].units \in Nat /\ meters[s][id].units > 0
BY DEF SettleTypeOK, Id

LEMMA UnclearedNat ==
  ASSUME SettleTypeOK, NEW s \in Settler, NEW id
  PROVE  Uncleared(s, id) \in Nat
BY MeterFields DEF Uncleared, Turn

LEMMA UnclearedNatNext ==
  ASSUME SettleTypeOK', NEW s \in Settler, NEW id
  PROVE  Uncleared(s, id)' \in Nat
BY DEF SettleTypeOK, Id, Uncleared, Turn

LEMMA OneTurn ==
  ASSUME SettleTypeOK, NEW s \in Settler, NEW id \in Turn(s), NEW x \in Turn(s)
  PROVE  x = id
BY MeterFields DEF Turn

LEMMA OtherSettler ==
  ASSUME NEW s, NEW id, stage'[s] = stage[s], meters'[s] = meters[s]
  PROVE  Uncleared(s, id)' = Uncleared(s, id)
BY DEF Uncleared, Turn

LEMMA UnclearedByInt ==
  /\ SettleTypeOK => \A s \in Settler : UnclearedBy(s) \in Int
  /\ SettleTypeOK' => \A s \in Settler : UnclearedBy(s)' \in Int
<1>1. ASSUME SettleTypeOK, NEW s \in Settler PROVE UnclearedBy(s) \in Int
  <2> DEFINE f == [id \in Id |-> Uncleared(s, id)]
  <2>1. \A id \in Id : f[id] \in Int
    BY <1>1, UnclearedNat
  <2> HIDE DEF f
  <2>2. SumFunctionOnSet(f, Id) \in Int
    BY <2>1, FiniteIds, SumType DEF Integers
  <2> QED
    BY <2>2 DEF f, UnclearedBy, SumFunction
<1>2. ASSUME SettleTypeOK', NEW s \in Settler PROVE UnclearedBy(s)' \in Int
  <2> DEFINE f == [id \in Id |-> Uncleared(s, id)']
  <2>1. \A id \in Id : f[id] \in Int
    BY <1>2, UnclearedNatNext
  <2> HIDE DEF f
  <2>2. SumFunctionOnSet(f, Id) \in Int
    BY <2>1, FiniteIds, SumType DEF Integers
  <2> QED
    BY <2>2 DEF f, UnclearedBy, SumFunction
<1> QED
  BY <1>1, <1>2

LEMMA HeldSame ==
  ASSUME NEW id, \A s \in Settler : Uncleared(s, id)' = Uncleared(s, id)
  PROVE  Held(id)' = Held(id)
BY DEF Held

LEMMA HeldChange ==
  ASSUME SettleTypeOK, SettleTypeOK', NEW s \in Settler, NEW id,
         \A t \in Settler \ {s} : Uncleared(t, id)' = Uncleared(t, id)
  PROVE  Held(id)' = Held(id) + (Uncleared(s, id)' - Uncleared(s, id)) /\ Held(id) \in Int
<1> DEFINE f == [t \in Settler |-> Uncleared(t, id)]
           e == [t \in Settler |-> Uncleared(t, id)']
<1>1. \A t \in Settler : f[t] = Uncleared(t, id) /\ e[t] = Uncleared(t, id)'
  OBVIOUS
<1>2. Held(id) = SumFunctionOnSet(f, Settler) /\ Held(id)' = SumFunctionOnSet(e, Settler)
  BY DEF Held, SumFunction
<1> HIDE DEF f, e
<1>3. Integers(f, Settler) /\ e[s] \in Int
  BY <1>1, FiniteIds, UnclearedNat, UnclearedNatNext DEF Integers
<1>4. SumFunctionOnSet(e, Settler) = SumFunctionOnSet(f, Settler) + (e[s] - f[s])
  <2>1. Agree(f, e, Settler \ {s})
    BY <1>1 DEF Agree
  <2> QED
    BY <1>3, <2>1, SumChange
<1>5. SumFunctionOnSet(f, Settler) \in Int
  BY <1>3, SumType
<1> QED
  BY <1>1, <1>2, <1>4, <1>5

LEMMA HeldTotalSame ==
  ASSUME \A s \in Settler, id \in Id : Uncleared(s, id)' = Uncleared(s, id)
  PROVE  HeldTotal' = HeldTotal
<1>1. \A s \in Settler : UnclearedBy(s)' = UnclearedBy(s)
  BY DEF UnclearedBy
<1> QED
  BY <1>1 DEF HeldTotal

LEMMA HeldTotalChange ==
  ASSUME SettleTypeOK, SettleTypeOK', NEW s \in Settler, NEW id \in Id,
         \A t \in Settler, x \in Id :
           t # s \/ x # id => Uncleared(t, x)' = Uncleared(t, x)
  PROVE  /\ HeldTotal' = HeldTotal + (Uncleared(s, id)' - Uncleared(s, id))
         /\ HeldTotal \in Int
<1>1. UnclearedBy(s)' = UnclearedBy(s) + (Uncleared(s, id)' - Uncleared(s, id))
  <2> DEFINE f == [x \in Id |-> Uncleared(s, x)]
             e == [x \in Id |-> Uncleared(s, x)']
  <2>1. \A x \in Id : f[x] = Uncleared(s, x) /\ e[x] = Uncleared(s, x)'
    OBVIOUS
  <2>2. UnclearedBy(s) = SumFunctionOnSet(f, Id) /\ UnclearedBy(s)' = SumFunctionOnSet(e, Id)
    BY DEF UnclearedBy, SumFunction
  <2> HIDE DEF f, e
  <2>3. Integers(f, Id) /\ e[id] \in Int
    BY <2>1, FiniteIds, UnclearedNat, UnclearedNatNext DEF Integers
  <2>4. SumFunctionOnSet(e, Id) = SumFunctionOnSet(f, Id) + (e[id] - f[id])
    <3>1. Agree(f, e, Id \ {id})
      BY <2>1 DEF Agree
    <3> QED
      BY <2>3, <3>1, SumChange
  <2> QED
    BY <2>1, <2>2, <2>4
<1>2. \A t \in Settler \ {s} : UnclearedBy(t)' = UnclearedBy(t)
  BY DEF UnclearedBy
<1> DEFINE f == [t \in Settler |-> UnclearedBy(t)]
           e == [t \in Settler |-> UnclearedBy(t)']
<1>3. \A t \in Settler : f[t] = UnclearedBy(t) /\ e[t] = UnclearedBy(t)'
  OBVIOUS
<1>4. HeldTotal = SumFunctionOnSet(f, Settler) /\ HeldTotal' = SumFunctionOnSet(e, Settler)
  BY DEF HeldTotal, SumFunction
<1> HIDE DEF f, e
<1>5. Integers(f, Settler) /\ e[s] \in Int
  BY <1>3, FiniteIds, UnclearedByInt DEF Integers
<1>6. SumFunctionOnSet(e, Settler) = SumFunctionOnSet(f, Settler) + (e[s] - f[s])
  <2>1. Agree(f, e, Settler \ {s})
    BY <1>2, <1>3 DEF Agree
  <2> QED
    BY <1>5, <2>1, SumChange
<1>7. SumFunctionOnSet(f, Settler) \in Int /\ UnclearedBy(s) \in Int
  BY <1>5, SumType, UnclearedByInt
<1>8. Uncleared(s, id) \in Int /\ Uncleared(s, id)' \in Int
  BY UnclearedNat, UnclearedNatNext
<1> QED
  BY <1>1, <1>3, <1>4, <1>6, <1>7, <1>8

\* RewardConserved for one node, and TotalsArePaid, over the books above.
Conserved(id) ==
  /\ id \notin overlapped =>
       paid[id] + Pending(id) = metered[id] + unheard[id] + Held(id)
  /\ id \in Live => paid[id] + Pending(id) >= metered[id] + unheard[id] + Held(id)
Totalled ==
  SumFunctionOnSet(paid, Id) =
    total + SumFunctionOnSet(unheard, Id) + SumFunctionOnSet(sum, Settler) + HeldTotal

LEMMA ConservedIsReward == RewardConserved <=> \A id \in Id : Conserved(id)
BY DEF RewardConserved, Conserved, Settled, Earned, Held

LEMMA TotalledIsPaid == SettleTypeOK => (TotalsArePaid <=> Totalled)
<1> SUFFICES ASSUME SettleTypeOK PROVE TotalsArePaid <=> Totalled
  OBVIOUS
<1>1. DOMAIN paid = Id /\ DOMAIN unheard = Id /\ DOMAIN sum = Settler
  BY DEF SettleTypeOK
<1> QED
  BY <1>1 DEF TotalsArePaid, Totalled, Unheard, HeldTotal, SumFunction

LEMMA PendingNat ==
  ASSUME SettleTypeOK, NEW id \in Id
  PROVE  Pending(id) \in Nat
<1>1. ClusterTypeOK /\ forfeited[id] \in Nat
  BY DEF SettleTypeOK
<1> QED
  BY <1>1, ReplicaFields DEF Pending

LEMMA BookFields ==
  ASSUME SettleTypeOK, NEW id \in Id
  PROVE  /\ paid[id] \in Nat /\ Pending(id) \in Nat /\ metered[id] \in Nat
         /\ unheard[id] \in Nat /\ Held(id) \in Nat
<1>1. paid[id] \in Nat /\ metered[id] \in Nat /\ unheard[id] \in Nat
  BY DEF SettleTypeOK, ClusterTypeOK
<1> DEFINE f == [t \in Settler |-> Uncleared(t, id)]
<1>2. \A t \in Settler : f[t] \in Nat
  BY UnclearedNat
<1>3. Held(id) = SumFunctionOnSet(f, Settler)
  BY DEF Held, SumFunction
<1> HIDE DEF f
<1>4. Held(id) \in Nat
  BY <1>2, <1>3, FiniteIds, SumNat
<1> QED
  BY <1>1, <1>4, PendingNat

\* No settler has credited a node it has not read.
LEMMA HeldZero ==
  ASSUME NEW id, \A s \in Settler : id \notin DOMAIN meters[s]
  PROVE  Held(id) = 0
<1> DEFINE f == [t \in Settler |-> Uncleared(t, id)]
<1>1. \A t \in Settler : f[t] = 0
  BY DEF Uncleared, Turn
<1>2. Held(id) = SumFunctionOnSet(f, Settler)
  BY DEF Held, SumFunction
<1> HIDE DEF f
<1> QED
  BY <1>1, <1>2, FiniteIds, SumZero

(***************************************************************************)
(* The steps.                                                              *)
(***************************************************************************)
LEMMA InitSettle == SettleInit => SettleInv
<1> SUFFICES ASSUME SettleInit PROVE SettleInv
  OBVIOUS
<1>1. ClusterInv /\ ClusterTypeOK
  BY InitCluster DEF SettleInit, ClusterInv
<1>2. SettleTypeOK
  BY <1>1 DEF SettleInit, SettleTypeOK, NoMeters
<1>3. \A s \in Settler : DOMAIN meters[s] = {} /\ sum[s] = 0 /\ stage[s] = "idle"
  BY DEF SettleInit, NoMeters
<1>4. Idle /\ ReadOnce /\ Covered
  BY <1>3 DEF Idle, ReadOnce, Covered
<1>5. \A id \in Id : /\ paid[id] = 0 /\ unheard[id] = 0 /\ forfeited[id] = 0
                     /\ metered[id] = 0
  BY DEF SettleInit, Init
<1>6. Live = {} /\ overlapped = {} /\ total = 0
  BY DEF SettleInit, Init, Live
<1>7. Unborn
  BY <1>3, <1>5, <1>6 DEF Unborn
<1>8. \A id \in Id : Pending(id) = 0 /\ Held(id) = 0
  BY <1>3, <1>5, <1>6, HeldZero DEF Pending
<1>9. RewardConserved
  BY <1>5, <1>6, <1>8, ConservedIsReward DEF Conserved
<1>10. SumFunctionOnSet(paid, Id) = 0 /\ SumFunctionOnSet(unheard, Id) = 0
       /\ SumFunctionOnSet(sum, Settler) = 0
  BY <1>3, <1>5, FiniteIds, SumZero
<1>11. HeldTotal = 0
  <2>1. ASSUME NEW s \in Settler PROVE UnclearedBy(s) = 0
    <3> DEFINE f == [id \in Id |-> Uncleared(s, id)]
    <3>1. \A id \in Id : f[id] = 0
      BY <1>3 DEF Uncleared
    <3>2. UnclearedBy(s) = SumFunctionOnSet(f, Id)
      BY DEF UnclearedBy, SumFunction
    <3> HIDE DEF f
    <3> QED
      BY <3>1, <3>2, FiniteIds, SumZero
  <2> DEFINE f == [s \in Settler |-> UnclearedBy(s)]
  <2>2. \A s \in Settler : f[s] = 0
    BY <2>1
  <2>3. HeldTotal = SumFunctionOnSet(f, Settler)
    BY DEF HeldTotal, SumFunction
  <2> HIDE DEF f
  <2> QED
    BY <2>2, <2>3, FiniteIds, SumZero
<1>12. TotalsArePaid
  BY <1>2, <1>6, <1>10, <1>11, TotalledIsPaid DEF Totalled
<1> QED
  BY <1>1, <1>2, <1>4, <1>7, <1>9, <1>12 DEF SettleInv

\* Entries, acks and departures reach the meter and the ghost books alike.
LEMMA ClusterSettles ==
  ASSUME SettleInv, ClusterStep, Forfeit, UNCHANGED <<settling, unheard, overlapped>>
  PROVE  SettleInv'
<1>1. /\ ClusterInv /\ SettleTypeOK /\ ClusterTypeOK
      /\ Idle /\ ReadOnce /\ Covered /\ Unborn
  BY DEF SettleInv, SettleTypeOK
<1>2. UNCHANGED <<opened, paid, stage, meters, sum, total, unheard, overlapped>>
  BY DEF settling
<1>3. ClusterInv' /\ ClusterTypeOK'
  BY <1>1, ClusterStepOK DEF ClusterInv
<1>4. \A id \in Id : Metering(id)
  BY <1>1, ClusterMeters
<1>5. nextID \in Nat /\ nextID' \in Nat /\ nextID' >= nextID
  BY <1>1, NextIDGrows DEF ClusterTypeOK
<1>6. forfeited' = [id \in Id |->
        IF id \in Live \ DOMAIN replica' THEN replica[id].pending ELSE forfeited[id]]
  BY DEF Forfeit
<1>7. SettleTypeOK'
  <2>1. forfeited' \in [Id -> Nat]
    BY <1>1, <1>6, ReplicaFields DEF SettleTypeOK
  <2> QED
    BY <1>1, <1>2, <1>3, <2>1 DEF SettleTypeOK
<1>8. ASSUME NEW id \in Id
      PROVE  Pending(id)' = Pending(id) + (metered'[id] - metered[id])
  <2>1. metered[id] \in Nat /\ metered'[id] \in Nat /\ Pending(id) \in Nat
    BY <1>1, <1>4, BookFields DEF Metering
  <2>2. CASE id \in Live /\ id \in DOMAIN replica'
    BY <1>4, <2>2 DEF Pending, Live, Metering
  <2>3. CASE id \in Live /\ id \notin DOMAIN replica'
    BY <1>4, <1>6, <2>1, <2>3 DEF Pending, Live, Metering
  <2>4. CASE id \notin Live /\ id \notin DOMAIN replica'
    BY <1>4, <1>6, <2>1, <2>4 DEF Pending, Live, Metering
  <2>5. CASE id \notin Live /\ id \in DOMAIN replica'
    <3>1. id = nextID /\ replica'[id].pending = 0 /\ metered'[id] = metered[id]
      BY <1>4, <2>5 DEF Metering
    <3>2. forfeited[id] = 0
      BY <1>1, <1>5, <3>1 DEF Unborn
    <3> QED
      BY <2>1, <2>5, <3>1, <3>2 DEF Pending, Live
  <2> QED
    BY <2>2, <2>3, <2>4, <2>5
<1>9. Idle' /\ ReadOnce'
  BY <1>1, <1>2 DEF Idle, ReadOnce
<1>10. Covered'
  <2> SUFFICES ASSUME NEW s \in Settler, NEW id \in DOMAIN meters[s], id \notin overlapped
               PROVE  meters[s][id].units <= Pending(id)'
    BY <1>2 DEF Covered
  <2>1. id \in Id /\ meters[s][id].units \in Nat /\ meters[s][id].units <= Pending(id)
    BY <1>1, MeterFields DEF Covered
  <2>2. Pending(id) \in Nat /\ metered[id] \in Nat
    BY <1>1, <2>1, BookFields
  <2> QED
    BY <1>4, <1>8, <2>1, <2>2 DEF Metering
<1>11. Unborn'
  <2> SUFFICES ASSUME NEW id \in Id, id >= nextID' PROVE forfeited'[id] = 0 /\ id >= nextID
    BY <1>1, <1>2 DEF Unborn
  <2>1. id >= nextID
    BY <1>5 DEF Id
  <2>2. id \notin Live
    BY <1>1, <2>1, ReplicaFields, <1>5 DEF Id
  <2> QED
    BY <1>1, <1>6, <2>1, <2>2 DEF Unborn
<1>12. ASSUME NEW id \in Id PROVE Conserved(id)'
  <2>1. Conserved(id)
    BY ConservedIsReward DEF SettleInv
  <2>2. Held(id)' = Held(id)
    BY <1>2, OtherSettler, HeldSame
  <2>3. /\ paid[id] \in Nat /\ Pending(id) \in Nat /\ metered[id] \in Nat
        /\ unheard[id] \in Nat /\ Held(id) \in Nat /\ metered'[id] \in Nat
    BY <1>1, <1>4, BookFields DEF Metering
  <2>4. CASE id \in Live \/ id \notin DOMAIN replica'
    BY <1>2, <1>8, <2>1, <2>2, <2>3, <2>4 DEF Conserved, Live
  <2>5. CASE id \notin Live /\ id \in DOMAIN replica'
    <3>1. id = nextID
      BY <1>4, <2>5 DEF Metering
    <3>2. id \notin overlapped
      BY <1>1, <1>5, <3>1 DEF Unborn
    <3> QED
      BY <1>2, <1>8, <2>1, <2>2, <2>3, <3>2 DEF Conserved
  <2> QED
    BY <2>4, <2>5
<1>13. TotalsArePaid'
  BY <1>2 DEF SettleInv, TotalsArePaid, Unheard, UnclearedBy, Uncleared, Turn
<1>14. RewardConserved'
  BY <1>12 DEF RewardConserved, Conserved, Settled, Earned, Held
<1> QED
  BY <1>3, <1>7, <1>9, <1>10, <1>11, <1>13, <1>14 DEF SettleInv

LEMMA SettleInvNext ==
  ASSUME ClusterInv', SettleTypeOK', Idle', ReadOnce', Covered', Unborn',
         \A id \in Id : Conserved(id)', Totalled'
  PROVE  SettleInv'
<1>1. RewardConserved'
  BY DEF RewardConserved, Conserved, Settled, Earned, Held
<1>2. DOMAIN paid' = Id /\ DOMAIN unheard' = Id /\ DOMAIN sum' = Settler
  BY DEF SettleTypeOK
<1>3. TotalsArePaid'
  BY <1>2 DEF TotalsArePaid, Totalled, Unheard, HeldTotal, SumFunction
<1> QED
  BY <1>1, <1>3 DEF SettleInv

LEMMA HeldTotalInt == SettleTypeOK => HeldTotal \in Int
<1> SUFFICES ASSUME SettleTypeOK PROVE HeldTotal \in Int
  OBVIOUS
<1> DEFINE f == [s \in Settler |-> UnclearedBy(s)]
<1>1. \A s \in Settler : f[s] \in Int
  BY UnclearedByInt
<1>2. HeldTotal = SumFunctionOnSet(f, Settler)
  BY DEF HeldTotal, SumFunction
<1> HIDE DEF f
<1> QED
  BY <1>1, <1>2, FiniteIds, SumType DEF Integers

\* A step that leaves the cluster alone leaves its invariant alone.
LEMMA ClusterKept ==
  ASSUME SettleInv, UNCHANGED cluster
  PROVE  /\ ClusterInv' /\ ClusterTypeOK' /\ Live' = Live
         /\ UNCHANGED <<length, nextID, replica, metered>>
<1>1. ClusterInv'
  BY ClusterStepOK DEF SettleInv
<1> QED
  BY <1>1 DEF ClusterInv, cluster, Live

LEMMA InvParts ==
  ASSUME SettleInv
  PROVE  /\ ClusterInv /\ SettleTypeOK /\ ClusterTypeOK
         /\ Idle /\ ReadOnce /\ Covered /\ Unborn /\ nextID \in Nat
         /\ Totalled /\ \A id \in Id : Conserved(id)
BY ConservedIsReward, TotalledIsPaid DEF SettleInv, ClusterInv, ClusterTypeOK

\* Reading the meters: from here on s settles them alone, or the node has overlapped.
LEMMA BeginStep ==
  ASSUME SettleInv, NEW s \in Settler, BeginSettle(s)
  PROVE  SettleInv'
<1>1. /\ ClusterInv /\ SettleTypeOK /\ ClusterTypeOK
      /\ Idle /\ ReadOnce /\ Covered /\ Unborn /\ nextID \in Nat
      /\ Totalled /\ \A id \in Id : Conserved(id)
  BY InvParts
<1>2. /\ stage[s] = "idle" /\ stage' = [stage EXCEPT ![s] = "credit"]
      /\ meters' = [meters EXCEPT ![s] = Meter]
      /\ sum' = [sum EXCEPT ![s] = 0]
      /\ overlapped' = overlapped \cup
           {id \in DOMAIN Meter : \E t \in Settler : id \in DOMAIN meters[t]}
      /\ UNCHANGED <<cluster, opened, paid, total, unheard, forfeited>>
  BY DEF BeginSettle
<1>3. /\ ClusterInv' /\ ClusterTypeOK' /\ Live' = Live
      /\ UNCHANGED <<length, nextID, replica, metered>>
  BY <1>2, ClusterKept
<1>4. /\ DOMAIN meters = Settler /\ DOMAIN meters[s] = {} /\ sum[s] = 0
      /\ stage \in [Settler -> {"idle", "credit", "clear"}] /\ sum \in [Settler -> Nat]
  BY <1>1, <1>2 DEF Idle, SettleTypeOK
<1>5. sum' = sum
  BY <1>2, <1>4
<1>6. /\ meters'[s] = Meter /\ DOMAIN meters' = Settler
      /\ \A t \in Settler \ {s} : meters'[t] = meters[t] /\ stage'[t] = stage[t]
      /\ stage'[s] = "credit"
  BY <1>2, <1>4
<1>7. DOMAIN Meter \subseteq Live
  BY DEF Meter, Rewarded
<1>8. ASSUME NEW id \in DOMAIN Meter
      PROVE  /\ id \in Id /\ id < nextID /\ Meter[id].units = Pending(id)
             /\ Meter[id] \in [owner : Owner, units : Nat \ {0}]
  <2>1. id \in Live /\ replica[id].owner # NoOwner /\ replica[id].pending > 0
    BY <1>8 DEF Meter, Rewarded
  <2>2. /\ id \in Id /\ id < nextID /\ replica[id].pending \in Nat
        /\ replica[id].owner \in Owner \cup {NoOwner}
    BY <1>1, <2>1, ReplicaFields
  <2>3. Meter[id] = [owner |-> replica[id].owner, units |-> replica[id].pending]
    BY <1>8 DEF Meter
  <2> QED
    BY <2>1, <2>2, <2>3 DEF Pending
<1>9. SettleTypeOK'
  <2>1. ASSUME NEW t \in Settler, NEW id \in DOMAIN meters'[t]
        PROVE  id \in Id /\ meters'[t][id] \in [owner : Owner, units : Nat \ {0}]
    BY <1>1, <1>6, <1>8, <2>1 DEF SettleTypeOK
  <2>2. stage' \in [Settler -> {"idle", "credit", "clear"}]
    BY <1>2, <1>4
  <2>3. overlapped' \subseteq Id
    BY <1>1, <1>2, <1>8 DEF SettleTypeOK
  <2> QED
    BY <1>1, <1>2, <1>3, <1>5, <1>6, <2>1, <2>2, <2>3 DEF SettleTypeOK
<1>10. Idle'
  BY <1>1, <1>5, <1>6 DEF Idle
<1>11. ReadOnce'
  <2> SUFFICES ASSUME NEW t \in Settler, NEW u \in Settler, NEW id \in Id, t # u,
                      id \in DOMAIN meters'[t], id \in DOMAIN meters'[u]
               PROVE  id \in overlapped'
    BY DEF ReadOnce
  <2>1. CASE t # s /\ u # s
    BY <1>1, <1>2, <1>6, <2>1 DEF ReadOnce
  <2>2. CASE t = s \/ u = s
    BY <1>2, <1>6, <2>2
  <2> QED
    BY <2>1, <2>2
<1>12. \A id \in Id : Pending(id)' = Pending(id)
  BY <1>2, <1>3 DEF Pending
<1>13. Covered'
  <2> SUFFICES ASSUME NEW t \in Settler, NEW id \in DOMAIN meters'[t], id \notin overlapped'
               PROVE  meters'[t][id].units <= Pending(id)'
    BY DEF Covered
  <2>1. CASE t = s
    <3>1. id \in Id /\ meters'[t][id].units = Pending(id)
      BY <1>6, <1>8, <2>1
    <3> QED
      BY <1>1, <1>12, <3>1, PendingNat
  <2>2. CASE t # s
    <3>1. id \in DOMAIN meters[t] /\ meters'[t] = meters[t] /\ id \notin overlapped
      BY <1>2, <1>6, <2>2
    <3> QED
      BY <1>1, <1>12, <3>1, MeterFields DEF Covered
  <2> QED
    BY <2>1, <2>2
<1>14. Unborn'
  <2> SUFFICES ASSUME NEW id \in Id, id >= nextID
               PROVE  id \notin overlapped' /\ \A t \in Settler : id \notin DOMAIN meters'[t]
    BY <1>1, <1>2, <1>3 DEF Unborn
  <2>1. id \notin DOMAIN Meter
    BY <1>1, <1>8 DEF Id
  <2> QED
    BY <1>1, <1>2, <1>6, <2>1 DEF Unborn
<1>15. ASSUME NEW t \in Settler, NEW id \in Id
       PROVE  Uncleared(t, id)' = Uncleared(t, id)
  <2>1. CASE t = s
    BY <1>2, <1>6, <2>1 DEF Uncleared
  <2>2. CASE t # s
    BY <1>6, <2>2, OtherSettler
  <2> QED
    BY <2>1, <2>2
<1>16. \A id \in Id : Conserved(id)'
  <2> SUFFICES ASSUME NEW id \in Id PROVE Conserved(id)'
    OBVIOUS
  <2>1. Held(id)' = Held(id)
    BY <1>15, HeldSame
  <2> QED
    BY <1>1, <1>2, <1>3, <1>12, <2>1 DEF Conserved
<1>17. Totalled'
  <2>1. HeldTotal' = HeldTotal
    BY <1>15, HeldTotalSame
  <2> QED
    BY <1>1, <1>2, <1>5, <2>1 DEF Totalled
<1> QED
  BY <1>3, <1>9, <1>10, <1>11, <1>13, <1>14, <1>16, <1>17, SettleInvNext

LEMMA OpenAccountStep ==
  ASSUME SettleInv, NEW o \in Owner, OpenAccount(o)
  PROVE  SettleInv'
<1>1. /\ opened' = opened \cup {o}
      /\ UNCHANGED <<cluster, paid, stage, meters, sum, total, unheard, forfeited, overlapped>>
  BY DEF OpenAccount, ghosts
<1>2. /\ ClusterInv' /\ ClusterTypeOK' /\ Live' = Live
      /\ UNCHANGED <<length, nextID, replica, metered>>
  BY <1>1, ClusterKept
<1>3. SettleTypeOK'
  BY <1>1, <1>2 DEF SettleInv, SettleTypeOK
<1>4. Idle' /\ ReadOnce' /\ Covered' /\ Unborn'
  BY <1>1, <1>2 DEF SettleInv, Idle, ReadOnce, Covered, Unborn, Pending
<1>5. RewardConserved'
  BY <1>1, <1>2 DEF SettleInv, RewardConserved, Settled, Earned, Pending, Uncleared, Turn
<1>6. TotalsArePaid'
  BY <1>1 DEF SettleInv, TotalsArePaid, Unheard, UnclearedBy, Uncleared, Turn
<1> QED
  BY <1>2, <1>3, <1>4, <1>5, <1>6 DEF SettleInv

LEMMA EndStep ==
  ASSUME SettleInv, NEW s \in Settler, EndSettle(s)
  PROVE  SettleInv'
<1>1. /\ ClusterInv /\ SettleTypeOK /\ ClusterTypeOK
      /\ Idle /\ ReadOnce /\ Covered /\ Unborn /\ nextID \in Nat
      /\ Totalled /\ \A id \in Id : Conserved(id)
  BY InvParts
<1>2. /\ stage[s] = "credit" /\ DOMAIN meters[s] = {}
      /\ stage' = [stage EXCEPT ![s] = "idle"]
      /\ sum' = [sum EXCEPT ![s] = 0]
      /\ total' = total + sum[s]
      /\ UNCHANGED <<cluster, opened, paid, meters, unheard, forfeited, overlapped>>
  BY DEF EndSettle, NewTotal, ghosts
<1>3. /\ ClusterInv' /\ ClusterTypeOK' /\ Live' = Live
      /\ UNCHANGED <<length, nextID, replica, metered>>
  BY <1>2, ClusterKept
<1>4. /\ stage \in [Settler -> {"idle", "credit", "clear"}] /\ sum \in [Settler -> Nat]
      /\ total \in Nat
  BY <1>1 DEF SettleTypeOK
<1>5. /\ stage'[s] = "idle" /\ sum'[s] = 0
      /\ \A t \in Settler \ {s} : stage'[t] = stage[t] /\ sum'[t] = sum[t]
  BY <1>2, <1>4
<1>6. SettleTypeOK'
  <2>1. stage' \in [Settler -> {"idle", "credit", "clear"}] /\ sum' \in [Settler -> Nat]
    BY <1>2, <1>4
  <2>2. total' \in Nat
    BY <1>2, <1>4
  <2> QED
    BY <1>1, <1>2, <1>3, <2>1, <2>2 DEF SettleTypeOK
<1>7. Idle'
  BY <1>1, <1>2, <1>5 DEF Idle
<1>8. ReadOnce' /\ Covered' /\ Unborn' /\ \A id \in Id : Pending(id)' = Pending(id)
  BY <1>1, <1>2, <1>3 DEF ReadOnce, Covered, Unborn, Pending
<1>9. ASSUME NEW t \in Settler, NEW id \in Id
      PROVE  Uncleared(t, id)' = Uncleared(t, id)
  BY <1>2, <1>5, OtherSettler DEF Uncleared
<1>10. \A id \in Id : Conserved(id)'
  <2> SUFFICES ASSUME NEW id \in Id PROVE Conserved(id)'
    OBVIOUS
  <2>1. Held(id)' = Held(id)
    BY <1>9, HeldSame
  <2> QED
    BY <1>1, <1>2, <1>3, <1>8, <2>1 DEF Conserved
<1>11. Totalled'
  <2>1. HeldTotal' = HeldTotal /\ HeldTotal \in Int
    BY <1>1, <1>9, HeldTotalSame, HeldTotalInt
  <2>2. /\ Integers(sum, Settler) /\ Integers(unheard, Id)
        /\ Agree(sum, sum', Settler \ {s})
    BY <1>1, <1>4, <1>5, FiniteIds DEF Integers, Agree, SettleTypeOK
  <2>3. sum[s] \in Nat /\ sum'[s] = 0
    BY <1>4, <1>5
  <2>4. SumFunctionOnSet(sum', Settler) = SumFunctionOnSet(sum, Settler) + (sum'[s] - sum[s])
    <3> DEFINE e == sum'
    <3>1. Agree(sum, e, Settler \ {s}) /\ e[s] \in Int
      BY <2>2, <2>3
    <3> HIDE DEF e
    <3>2. SumFunctionOnSet(e, Settler) = SumFunctionOnSet(sum, Settler) + (e[s] - sum[s])
      BY <2>2, <3>1, SumChange
    <3> QED
      BY <3>2 DEF e
  <2>5. SumFunctionOnSet(sum, Settler) \in Int /\ SumFunctionOnSet(unheard, Id) \in Int
    BY <2>2, SumType
  <2> QED
    BY <1>1, <1>2, <1>4, <2>1, <2>3, <2>4, <2>5 DEF Totalled
<1> QED
  BY <1>3, <1>6, <1>7, <1>8, <1>10, <1>11, SettleInvNext

\* Taking a node off the list of s leaves every other reading as it is.
LEMMA DoneStep ==
  ASSUME SettleTypeOK, NEW s \in Settler, NEW id, Done(s, id)
  PROVE  /\ DOMAIN meters' = Settler
         /\ \A t \in Settler \ {s} : meters'[t] = meters[t]
         /\ DOMAIN meters'[s] = DOMAIN meters[s] \ {id}
         /\ \A x \in DOMAIN meters'[s] : meters'[s][x] = meters[s][x]
<1>1. DOMAIN meters = Settler
  BY DEF SettleTypeOK
<1> QED
  BY <1>1 DEF Done, Without

\* What a step does to the lists when it takes at most one node off one of them.
ListsShrink ==
  /\ DOMAIN meters' = Settler
  /\ \A t \in Settler : /\ DOMAIN meters'[t] \subseteq DOMAIN meters[t]
                        /\ \A x \in DOMAIN meters'[t] : meters'[t][x] = meters[t][x]

LEMMA ShrinkKeeps ==
  ASSUME SettleInv, ListsShrink, overlapped' = overlapped
  PROVE  /\ \A t \in Settler : \A x \in DOMAIN meters'[t] :
              x \in Id /\ meters'[t][x] \in [owner : Owner, units : Nat \ {0}]
         /\ ReadOnce'
<1>1. SettleTypeOK /\ ReadOnce
  BY DEF SettleInv
<1> QED
  BY <1>1 DEF ListsShrink, SettleTypeOK, ReadOnce

\* The wallet's answer: a credit s still has to clear, a refusal, or a credit whose
\* reply is lost.
LEMMA CreditStep ==
  ASSUME SettleInv, NEW s \in Settler, Credit(s)
  PROVE  SettleInv'
<1>1. /\ ClusterInv /\ SettleTypeOK /\ ClusterTypeOK
      /\ Idle /\ ReadOnce /\ Covered /\ Unborn /\ nextID \in Nat
      /\ Totalled /\ \A x \in Id : Conserved(x)
  BY InvParts
<1>2. /\ stage[s] = "credit"
      /\ UNCHANGED <<cluster, opened, sum, total, forfeited, overlapped>>
  BY DEF Credit, CreditHeard, CreditFails, CreditUnheard, ghosts
<1>3. PICK id \in Turn(s) :
        LET earn(f) == [f EXCEPT ![id] = @ + meters[s][id].units]
        IN  \/ /\ paid' = earn(paid) /\ stage' = [stage EXCEPT ![s] = "clear"]
               /\ UNCHANGED <<meters, unheard>>
            \/ Done(s, id) /\ UNCHANGED <<paid, stage, unheard>>
            \/ /\ Done(s, id) /\ UNCHANGED stage
               /\ paid' = earn(paid) /\ unheard' = earn(unheard)
  BY DEF Credit, CreditHeard, CreditFails, CreditUnheard, Books, ghosts
<1> DEFINE units == meters[s][id].units
           earn(f) == [f EXCEPT ![id] = @ + units]
<1>4. id \in DOMAIN meters[s] /\ id \in Id /\ units \in Nat /\ units > 0
  BY <1>1, MeterFields DEF Turn
<1>5. \/ /\ paid' = earn(paid) /\ stage' = [stage EXCEPT ![s] = "clear"]
         /\ UNCHANGED <<meters, unheard>>
      \/ Done(s, id) /\ UNCHANGED <<paid, stage, unheard>>
      \/ Done(s, id) /\ UNCHANGED stage /\ paid' = earn(paid) /\ unheard' = earn(unheard)
  BY <1>3
<1>6. /\ ClusterInv' /\ ClusterTypeOK' /\ Live' = Live
      /\ UNCHANGED <<length, nextID, replica, metered>>
  BY <1>2, ClusterKept
<1>7. /\ stage \in [Settler -> {"idle", "credit", "clear"}] /\ DOMAIN meters = Settler
      /\ paid \in [Id -> Nat] /\ unheard \in [Id -> Nat]
  BY <1>1 DEF SettleTypeOK
<1>8. /\ earn(paid) \in [Id -> Nat] /\ earn(unheard) \in [Id -> Nat]
      /\ earn(paid)[id] = paid[id] + units /\ earn(unheard)[id] = unheard[id] + units
      /\ \A x \in Id \ {id} : earn(paid)[x] = paid[x] /\ earn(unheard)[x] = unheard[x]
  BY <1>4, <1>7
<1>9. /\ SumFunctionOnSet(earn(paid), Id) = SumFunctionOnSet(paid, Id) + units
      /\ SumFunctionOnSet(earn(unheard), Id) = SumFunctionOnSet(unheard, Id) + units
      /\ SumFunctionOnSet(paid, Id) \in Int /\ SumFunctionOnSet(unheard, Id) \in Int
      /\ SumFunctionOnSet(sum, Settler) \in Int /\ total \in Int
  <2>1. /\ DOMAIN paid = Id /\ DOMAIN unheard = Id
        /\ Integers(paid, Id) /\ Integers(unheard, Id) /\ Integers(sum, Settler)
    BY <1>1, <1>7, FiniteIds DEF Integers, SettleTypeOK
  <2>2. units \in Int /\ total \in Int
    BY <1>1, <1>4 DEF SettleTypeOK
  <2> HIDE DEF units
  <2>3. SumFunctionOnSet(earn(paid), Id) = SumFunctionOnSet(paid, Id) + units
    BY <1>4, <2>1, <2>2, SumExcept
  <2>4. SumFunctionOnSet(earn(unheard), Id) = SumFunctionOnSet(unheard, Id) + units
    BY <1>4, <2>1, <2>2, SumExcept
  <2> QED
    BY <2>1, <2>2, <2>3, <2>4, SumType
<1>10. /\ paid' \in {paid, earn(paid)} /\ unheard' \in {unheard, earn(unheard)}
       /\ stage' \in {stage, [stage EXCEPT ![s] = "clear"]}
  BY <1>5
<1>11. ListsShrink /\ \A t \in Settler \ {s} : meters'[t] = meters[t] /\ stage'[t] = stage[t]
  <2>1. CASE meters' = meters
    BY <1>7, <1>10, <2>1 DEF ListsShrink
  <2>2. CASE Done(s, id)
    BY <1>1, <1>7, <1>10, <2>2, DoneStep DEF ListsShrink
  <2> QED
    BY <1>5, <2>1, <2>2
<1>12. SettleTypeOK'
  <2>1. paid' \in [Id -> Nat] /\ unheard' \in [Id -> Nat]
    BY <1>7, <1>8, <1>10
  <2>2. stage' \in [Settler -> {"idle", "credit", "clear"}]
    BY <1>7, <1>10
  <2>3. \A t \in Settler : \A x \in DOMAIN meters'[t] :
          x \in Id /\ meters'[t][x] \in [owner : Owner, units : Nat \ {0}]
    BY <1>2, <1>11, ShrinkKeeps
  <2> QED
    BY <1>1, <1>2, <1>6, <1>11, <2>1, <2>2, <2>3 DEF SettleTypeOK, ListsShrink
<1>13. Idle'
  <2>1. stage'[s] # "idle"
    BY <1>2, <1>7, <1>10
  <2> QED
    BY <1>1, <1>2, <1>11, <2>1 DEF Idle
<1>14. ReadOnce' /\ \A x \in Id : Pending(x)' = Pending(x)
  BY <1>2, <1>6, <1>11, ShrinkKeeps DEF Pending
<1>15. Covered'
  <2> SUFFICES ASSUME NEW t \in Settler, NEW x \in DOMAIN meters'[t], x \notin overlapped
               PROVE  meters'[t][x].units <= Pending(x)'
    BY <1>2 DEF Covered
  <2>1. x \in DOMAIN meters[t] /\ meters'[t][x] = meters[t][x]
    BY <1>11 DEF ListsShrink
  <2>2. x \in Id
    BY <1>1, <2>1, MeterFields
  <2> QED
    BY <1>1, <1>14, <2>1, <2>2 DEF Covered
<1>16. Unborn'
  <2> SUFFICES ASSUME NEW x \in Id, x >= nextID
               PROVE  /\ paid'[x] = 0 /\ unheard'[x] = 0
                      /\ \A t \in Settler : x \notin DOMAIN meters'[t]
    BY <1>1, <1>2, <1>6 DEF Unborn
  <2>1. /\ paid[x] = 0 /\ unheard[x] = 0
        /\ \A t \in Settler : x \notin DOMAIN meters[t]
    BY <1>1 DEF Unborn
  <2>2. x # id
    BY <1>4, <2>1
  <2> QED
    BY <1>8, <1>10, <1>11, <2>1, <2>2 DEF ListsShrink
<1>17. /\ \A x \in Id : Uncleared(s, x) = 0
       /\ \A t \in Settler \ {s}, x \in Id : Uncleared(t, x)' = Uncleared(t, x)
  BY <1>2, <1>11, OtherSettler DEF Uncleared
<1>18. CASE paid' = earn(paid) /\ stage' = [stage EXCEPT ![s] = "clear"]
            /\ UNCHANGED <<meters, unheard>>
  <2>1. Uncleared(s, id)' = units /\ \A x \in Id \ {id} : Uncleared(s, x)' = 0
    <3>1. stage'[s] = "clear" /\ Turn(s)' = Turn(s) /\ meters'[s] = meters[s]
      BY <1>7, <1>18 DEF Turn
    <3>2. \A x \in Turn(s) : x = id
      BY <1>1, OneTurn
    <3> QED
      BY <3>1, <3>2 DEF Uncleared
  <2>2. /\ Held(id)' = Held(id) + units /\ Held(id) \in Int
        /\ \A x \in Id \ {id} : Held(x)' = Held(x)
    <3>1. Held(id)' = Held(id) + (Uncleared(s, id)' - Uncleared(s, id)) /\ Held(id) \in Int
      BY <1>1, <1>4, <1>12, <1>17, HeldChange
    <3>2. ASSUME NEW x \in Id \ {id} PROVE Held(x)' = Held(x)
      <4>1. \A t \in Settler : Uncleared(t, x)' = Uncleared(t, x)
        BY <1>17, <2>1
      <4> QED
        BY <4>1, HeldSame
    <3> QED
      BY <1>4, <1>17, <2>1, <3>1, <3>2
  <2>3. HeldTotal' = HeldTotal + units /\ HeldTotal \in Int
    <3>1. HeldTotal' = HeldTotal + (Uncleared(s, id)' - Uncleared(s, id)) /\ HeldTotal \in Int
      <4>1. \A t \in Settler, x \in Id :
              t # s \/ x # id => Uncleared(t, x)' = Uncleared(t, x)
        BY <1>17, <2>1
      <4> QED
        BY <1>1, <1>4, <1>12, <4>1, HeldTotalChange
    <3> QED
      BY <1>4, <1>17, <2>1, <3>1
  <2>4. ASSUME NEW x \in Id PROVE Conserved(x)'
    <3>1. /\ paid[x] \in Nat /\ Pending(x) \in Nat /\ metered[x] \in Nat
          /\ unheard[x] \in Nat /\ Held(x) \in Nat
      BY <1>1, BookFields
    <3>2. CASE x = id
      <4>1. paid'[x] = paid[x] + units /\ Held(x)' = Held(x) + units
        BY <1>8, <1>18, <2>2, <3>2
      <4> HIDE DEF units
      <4> QED
        BY <1>1, <1>2, <1>4, <1>6, <1>14, <1>18, <3>1, <4>1 DEF Conserved
    <3>3. CASE x # id
      <4>1. paid'[x] = paid[x] /\ Held(x)' = Held(x)
        BY <1>8, <1>18, <2>2, <3>3
      <4> QED
        BY <1>1, <1>2, <1>6, <1>14, <1>18, <3>1, <4>1 DEF Conserved
    <3> QED
      BY <3>2, <3>3
  <2>5. Totalled'
    <3> HIDE DEF units, earn
    <3> QED
      BY <1>1, <1>2, <1>4, <1>9, <1>18, <2>3 DEF Totalled
  <2> QED
    BY <1>6, <1>12, <1>13, <1>14, <1>15, <1>16, <2>4, <2>5, SettleInvNext
<1>19. CASE /\ stage' = stage
            /\ \/ UNCHANGED <<paid, unheard>>
               \/ paid' = earn(paid) /\ unheard' = earn(unheard)
  <2>1. \A t \in Settler, x \in Id : Uncleared(t, x)' = Uncleared(t, x)
    BY <1>2, <1>17, <1>19 DEF Uncleared
  <2>2. HeldTotal' = HeldTotal /\ HeldTotal \in Int
    BY <1>1, <2>1, HeldTotalSame, HeldTotalInt
  <2>3. ASSUME NEW x \in Id PROVE Conserved(x)'
    <3>1. /\ paid[x] \in Nat /\ Pending(x) \in Nat /\ metered[x] \in Nat
          /\ unheard[x] \in Nat /\ Held(x) \in Nat
      BY <1>1, BookFields
    <3>2. Held(x)' = Held(x)
      BY <2>1, HeldSame
    <3>3. paid'[x] \in Nat /\ unheard'[x] \in Nat /\ paid'[x] - paid[x] = unheard'[x] - unheard[x]
      <4> HIDE DEF units
      <4> QED
        BY <1>4, <1>7, <1>8, <1>19, <3>1
    <3> QED
      BY <1>1, <1>2, <1>6, <1>14, <3>1, <3>2, <3>3 DEF Conserved
  <2>4. Totalled'
    <3> HIDE DEF units, earn
    <3> QED
      BY <1>1, <1>2, <1>4, <1>9, <1>19, <2>2 DEF Totalled
  <2> QED
    BY <1>6, <1>12, <1>13, <1>14, <1>15, <1>16, <2>3, <2>4, SettleInvNext
<1> QED
  BY <1>5, <1>18, <1>19

\* ClearPending takes from the meter what was credited: the meter holds at least that,
\* unless another settler had read it too.
LEMMA ClearStep ==
  ASSUME SettleInv, NEW s \in Settler, Clear(s)
  PROVE  SettleInv'
<1>1. /\ ClusterInv /\ SettleTypeOK /\ ClusterTypeOK
      /\ Idle /\ ReadOnce /\ Covered /\ Unborn /\ nextID \in Nat
      /\ Totalled /\ \A x \in Id : Conserved(x)
  BY InvParts
<1>2. /\ stage[s] = "clear" /\ stage' = [stage EXCEPT ![s] = "credit"]
      /\ UNCHANGED <<opened, paid, total, unheard, overlapped>>
  BY DEF Clear
<1>3. PICK id \in Turn(s) :
        /\ ClearPending(id, meters[s][id].units)
        /\ forfeited' = [forfeited EXCEPT ![id] = Less(@, meters[s][id].units)]
        /\ sum' = [sum EXCEPT ![s] = @ + meters[s][id].units]
        /\ Done(s, id)
  BY DEF Clear, Credited
<1> DEFINE units == meters[s][id].units
<1>4. id \in DOMAIN meters[s] /\ id \in Id /\ units \in Nat /\ units > 0
  BY <1>1, MeterFields DEF Turn
<1>5. /\ ClearPending(id, units)
      /\ forfeited' = [forfeited EXCEPT ![id] = Less(@, units)]
      /\ sum' = [sum EXCEPT ![s] = @ + units]
  BY <1>3
<1>6. /\ DOMAIN meters' = Settler
      /\ \A t \in Settler \ {s} : meters'[t] = meters[t]
      /\ DOMAIN meters'[s] = DOMAIN meters[s] \ {id}
      /\ \A x \in DOMAIN meters'[s] : meters'[s][x] = meters[s][x]
  BY <1>1, <1>3, DoneStep
<1> HIDE DEF units
<1>7. /\ ClusterInv' /\ Live' = Live
      /\ \A x \in Live \ {id} : replica'[x] = replica[x]
      /\ id \in Live => replica'[id].pending = Less(replica[id].pending, units)
      /\ nextID' = nextID /\ metered' = metered
  BY <1>1, <1>4, <1>5, ClearPendingStep DEF Live, ClearPending
<1>8. ClusterTypeOK'
  BY <1>7 DEF ClusterInv
<1>9. /\ stage \in [Settler -> {"idle", "credit", "clear"}] /\ DOMAIN meters = Settler
      /\ forfeited \in [Id -> Nat] /\ sum \in [Settler -> Nat]
  BY <1>1 DEF SettleTypeOK
<1>10. ListsShrink
  BY <1>6, <1>9 DEF ListsShrink
<1>11. /\ stage'[s] = "credit" /\ sum'[s] = sum[s] + units
       /\ \A t \in Settler \ {s} : stage'[t] = stage[t] /\ sum'[t] = sum[t]
  BY <1>2, <1>5, <1>9
<1>12. /\ Pending(id)' = Less(Pending(id), units)
       /\ \A x \in Id \ {id} : Pending(x)' = Pending(x)
  <2>1. /\ forfeited'[id] = Less(forfeited[id], units)
        /\ \A x \in Id \ {id} : forfeited'[x] = forfeited[x]
    BY <1>4, <1>5, <1>9
  <2> QED
    BY <1>7, <2>1 DEF Pending
<1>13. SettleTypeOK'
  <2>1. \A t \in Settler : \A x \in DOMAIN meters'[t] :
          x \in Id /\ meters'[t][x] \in [owner : Owner, units : Nat \ {0}]
    BY <1>2, <1>10, ShrinkKeeps
  <2>2. stage' \in [Settler -> {"idle", "credit", "clear"}]
    BY <1>2, <1>9
  <2>3. sum' \in [Settler -> Nat]
    BY <1>4, <1>5, <1>9
  <2>4. forfeited' \in [Id -> Nat]
    <3>1. ASSUME NEW n \in Nat PROVE Less(n, units) \in Nat
      BY <1>4 DEF Less
    <3> QED
      BY <1>4, <1>5, <1>9, <3>1
  <2> QED
    BY <1>1, <1>2, <1>6, <1>8, <2>1, <2>2, <2>3, <2>4 DEF SettleTypeOK
<1>14. Idle'
  BY <1>1, <1>6, <1>11 DEF Idle
<1>15. ReadOnce'
  BY <1>2, <1>10, ShrinkKeeps
<1>16. Covered'
  <2> SUFFICES ASSUME NEW t \in Settler, NEW x \in DOMAIN meters'[t], x \notin overlapped
               PROVE  meters'[t][x].units <= Pending(x)'
    BY <1>2 DEF Covered
  <2>1. x \in DOMAIN meters[t] /\ meters'[t][x] = meters[t][x]
    BY <1>10 DEF ListsShrink
  <2>2. x \in Id
    BY <1>1, <2>1, MeterFields
  <2>3. x # id
    <3>1. SUFFICES ASSUME x = id PROVE FALSE
      OBVIOUS
    <3>2. t # s
      BY <1>6, <3>1
    <3> QED
      BY <1>1, <1>4, <2>1, <2>2, <3>1, <3>2 DEF ReadOnce
  <2> QED
    BY <1>1, <1>12, <2>1, <2>2, <2>3 DEF Covered
<1>17. Unborn'
  <2> SUFFICES ASSUME NEW x \in Id, x >= nextID
               PROVE  /\ forfeited'[x] = 0
                      /\ \A t \in Settler : x \notin DOMAIN meters'[t]
    BY <1>1, <1>2, <1>7 DEF Unborn
  <2>1. forfeited[x] = 0 /\ \A t \in Settler : x \notin DOMAIN meters[t]
    BY <1>1 DEF Unborn
  <2>2. x # id
    BY <1>4, <2>1
  <2> QED
    BY <1>5, <1>9, <1>10, <2>1, <2>2 DEF ListsShrink
<1>18. /\ Uncleared(s, id) = units /\ Uncleared(s, id)' = 0
       /\ \A t \in Settler, x \in Id :
            t # s \/ x # id => Uncleared(t, x)' = Uncleared(t, x)
  <2>1. \A x \in Turn(s) : x = id
    BY <1>1, OneTurn
  <2>2. Uncleared(s, id) = units /\ \A x \in Id \ {id} : Uncleared(s, x) = 0
    BY <1>2, <2>1 DEF Uncleared, units
  <2>3. \A x \in Id : Uncleared(s, x)' = 0
    BY <1>11 DEF Uncleared
  <2>4. \A t \in Settler \ {s}, x \in Id : Uncleared(t, x)' = Uncleared(t, x)
    BY <1>6, <1>11, OtherSettler
  <2> QED
    BY <1>4, <2>2, <2>3, <2>4
<1>19. Held(id)' = Held(id) - units
  <2>1. Held(id)' = Held(id) + (Uncleared(s, id)' - Uncleared(s, id)) /\ Held(id) \in Int
    BY <1>1, <1>4, <1>13, <1>18, HeldChange
  <2> QED
    BY <1>4, <1>18, <2>1
<1>20. HeldTotal' = HeldTotal - units /\ HeldTotal \in Int
  <2>1. HeldTotal' = HeldTotal + (Uncleared(s, id)' - Uncleared(s, id)) /\ HeldTotal \in Int
    BY <1>1, <1>4, <1>13, <1>18, HeldTotalChange
  <2> QED
    BY <1>4, <1>18, <2>1
<1>21. ASSUME NEW x \in Id PROVE Conserved(x)'
  <2>1. /\ paid[x] \in Nat /\ Pending(x) \in Nat /\ metered[x] \in Nat
        /\ unheard[x] \in Nat /\ Held(x) \in Nat /\ Conserved(x)
    BY <1>1, BookFields
  <2>2. CASE x = id
    <3>1. Pending(x)' = Less(Pending(x), units) /\ Held(x)' = Held(x) - units
      BY <1>12, <1>19, <2>2
    <3>2. x \notin overlapped => units <= Pending(x)
      BY <1>1, <1>4, <2>2 DEF Covered, units
    <3>3. /\ Pending(x)' \in Nat /\ Pending(x)' >= Pending(x) - units
          /\ x \notin overlapped => Pending(x)' = Pending(x) - units
      BY <1>4, <2>1, <3>1, <3>2 DEF Less
    <3> QED
      BY <1>2, <1>4, <1>7, <2>1, <3>1, <3>3 DEF Conserved
  <2>3. CASE x # id
    <3>1. Held(x)' = Held(x)
      BY <1>18, <2>3, HeldSame
    <3> QED
      BY <1>2, <1>7, <1>12, <2>1, <2>3, <3>1 DEF Conserved
  <2> QED
    BY <2>2, <2>3
<1>22. Totalled'
  <2>1. DOMAIN sum = Settler /\ Integers(sum, Settler) /\ units \in Int
    BY <1>4, <1>9, FiniteIds DEF Integers
  <2>2. SumFunctionOnSet(sum', Settler) = SumFunctionOnSet(sum, Settler) + units
    BY <1>5, <2>1, SumExcept
  <2>3. Integers(unheard, Id) /\ total \in Int
    BY <1>1, FiniteIds DEF Integers, SettleTypeOK
  <2>4. SumFunctionOnSet(sum, Settler) \in Int /\ SumFunctionOnSet(unheard, Id) \in Int
    BY <2>1, <2>3, SumType
  <2> QED
    BY <1>1, <1>2, <1>20, <2>1, <2>2, <2>3, <2>4 DEF Totalled
<1> QED
  BY <1>7, <1>13, <1>14, <1>15, <1>16, <1>17, <1>21, <1>22, SettleInvNext

LEMMA StutterStep ==
  ASSUME SettleInv, UNCHANGED depin
  PROVE  SettleInv'
<1>1. /\ UNCHANGED cluster
      /\ UNCHANGED <<opened, paid, stage, meters, sum, total, unheard, forfeited, overlapped>>
  BY DEF depin, settling, ghosts
<1>2. /\ ClusterInv' /\ ClusterTypeOK' /\ Live' = Live
      /\ UNCHANGED <<length, nextID, replica, metered>>
  BY <1>1, ClusterKept
<1>3. SettleTypeOK'
  BY <1>1, <1>2 DEF SettleInv, SettleTypeOK
<1>4. Idle' /\ ReadOnce' /\ Covered' /\ Unborn'
  BY <1>1, <1>2 DEF SettleInv, Idle, ReadOnce, Covered, Unborn, Pending
<1>5. RewardConserved'
  BY <1>1, <1>2 DEF SettleInv, RewardConserved, Settled, Earned, Pending, Uncleared, Turn
<1>6. TotalsArePaid'
  BY <1>1 DEF SettleInv, TotalsArePaid, Unheard, UnclearedBy, Uncleared, Turn
<1> QED
  BY <1>2, <1>3, <1>4, <1>5, <1>6 DEF SettleInv

LEMMA DepinStep == SettleInv /\ [DepinNext]_depin => SettleInv'
<1> SUFFICES ASSUME SettleInv, [DepinNext]_depin PROVE SettleInv'
  OBVIOUS
<1>1. CASE ClusterStep /\ Forfeit /\ UNCHANGED <<settling, unheard, overlapped>>
  BY <1>1, ClusterSettles
<1>2. CASE \E s \in Settler : Settle(s)
  <2>1. PICK s \in Settler : Settle(s)
    BY <1>2
  <2> QED
    BY <2>1, BeginStep, CreditStep, ClearStep, EndStep DEF Settle
<1>3. CASE \E o \in Owner : OpenAccount(o)
  BY <1>3, OpenAccountStep
<1>4. CASE UNCHANGED depin
  BY <1>4, StutterStep
<1> QED
  BY <1>1, <1>2, <1>3, <1>4 DEF DepinNext

(***************************************************************************)
(* The theorems.                                                           *)
(***************************************************************************)
\* However settlers, entries, acks and departures interleave, every state the system
\* reaches satisfies the invariant above.
THEOREM SettleInvariant == DepinSpec => []SettleInv
<1> QED
  BY InitSettle, DepinStep, PTL DEF DepinSpec

\* The wallet's credits, the meters read and the totals keep their types: no subtraction
\* in the meter or in the books goes below zero.
THEOREM SettleTypeCorrect == DepinSpec => []SettleTypeOK
<1>1. SettleInv => SettleTypeOK
  BY DEF SettleInv
<1> QED
  BY <1>1, SettleInvariant, PTL

\* ClearPending: what a node replicated is pending or paid, never both and never neither,
\* whatever arrives between Meter, the wallet's answer and the clearing.
THEOREM RewardsConserved == DepinSpec => []RewardConserved
<1>1. SettleInv => RewardConserved
  BY DEF SettleInv
<1> QED
  BY <1>1, SettleInvariant, PTL

\* totalRewardedMin is what the wallet credited, but for calls whose reply was lost and
\* for passes under way, also when settlers overlap.
THEOREM TotalsMatchWallet == DepinSpec => []TotalsArePaid
<1>1. SettleInv => TotalsArePaid
  BY DEF SettleInv
<1> QED
  BY <1>1, SettleInvariant, PTL

\* ClearPending: "a reward is never double-paid".  True of every node that no two settlers
\* had read at one time, up to the calls whose reply was lost; the run that overlaps
\* settlers shows why the condition is needed.
PaidOnce == \A id \in Id : id \notin overlapped => paid[id] <= metered[id] + unheard[id]

LEMMA HeldIsPending ==
  ASSUME SettleInv, NEW id \in Id, id \notin overlapped
  PROVE  Held(id) <= Pending(id)
<1>1. /\ SettleTypeOK /\ ReadOnce /\ Covered /\ Pending(id) \in Nat
  BY PendingNat DEF SettleInv
<1>2. CASE \A s \in Settler : id \notin DOMAIN meters[s]
  BY <1>1, <1>2, HeldZero
<1>3. CASE \E s \in Settler : id \in DOMAIN meters[s]
  <2>1. PICK s \in Settler : id \in DOMAIN meters[s]
    BY <1>3
  <2> DEFINE f == [t \in Settler |-> Uncleared(t, id)]
  <2>2. \A t \in Settler : f[t] \in Nat
    BY <1>1, UnclearedNat
  <2>3. \A t \in Settler \ {s} : f[t] = 0
    <3>1. \A t \in Settler \ {s} : id \notin DOMAIN meters[t]
      BY <1>1, <2>1 DEF ReadOnce
    <3> QED
      BY <3>1 DEF Uncleared, Turn
  <2>4. f[s] <= Pending(id)
    <3>1. meters[s][id].units <= Pending(id)
      BY <1>1, <2>1 DEF Covered
    <3> QED
      BY <1>1, <3>1 DEF Uncleared
  <2>5. Held(id) = SumFunctionOnSet(f, Settler)
    BY DEF Held, SumFunction
  <2> HIDE DEF f
  <2>6. Integers(f, Settler) /\ IsFiniteSet(Settler \ {s})
    BY <2>2, FiniteIds, FS_Subset DEF Integers
  <2>7. /\ SumFunctionOnSet(f, Settler) = f[s] + SumFunctionOnSet(f, Settler \ {s})
        /\ SumFunctionOnSet(f, Settler \ {s}) = 0
    BY <2>3, <2>6, SumRemove, SumZero
  <2> QED
    BY <1>1, <2>2, <2>4, <2>5, <2>7
<1> QED
  BY <1>2, <1>3

\* However the answers, entries and departures interleave, a node that one settler at a
\* time settles is never paid for more than it replicated, plus the credits whose
\* reply was lost.
THEOREM RewardPaidOnce == DepinSpec => []PaidOnce
<1>1. ASSUME SettleInv, NEW id \in Id, id \notin overlapped
      PROVE  paid[id] <= metered[id] + unheard[id]
  <2>1. Conserved(id) /\ Held(id) <= Pending(id)
    BY <1>1, InvParts, HeldIsPending
  <2>2. /\ paid[id] \in Nat /\ Pending(id) \in Nat /\ metered[id] \in Nat
        /\ unheard[id] \in Nat /\ Held(id) \in Nat
    BY <1>1, BookFields DEF SettleInv
  <2> QED
    BY <1>1, <2>1, <2>2 DEF Conserved
<1>2. SettleInv => PaidOnce
  BY <1>1 DEF PaidOnce
<1> QED
  BY <1>2, SettleInvariant, PTL
=============================================================================
