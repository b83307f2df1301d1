-------------------------- MODULE LedgerClusterProofs --------------------------
(***************************************************************************)
(* For every set of owners, any channel capacity and any number of nodes   *)
(* and entries: in-process copies agree, a phone whose channel never       *)
(* overflowed misses nothing, and a phone that acknowledges only what it   *)
(* holds is metered for nothing it does not hold.                          *)
(***************************************************************************)
EXTENDS TLAPS, LedgerCluster, SequenceTheorems

(***************************************************************************)
(* Entries in a channel.                                                   *)
(***************************************************************************)
\* s is a, a + 1, a + 2, ...
From(s, a) == \A i \in 1 .. Len(s) : s[i] = a + (i - 1)
Below(s, n) == \A i \in 1 .. Len(s) : s[i] < n

LEMMA FromAppend ==
  ASSUME NEW s \in Seq(Nat), NEW a \in Nat, From(s, a)
  PROVE  From(Append(s, a + Len(s)), a)
<1> DEFINE t == Append(s, a + Len(s))
<1>1. Len(s) \in Nat /\ a + Len(s) \in Nat
  OBVIOUS
<1>2. /\ Len(t) = Len(s) + 1 /\ t[Len(s) + 1] = a + Len(s)
      /\ \A i \in 1 .. Len(s) : t[i] = s[i]
  BY <1>1, AppendProperties
<1>3. ASSUME NEW i \in 1 .. Len(s) + 1 PROVE t[i] = a + (i - 1)
  <2>1. CASE i \in 1 .. Len(s)
    BY <1>2, <2>1 DEF From
  <2>2. CASE i = Len(s) + 1
    BY <1>1, <1>2, <2>2
  <2> QED
    BY <1>1, <2>1, <2>2
<1> QED
  BY <1>2, <1>3 DEF From

LEMMA FromTail ==
  ASSUME NEW s \in Seq(Nat), NEW a \in Nat, From(s, a), s # <<>>
  PROVE  Head(s) = a /\ From(Tail(s), a + 1) /\ Len(Tail(s)) = Len(s) - 1
<1>1. /\ Len(Tail(s)) = Len(s) - 1 /\ Len(s) \in Nat /\ Len(s) >= 1
      /\ \A i \in 1 .. Len(Tail(s)) : Tail(s)[i] = s[i + 1]
  BY HeadTailProperties
<1>2. Head(s) = s[1] /\ s[1] = a
  BY <1>1 DEF From
<1>3. ASSUME NEW i \in 1 .. Len(Tail(s)) PROVE Tail(s)[i] = (a + 1) + (i - 1)
  BY <1>1 DEF From
<1> QED
  BY <1>1, <1>2, <1>3 DEF From

LEMMA BelowAppend ==
  ASSUME NEW s \in Seq(Nat), NEW m \in Nat, NEW n \in Nat, Below(s, n), m < n
  PROVE  Below(Append(s, m), n)
<1> DEFINE t == Append(s, m)
<1>1. /\ Len(t) = Len(s) + 1 /\ t[Len(s) + 1] = m /\ Len(s) \in Nat
      /\ \A i \in 1 .. Len(s) : t[i] = s[i]
  BY AppendProperties
<1>2. ASSUME NEW i \in 1 .. Len(s) + 1 PROVE t[i] < n
  <2>1. CASE i \in 1 .. Len(s)
    BY <1>1, <2>1 DEF Below
  <2>2. CASE i = Len(s) + 1
    BY <1>1, <2>2
  <2> QED
    BY <1>1, <2>1, <2>2
<1> QED
  BY <1>1, <1>2 DEF Below

LEMMA BelowTail ==
  ASSUME NEW s \in Seq(Nat), NEW n \in Nat, Below(s, n), s # <<>>
  PROVE  Head(s) \in Nat /\ Head(s) < n /\ Below(Tail(s), n)
<1>1. /\ Len(Tail(s)) = Len(s) - 1 /\ Len(s) \in Nat /\ Len(s) >= 1
      /\ \A i \in 1 .. Len(Tail(s)) : Tail(s)[i] = s[i + 1]
  BY HeadTailProperties
<1>2. Head(s) = s[1] /\ 1 \in 1 .. Len(s)
  BY <1>1
<1>3. ASSUME NEW i \in 1 .. Len(Tail(s)) PROVE Tail(s)[i] < n
  BY <1>1 DEF Below
<1> QED
  BY <1>2, <1>3 DEF Below

\* Among the acks s there is, in order, one of each of a, ..., n - 1.
Answers(s, a, n) ==
  \E pos \in [a .. (n - 1) -> 1 .. Len(s)] :
    /\ \A m \in a .. (n - 1) : s[pos[m]] = m
    /\ \A l, m \in a .. (n - 1) : l < m => pos[l] < pos[m]

\* Any further ack leaves those, and an ack of n is one more.
LEMMA AnswersAppend ==
  ASSUME NEW s \in Seq(Nat), NEW a \in Nat, NEW n \in Nat, NEW m \in Nat, Answers(s, a, n)
  PROVE  Answers(Append(s, m), a, n) /\ (m = n => Answers(Append(s, m), a, n + 1))
<1> DEFINE t == Append(s, m)
<1>1. /\ Len(t) = Len(s) + 1 /\ Len(s) \in Nat /\ t[Len(s) + 1] = m
      /\ \A i \in 1 .. Len(s) : t[i] = s[i]
  BY AppendProperties
<1>2. PICK pos \in [a .. (n - 1) -> 1 .. Len(s)] :
        /\ \A x \in a .. (n - 1) : s[pos[x]] = x
        /\ \A l, x \in a .. (n - 1) : l < x => pos[l] < pos[x]
  BY DEF Answers
<1> HIDE DEF t
<1>3. Answers(t, a, n)
  <2>1. pos \in [a .. (n - 1) -> 1 .. Len(t)]
    BY <1>1
  <2>2. \A x \in a .. (n - 1) : t[pos[x]] = x
    BY <1>1, <1>2
  <2> QED
    BY <1>2, <2>1, <2>2 DEF Answers
<1>4. ASSUME m = n PROVE Answers(t, a, n + 1)
  <2> DEFINE new == [x \in a .. ((n + 1) - 1) |-> IF x = n THEN Len(s) + 1 ELSE pos[x]]
  <2>1. \A x \in a .. ((n + 1) - 1) : x = n \/ x \in a .. (n - 1)
    OBVIOUS
  <2>2. new \in [a .. ((n + 1) - 1) -> 1 .. Len(t)]
    BY <1>1, <1>2, <2>1
  <2>3. \A x \in a .. ((n + 1) - 1) : t[new[x]] = x
    BY <1>1, <1>2, <1>4, <2>1
  <2>4. ASSUME NEW l \in a .. ((n + 1) - 1), NEW x \in a .. ((n + 1) - 1), l < x
        PROVE  new[l] < new[x]
    BY <1>1, <1>2, <2>1, <2>4
  <2> HIDE DEF new
  <2> QED
    BY <2>2, <2>3, <2>4 DEF Answers
<1> QED
  BY <1>3, <1>4 DEF t

\* Counting the first ack in order leaves acks for the rest.
LEMMA AnswersTail ==
  ASSUME NEW s \in Seq(Nat), NEW a \in Nat, NEW n \in Nat, s # <<>>, Answers(s, a, n)
  PROVE  Answers(Tail(s), IF Head(s) = a THEN a + 1 ELSE a, n)
<1> DEFINE t == Tail(s)
           b == IF Head(s) = a THEN a + 1 ELSE a
<1>1. /\ Len(t) = Len(s) - 1 /\ Len(s) \in Nat /\ Len(s) >= 1 /\ Head(s) = s[1]
      /\ \A i \in 1 .. Len(t) : t[i] = s[i + 1]
  BY HeadTailProperties
<1>2. PICK pos \in [a .. (n - 1) -> 1 .. Len(s)] :
        /\ \A x \in a .. (n - 1) : s[pos[x]] = x
        /\ \A l, x \in a .. (n - 1) : l < x => pos[l] < pos[x]
  BY DEF Answers
<1> HIDE DEF t
<1>3. ASSUME NEW x \in b .. (n - 1) PROVE x \in a .. (n - 1) /\ pos[x] \in 2 .. Len(s)
  <2>1. x \in a .. (n - 1) /\ a \in a .. (n - 1) /\ a <= x
    OBVIOUS
  <2>2. pos[x] \in 1 .. Len(s) /\ pos[a] \in 1 .. Len(s) /\ s[pos[a]] = a
    BY <1>2, <2>1
  <2>3. CASE Head(s) = a
    <3>1. a < x
      BY <2>3
    <3> QED
      BY <1>2, <2>1, <2>2, <3>1
  <2>4. CASE Head(s) # a
    <3>1. pos[a] # 1
      BY <1>1, <2>2, <2>4
    <3>2. a = x \/ a < x
      BY <2>1
    <3> QED
      BY <1>2, <2>1, <2>2, <3>1, <3>2
  <2> QED
    BY <2>3, <2>4
<1> DEFINE new == [x \in b .. (n - 1) |-> pos[x] - 1]
<1> HIDE DEF b
<1>4. new \in [b .. (n - 1) -> 1 .. Len(t)]
  BY <1>1, <1>3
<1>5. \A x \in b .. (n - 1) : t[new[x]] = x
  BY <1>1, <1>2, <1>3
<1>6. \A l, x \in b .. (n - 1) : l < x => new[l] < new[x]
  BY <1>1, <1>2, <1>3
<1> HIDE DEF new
<1>7. Answers(t, b, n)
  BY <1>4, <1>5, <1>6 DEF Answers
<1> QED
  BY <1>7 DEF t, b

LEMMA BelowMore ==
  ASSUME NEW s \in Seq(Nat), NEW m \in Nat, NEW n \in Nat, m <= n, Below(s, m)
  PROVE  Below(s, n)
<1>1. \A i \in 1 .. Len(s) : s[i] \in Nat
  OBVIOUS
<1> QED
  BY <1>1 DEF Below

(***************************************************************************)
(* The inductive invariant.  What a phone holds is decided by frames and   *)
(* acks in flight, so it describes both channels of every socket.          *)
(***************************************************************************)
\* The next entry the writer has to send of the chain as it is now.
Cursor(id) ==
  IF socket[id].next < replica[id].baseline THEN socket[id].next
  ELSE length - Len(socket[id].ch)

\* A phone's replica: its meter counts the acknowledged live entries, and the acks of a
\* phone that claims no others run behind what it holds.
MeterOK(id) ==
  LET r == replica[id]
      k == socket[id]
  IN  /\ r.owner \in Owner
      /\ metered[id] = IF r.acked > r.baseline THEN r.acked - r.baseline ELSE 0
      /\ id \notin claimed => r.acked <= phone[r.owner] /\ Below(k.acks, phone[r.owner])

\* Without an overflow the channel holds the newest entries in order, and all live
\* entries until the back-fill is written.
ChannelOK(id) ==
  LET r == replica[id]
      k == socket[id]
  IN  /\ r.baseline <= length /\ k.next <= r.baseline
      /\ Below(k.ch, length)
      /\ id \notin dropped =>
           /\ r.baseline + Len(k.ch) <= length
           /\ k.next < r.baseline => r.baseline + Len(k.ch) = length
           /\ From(k.ch, length - Len(k.ch))

\* The phone holds what the writer sent; if it asked for all, every entry it was sent is
\* acknowledged or its ack is on the way, in order.
LinkOK(o, id) ==
  /\ id \in Remote /\ replica[id].owner = o
  /\ id \notin dropped => Cursor(id) <= phone[o]
  /\ id \notin dropped /\ socket[id].since = 0 =>
       Answers(socket[id].acks, replica[id].acked, Cursor(id))

ClusterInv ==
  /\ ClusterTypeOK
  /\ LocalCopiesAgree
  /\ \A o \in Owner : phone[o] <= length
  /\ \A id \in Id \ Remote : socket[id] = NoSocket
  /\ \A id \in Id : id >= nextID => metered[id] = 0
  /\ \A id \in Remote : MeterOK(id) /\ ChannelOK(id)
  /\ \A o \in Owner, id \in Id : link[o] = id => LinkOK(o, id)

LEMMA ReplicaFields ==
  ASSUME ClusterTypeOK, NEW id \in Live
  PROVE  /\ id \in Id /\ id < nextID
         /\ replica[id].owner \in Owner \cup {NoOwner} /\ replica[id].remote \in BOOLEAN
         /\ replica[id].copy \in Nat /\ replica[id].baseline \in Nat
         /\ replica[id].acked \in Nat /\ replica[id].pending \in Nat
         /\ replica[id].lifetime \in Nat
BY ClusterAssumption DEF ClusterTypeOK, Replica, Id

LEMMA SocketFields ==
  ASSUME ClusterTypeOK, NEW id \in Id
  PROVE  /\ socket[id].since \in Nat /\ socket[id].next \in Nat
         /\ socket[id].ch \in Seq(Nat) /\ socket[id].acks \in Seq(Nat)
         /\ Len(socket[id].ch) \in Nat /\ Len(socket[id].acks) \in Nat
BY DEF ClusterTypeOK, Socket

LEMMA CursorNat ==
  ASSUME ClusterInv, NEW id \in Remote, id \notin dropped
  PROVE  Cursor(id) \in Nat
<1>1. ClusterTypeOK /\ ChannelOK(id) /\ id \in Live
  BY DEF ClusterInv, Remote
<1>2. /\ length \in Nat /\ replica[id].baseline \in Nat
      /\ socket[id].next \in Nat /\ Len(socket[id].ch) \in Nat
  BY <1>1, ReplicaFields, SocketFields DEF ClusterTypeOK
<1> QED
  BY <1>1, <1>2 DEF Cursor, ChannelOK

LEMMA InitCluster == Init => ClusterInv
<1> SUFFICES ASSUME Init PROVE ClusterInv
  OBVIOUS
<1>1. Live = {} /\ Remote = {}
  BY DEF Init, Live, Remote
<1>2. NoSocket \in Socket
  BY DEF NoSocket, Socket
<1>3. NoLink \notin Live
  BY <1>1
<1>4. ClusterTypeOK
  BY <1>1, <1>2, ClusterAssumption DEF Init, ClusterTypeOK, Id, NoLink
<1> QED
  BY <1>1, <1>4, ClusterAssumption DEF Init, ClusterInv, LocalCopiesAgree, Id, NoLink

(***************************************************************************)
(* A step that leaves a node, its socket or a link alone.                  *)
(***************************************************************************)
LEMMA UntouchedNode ==
  ASSUME ClusterInv, NEW id \in Remote,
         id \in Live', replica'[id] = replica[id], socket'[id] = socket[id],
         metered'[id] = metered[id], length' = length,
         \A o \in Owner : phone'[o] \in Nat /\ phone'[o] >= phone[o],
         id \in dropped' <=> id \in dropped,
         id \in claimed' <=> id \in claimed
  PROVE  MeterOK(id)' /\ ChannelOK(id)'
<1>1. ClusterTypeOK /\ id \in Live /\ MeterOK(id) /\ ChannelOK(id)
  BY DEF ClusterInv, Remote
<1>2. id \in Id /\ replica[id].owner \in Owner
  BY <1>1, ReplicaFields DEF MeterOK
<1>3. /\ replica[id].acked \in Nat /\ socket[id].acks \in Seq(Nat)
      /\ phone[replica[id].owner] \in Nat
      /\ phone'[replica[id].owner] \in Nat
      /\ phone'[replica[id].owner] >= phone[replica[id].owner]
  BY <1>1, <1>2, ReplicaFields, SocketFields DEF ClusterTypeOK
<1>4. id \notin claimed => Below(socket[id].acks, phone'[replica[id].owner])
  BY <1>1, <1>3, BelowMore DEF MeterOK
<1>5. MeterOK(id)'
  BY <1>1, <1>2, <1>3, <1>4 DEF MeterOK
<1>6. ChannelOK(id)'
  BY <1>1 DEF ChannelOK
<1> QED
  BY <1>5, <1>6

LEMMA UntouchedLink ==
  ASSUME ClusterInv, NEW o \in Owner, NEW id \in Id, link[o] = id,
         id \in Live', replica'[id] = replica[id], socket'[id] = socket[id],
         length' = length, phone'[o] = phone[o],
         id \in dropped' <=> id \in dropped
  PROVE  LinkOK(o, id)'
<1>1. LinkOK(o, id)
  BY DEF ClusterInv
<1>2. id \in Remote'
  BY <1>1 DEF LinkOK, Remote
<1> QED
  BY <1>1, <1>2 DEF LinkOK, Cursor

(***************************************************************************)
(* The operations of the cluster.                                          *)
(***************************************************************************)
LEMMA ReceiveFields ==
  ASSUME NEW r \in Replica, length \in Nat
  PROVE  /\ Receive(r) \in Replica
         /\ Receive(r).remote = r.remote /\ Receive(r).owner = r.owner
         /\ Accepts(r) => /\ Receive(r).copy = length + 1
                          /\ Receive(r).pending = r.pending + 1
         /\ ~Accepts(r) => Receive(r) = r
<1>1. ASSUME ~Accepts(r) PROVE Receive(r) = r
  BY <1>1 DEF Receive
<1>2. CASE Accepts(r)
  <2> DEFINE a == [r EXCEPT !.copy = r.copy + 1]
             b == [a EXCEPT !.pending = r.pending + 1]
             c == [b EXCEPT !.lifetime = r.lifetime + 1]
  <2>1. r.copy \in Nat /\ r.pending \in Nat /\ r.lifetime \in Nat /\ r.copy = length
    BY <1>2 DEF Replica, Accepts
  <2>2. /\ a \in Replica /\ a.copy = length + 1
        /\ a.remote = r.remote /\ a.owner = r.owner
    BY <2>1 DEF Replica
  <2> HIDE DEF a
  <2>3. /\ b \in Replica /\ b.copy = length + 1 /\ b.pending = r.pending + 1
        /\ b.remote = r.remote /\ b.owner = r.owner
    BY <2>1, <2>2 DEF Replica
  <2> HIDE DEF b
  <2>4. /\ c \in Replica /\ c.copy = length + 1 /\ c.pending = r.pending + 1
        /\ c.remote = r.remote /\ c.owner = r.owner
    BY <2>1, <2>3 DEF Replica
  <2>5. c = Receive(r)
    BY <1>2 DEF Receive, a, b
  <2> QED
    BY <1>2, <2>4, <2>5
<1> QED
  BY <1>1, <1>2

LEMMA PushFields ==
  ASSUME NEW k \in Socket, NEW n \in Nat
  PROVE  LET p == [k EXCEPT !.ch = Append(@, n)]
         IN  /\ p \in Socket
             /\ p.since = k.since /\ p.next = k.next /\ p.acks = k.acks
             /\ p.ch = Append(k.ch, n) /\ Len(p.ch) = Len(k.ch) + 1
<1>1. k.ch \in Seq(Nat)
  BY DEF Socket
<1>2. Append(k.ch, n) \in Seq(Nat) /\ Len(Append(k.ch, n)) = Len(k.ch) + 1
  BY <1>1, AppendProperties
<1> QED
  BY <1>2 DEF Socket

LEMMA AppendStep ==
  ASSUME ClusterInv, AppendPayment
  PROVE  ClusterInv'
<1>1. ClusterTypeOK /\ length \in Nat /\ Cap \in Nat
  BY ClusterAssumption DEF ClusterInv, ClusterTypeOK
<1>2. /\ length' = length + 1
      /\ replica' = [id \in Live |-> Receive(replica[id])]
      /\ socket' = [id \in Id |->
           IF id \in Remote /\ ~Full(id)
           THEN [socket[id] EXCEPT !.ch = Append(@, length)] ELSE socket[id]]
      /\ dropped' = dropped \cup {id \in Remote : Full(id)}
      /\ metered' = [id \in Id |->
           IF id \in Live /\ Accepts(replica[id]) THEN metered[id] + 1 ELSE metered[id]]
      /\ UNCHANGED <<nextID, phone, link, claimed>>
  BY DEF AppendPayment
<1>3. Live' = Live
  BY <1>2 DEF Live
<1>4. ASSUME NEW id \in Live
      PROVE  /\ replica'[id] = Receive(replica[id])
             /\ replica'[id] \in Replica
             /\ replica'[id].remote = replica[id].remote
             /\ replica[id].remote => replica'[id] = replica[id]
             /\ ~replica[id].remote => replica'[id].copy = length'
  <2>1. replica[id] \in Replica /\ replica'[id] = Receive(replica[id])
    BY <1>1, <1>2 DEF ClusterTypeOK
  <2>2. ~replica[id].remote => replica[id].copy = length
    BY DEF ClusterInv, LocalCopiesAgree
  <2>3. replica[id].remote => ~Accepts(replica[id])
    BY DEF Accepts
  <2>4. ~replica[id].remote => Accepts(replica[id])
    BY <2>2 DEF Accepts
  <2>5. length' = length + 1
    BY <1>2
  <2> QED
    BY <1>1, <2>1, <2>3, <2>4, <2>5, ReceiveFields
<1>5. Remote' = Remote
  BY <1>3, <1>4 DEF Remote
<1>6. ASSUME NEW id \in Id, ~(id \in Remote /\ ~Full(id))
      PROVE  socket'[id] = socket[id]
  BY <1>2, <1>6
<1>7. ASSUME NEW id \in Remote, ~Full(id)
      PROVE  /\ socket'[id] \in Socket
             /\ socket'[id].since = socket[id].since /\ socket'[id].next = socket[id].next
             /\ socket'[id].acks = socket[id].acks
             /\ socket'[id].ch = Append(socket[id].ch, length)
             /\ Len(socket'[id].ch) = Len(socket[id].ch) + 1
  <2>1. id \in Id
    BY <1>1, ReplicaFields DEF Remote
  <2>2. socket[id] \in Socket
    BY <1>1, <2>1 DEF ClusterTypeOK
  <2>3. socket'[id] = [socket[id] EXCEPT !.ch = Append(@, length)]
    BY <1>2, <1>7, <2>1
  <2> QED
    BY <1>1, <2>2, <2>3, PushFields
<1>8. \A id \in Remote : id \in dropped' <=> id \in dropped \/ Full(id)
  BY <1>2
<1>9. ClusterTypeOK'
  <2>1. metered' \in [Id -> Nat]
    BY <1>1, <1>2 DEF ClusterTypeOK
  <2>2. socket' \in [Id -> Socket]
    BY <1>1, <1>2, <1>6, <1>7 DEF ClusterTypeOK
  <2>3. /\ length' \in Nat /\ UNCHANGED <<nextID, phone, link>>
        /\ dropped' \subseteq Remote' /\ claimed' \subseteq Remote'
    BY <1>1, <1>2, <1>5 DEF ClusterTypeOK
  <2> QED
    BY <1>1, <1>3, <1>4, <2>1, <2>2, <2>3 DEF ClusterTypeOK
<1>10. LocalCopiesAgree'
  BY <1>3, <1>4 DEF LocalCopiesAgree
<1>11. length' = length + 1 /\ UNCHANGED <<nextID, phone, link, claimed>>
  BY <1>2
<1>12. ASSUME NEW id \in Remote PROVE MeterOK(id)' /\ ChannelOK(id)'
  <2>1. /\ id \in Live /\ id \in Id /\ replica'[id] = replica[id]
        /\ ~Accepts(replica[id]) /\ replica[id].baseline \in Nat
    BY <1>1, <1>4, ReplicaFields DEF Remote, Accepts
  <2>2. MeterOK(id) /\ ChannelOK(id)
    BY DEF ClusterInv
  <2>3. metered'[id] = metered[id]
    BY <1>2, <2>1
  <2>4. socket'[id].acks = socket[id].acks /\ socket'[id].next = socket[id].next
    BY <1>6, <1>7, <2>1
  <2>5. MeterOK(id)'
    BY <1>11, <2>1, <2>2, <2>3, <2>4 DEF MeterOK
  <2>6. /\ socket[id].ch \in Seq(Nat) /\ Len(socket[id].ch) \in Nat
        /\ socket[id].next \in Nat
    BY <1>1, <2>1, SocketFields
  <2>9. Below(socket[id].ch, length + 1) /\ replica[id].baseline <= length'
    <3>1. Below(socket[id].ch, length) /\ replica[id].baseline <= length
      BY <2>2 DEF ChannelOK
    <3>2. length + 1 \in Nat /\ length <= length + 1
      BY <1>1
    <3>3. Below(socket[id].ch, length + 1)
      BY <1>1, <2>6, <3>1, <3>2, BelowMore
    <3> QED
      BY <1>1, <1>11, <2>1, <3>1, <3>3
  <2>7. CASE Full(id)
    <3>1. id \in dropped' /\ socket'[id] = socket[id]
      BY <1>6, <1>8, <2>1, <2>7
    <3> QED
      BY <1>11, <2>1, <2>2, <2>5, <2>9, <3>1 DEF ChannelOK
  <2>8. CASE ~Full(id)
    <3>1. /\ socket'[id].ch = Append(socket[id].ch, length)
          /\ Len(socket'[id].ch) = Len(socket[id].ch) + 1
          /\ id \in dropped' <=> id \in dropped
      BY <1>7, <1>8, <2>8
    <3>2. Below(socket'[id].ch, length + 1)
      BY <1>1, <2>6, <2>9, <3>1, BelowAppend
    <3>3. ASSUME id \notin dropped
          PROVE  From(socket'[id].ch, length - Len(socket[id].ch))
      <4>1. length - Len(socket[id].ch) \in Nat
        BY <1>1, <2>1, <2>2, <2>6, <3>3 DEF ChannelOK
      <4>2. From(socket[id].ch, length - Len(socket[id].ch))
        BY <2>2, <3>3 DEF ChannelOK
      <4>3. (length - Len(socket[id].ch)) + Len(socket[id].ch) = length
        BY <1>1, <2>6
      <4> QED
        BY <2>6, <3>1, <4>1, <4>2, <4>3, FromAppend
    <3>4. (length + 1) - (Len(socket[id].ch) + 1) = length - Len(socket[id].ch)
      BY <1>1, <2>6
    <3> QED
      BY <1>1, <1>11, <2>1, <2>2, <2>4, <2>5, <2>6, <2>9, <3>1, <3>2, <3>3, <3>4, SMTT(30) DEF ChannelOK
  <2> QED
    BY <2>5, <2>7, <2>8
<1>13. ASSUME NEW o \in Owner, NEW id \in Id, link'[o] = id PROVE LinkOK(o, id)'
  <2>1. LinkOK(o, id)
    BY <1>11, <1>13 DEF ClusterInv
  <2>2. id \in Remote /\ id \in Live /\ replica'[id] = replica[id]
    BY <1>1, <1>4, <2>1, ReplicaFields DEF LinkOK, Remote
  <2>3. CASE Full(id)
    <3>1. id \in dropped'
      BY <1>8, <2>2, <2>3
    <3> QED
      BY <1>5, <2>1, <2>2, <3>1 DEF LinkOK
  <2>4. CASE ~Full(id)
    <3>1. /\ Len(socket'[id].ch) = Len(socket[id].ch) + 1
          /\ socket'[id].next = socket[id].next /\ socket'[id].since = socket[id].since
          /\ socket'[id].acks = socket[id].acks
          /\ id \in dropped' <=> id \in dropped
      BY <1>7, <1>8, <2>2, <2>4
    <3>2. Len(socket[id].ch) \in Nat
      BY <1>1, SocketFields
    <3>3. length' - Len(socket'[id].ch) = length - Len(socket[id].ch)
      BY <1>1, <1>11, <3>1, <3>2
    <3>4. Cursor(id)' = Cursor(id)
      BY <2>2, <3>1, <3>3 DEF Cursor
    <3> QED
      BY <1>5, <1>11, <2>1, <2>2, <3>1, <3>4 DEF LinkOK
  <2> QED
    BY <2>3, <2>4
<1>14. \A o \in Owner : phone'[o] <= length'
  BY <1>1, <1>11 DEF ClusterInv, ClusterTypeOK
<1>15. \A id \in Id \ Remote' : socket'[id] = NoSocket
  BY <1>5, <1>6 DEF ClusterInv
<1>16. \A id \in Id : id >= nextID' => metered'[id] = 0
  <2>1. \A id \in Id : id >= nextID => id \notin Live
    BY <1>1 DEF ClusterTypeOK, Id
  <2> QED
    BY <1>2, <2>1 DEF ClusterInv
<1> QED
  BY <1>5, <1>9, <1>10, <1>12, <1>13, <1>14, <1>15, <1>16 DEF ClusterInv

\* A new replica has a fresh id; the others stay as they are.
LEMMA RegisterNode ==
  ASSUME ClusterInv, NEW r \in Replica, Register(r)
  PROVE  /\ nextID \in Id /\ nextID \notin Live /\ nextID' = nextID + 1
         /\ nextID' \in 0 .. MaxNodes
         /\ Live' = Live \cup {nextID} /\ Live' \subseteq 0 .. (nextID' - 1)
         /\ replica'[nextID] = r /\ \A x \in Live : replica'[x] = replica[x]
         /\ \A x \in Live' : replica'[x] \in Replica
         /\ Remote' = Remote \cup (IF r.remote THEN {nextID} ELSE {})
<1>1. ClusterTypeOK
  BY DEF ClusterInv
<1>2. /\ nextID < MaxNodes /\ nextID' = nextID + 1
      /\ replica' = [id \in Live \cup {nextID} |-> IF id = nextID THEN r ELSE replica[id]]
  BY DEF Register
<1>3. nextID \in Nat /\ MaxNodes \in Nat /\ nextID \notin Live /\ Live \subseteq 0 .. (nextID - 1)
  BY <1>1, ClusterAssumption DEF ClusterTypeOK
<1>4. Live' = Live \cup {nextID}
  BY <1>2 DEF Live
<1>5. replica'[nextID] = r /\ \A x \in Live : replica'[x] = replica[x]
  BY <1>2, <1>3
<1>6. \A x \in Live : replica[x] \in Replica
  BY <1>1 DEF ClusterTypeOK
<1>7. Remote' = Remote \cup (IF r.remote THEN {nextID} ELSE {})
  BY <1>3, <1>4, <1>5 DEF Remote
<1>8. nextID \in Id /\ nextID' \in 0 .. MaxNodes /\ Live' \subseteq 0 .. (nextID' - 1)
  BY <1>2, <1>3, <1>4 DEF Id
<1> QED
  BY <1>2, <1>3, <1>4, <1>5, <1>6, <1>7, <1>8

LEMMA AddStep ==
  ASSUME ClusterInv, NEW o \in Owner \cup {NoOwner}, AddReplica(o)
  PROVE  ClusterInv'
<1> DEFINE r == [owner |-> o, remote |-> FALSE, copy |-> length, baseline |-> 0,
                 acked |-> 0, pending |-> 0, lifetime |-> length]
<1>1. ClusterTypeOK
  BY DEF ClusterInv
<1>2. Register(r) /\ UNCHANGED <<length, socket, phone, link, dropped, claimed, metered>>
  BY DEF AddReplica, BackFilled
<1>3. r \in Replica
  BY <1>1 DEF ClusterTypeOK, Replica
<1>4. /\ ~r.remote /\ r.copy = length
  OBVIOUS
<1> HIDE DEF r
<1>5. /\ nextID \in Id /\ nextID \notin Live /\ nextID' = nextID + 1
      /\ nextID' \in 0 .. MaxNodes
      /\ Live' = Live \cup {nextID} /\ Live' \subseteq 0 .. (nextID' - 1)
      /\ replica'[nextID] = r /\ \A x \in Live : replica'[x] = replica[x]
      /\ \A x \in Live' : replica'[x] \in Replica
      /\ Remote' = Remote
  BY <1>2, <1>3, <1>4, RegisterNode
<1>6. ClusterTypeOK'
  BY <1>1, <1>2, <1>5 DEF ClusterTypeOK
<1>7. LocalCopiesAgree'
  BY <1>2, <1>4, <1>5 DEF ClusterInv, LocalCopiesAgree
<1>8. \A x \in Owner : phone'[x] \in Nat /\ phone'[x] >= phone[x]
  BY <1>1, <1>2 DEF ClusterTypeOK
<1>9. ASSUME NEW id \in Remote PROVE MeterOK(id)' /\ ChannelOK(id)'
  <2>1. id \in Live
    BY DEF Remote
  <2> QED
    BY <1>2, <1>5, <1>8, <2>1, UntouchedNode
<1>10. ASSUME NEW x \in Owner, NEW id \in Id, link'[x] = id PROVE LinkOK(x, id)'
  <2>1. link[x] = id
    BY <1>2, <1>10
  <2>2. id \in Live
    BY <2>1 DEF ClusterInv, LinkOK, Remote
  <2> QED
    BY <1>2, <1>5, <2>1, <2>2, UntouchedLink
<1>11. \A id \in Id : id >= nextID' => metered'[id] = 0
  BY <1>1, <1>2, <1>5 DEF ClusterInv, ClusterTypeOK, Id
<1> QED
  BY <1>2, <1>5, <1>6, <1>7, <1>9, <1>10, <1>11 DEF ClusterInv

LEMMA ConnectStep ==
  ASSUME ClusterInv, NEW o \in Owner, NEW mode \in Reconnect, Connect(o, mode)
  PROVE  ClusterInv'
<1> DEFINE r == [owner |-> o, remote |-> TRUE, copy |-> 0, baseline |-> length,
                 acked |-> 0, pending |-> 0, lifetime |-> length]
           since == IF mode = "held" THEN phone[o] ELSE 0
           k == [since |-> since, next |-> since, ch |-> <<>>, acks |-> <<>>]
<1>1. ClusterTypeOK
  BY DEF ClusterInv
<1>2. /\ link[o] = NoLink /\ Register(r)
      /\ socket' = [socket EXCEPT ![nextID].since = since, ![nextID].next = since]
      /\ link' = [link EXCEPT ![o] = nextID]
      /\ UNCHANGED <<length, phone, dropped, claimed, metered>>
  BY DEF Connect, BackfillFrom
<1>3. r \in Replica /\ since \in Nat /\ since <= length /\ since <= phone[o]
  BY <1>1 DEF ClusterInv, ClusterTypeOK, Replica
<1>4. /\ r.remote /\ r.owner = o /\ r.baseline = length /\ r.acked = 0
  OBVIOUS
<1> HIDE DEF r, since
<1>5. /\ nextID \in Id /\ nextID \notin Live /\ nextID' = nextID + 1
      /\ nextID' \in 0 .. MaxNodes
      /\ Live' = Live \cup {nextID} /\ Live' \subseteq 0 .. (nextID' - 1)
      /\ replica'[nextID] = r /\ \A x \in Live : replica'[x] = replica[x]
      /\ \A x \in Live' : replica'[x] \in Replica
      /\ Remote' = Remote \cup {nextID}
  BY <1>2, <1>3, <1>4, RegisterNode
<1>6. /\ nextID \notin Remote /\ socket[nextID] = NoSocket
      /\ nextID \notin dropped /\ nextID \notin claimed /\ metered[nextID] = 0
  BY <1>1, <1>5 DEF ClusterInv, ClusterTypeOK, Remote, Id
<1>7. /\ socket'[nextID] = k
      /\ \A x \in Id \ {nextID} : socket'[x] = socket[x]
      /\ socket' \in [Id -> Socket]
  <2>1. socket \in [Id -> Socket] /\ nextID \in Id
    BY <1>1, <1>5 DEF ClusterTypeOK
  <2>2. socket[nextID].ch = <<>> /\ socket[nextID].acks = <<>>
    BY <1>6 DEF NoSocket
  <2>3. socket' = [socket EXCEPT ![nextID].since = since, ![nextID].next = since]
        /\ since \in Nat
    BY <1>2, <1>3
  <2> HIDE DEF k
  <2>4. k = [since |-> since, next |-> since, ch |-> socket[nextID].ch,
             acks |-> socket[nextID].acks]
    BY <2>2 DEF k
  <2> DEFINE g == [socket EXCEPT ![nextID].since = since, ![nextID].next = since]
  <2>5. /\ g \in [Id -> Socket] /\ g[nextID] = k
        /\ \A x \in Id \ {nextID} : g[x] = socket[x]
    BY <2>1, <2>3, <2>4 DEF Socket
  <2> QED
    BY <2>3, <2>5
<1>8. /\ k.since = since /\ k.next = since /\ k.ch = <<>> /\ k.acks = <<>> /\ k \in Socket
  BY <1>3 DEF Socket
<1> HIDE DEF k
<1>9. ClusterTypeOK'
  <2>1. socket' \in [Id -> Socket]
    BY <1>7
  <2>2. link' \in [Owner -> Id \cup {NoLink}]
    BY <1>1, <1>2, <1>5 DEF ClusterTypeOK
  <2> QED
    BY <1>1, <1>2, <1>5, <2>1, <2>2 DEF ClusterTypeOK
<1>10. LocalCopiesAgree'
  BY <1>2, <1>4, <1>5 DEF ClusterInv, LocalCopiesAgree
<1>11. \A x \in Owner : phone'[x] \in Nat /\ phone'[x] >= phone[x]
  BY <1>1, <1>2 DEF ClusterTypeOK
<1>12. ASSUME NEW id \in Remote PROVE MeterOK(id)' /\ ChannelOK(id)'
  <2>1. id \in Live /\ id \in Id
    BY <1>1, ReplicaFields DEF Remote
  <2> QED
    BY <1>2, <1>5, <1>7, <1>11, <2>1, UntouchedNode
<1>13. ASSUME NEW n \in Id, n = nextID
       PROVE  MeterOK(n)' /\ ChannelOK(n)' /\ LinkOK(o, n)'
  <2>1. Len(k.ch) = 0 /\ Len(k.acks) = 0 /\ length \in Nat /\ phone[o] \in Nat
    BY <1>1, <1>8 DEF ClusterTypeOK
  <2>2. \A i : Below(k.acks, i) /\ Below(k.ch, i) /\ From(k.acks, i) /\ From(k.ch, i)
    BY <2>1 DEF Below, From
  <2>3. /\ replica'[n] = r /\ socket'[n] = k /\ metered'[n] = 0
        /\ length' = length /\ phone'[o] = phone[o]
    BY <1>2, <1>5, <1>6, <1>7, <1>13
  <2>4. MeterOK(n)'
    BY <1>4, <2>1, <2>2, <2>3 DEF MeterOK
  <2>5. ChannelOK(n)'
    BY <1>3, <1>4, <1>8, <2>1, <2>2, <2>3 DEF ChannelOK
  <2>6. n \in Remote' /\ replica'[n].owner = o
    BY <1>4, <1>5, <1>13, <2>3
  <2>7. Cursor(n)' = since
    BY <1>3, <1>4, <1>8, <2>1, <2>3 DEF Cursor
  <2>9. Answers(k.acks, 0, 0)
    <3>1. [x \in 0 .. (0 - 1) |-> 1] \in [0 .. (0 - 1) -> 1 .. Len(k.acks)]
      OBVIOUS
    <3>2. \A x \in 0 .. (0 - 1) : FALSE
      OBVIOUS
    <3> QED
      BY <3>1, <3>2 DEF Answers
  <2>8. socket'[n].since = since /\ socket'[n].acks = <<>> /\ replica'[n].acked = 0
    BY <1>4, <1>8, <2>3
  <2> HIDE DEF k
  <2>10. LinkOK(o, n)'
    BY <1>3, <1>8, <2>1, <2>3, <2>6, <2>7, <2>8, <2>9 DEF LinkOK
  <2> QED
    BY <2>4, <2>5, <2>10
<1>14. ASSUME NEW x \in Owner, NEW id \in Id, link'[x] = id PROVE LinkOK(x, id)'
  <2>1. CASE x = o
    <3>1. id = nextID
      BY <1>1, <1>2, <1>14, <2>1 DEF ClusterTypeOK
    <3> QED
      BY <1>13, <2>1, <3>1
  <2>2. CASE x # o
    <3>1. link[x] = id
      BY <1>1, <1>2, <1>14, <2>2 DEF ClusterTypeOK
    <3>2. id \in Live
      BY <3>1 DEF ClusterInv, LinkOK, Remote
    <3> QED
      BY <1>2, <1>5, <1>7, <3>1, <3>2, UntouchedLink
  <2> QED
    BY <2>1, <2>2
<1>15. \A id \in Id : id >= nextID' => metered'[id] = 0
  BY <1>1, <1>2, <1>5 DEF ClusterInv, ClusterTypeOK, Id
<1>16. \A id \in Id \ Remote' : socket'[id] = NoSocket
  BY <1>5, <1>7 DEF ClusterInv
<1>17. ASSUME NEW id \in Remote' PROVE MeterOK(id)' /\ ChannelOK(id)'
  BY <1>5, <1>12, <1>13
<1>18. \A x \in Owner : phone'[x] <= length'
  BY <1>2 DEF ClusterInv
<1> QED
  BY <1>9, <1>10, <1>14, <1>15, <1>16, <1>17, <1>18 DEF ClusterInv

\* Acknowledging in order keeps the meter exact; the phone already holds the entry.
LEMMA AckStep ==
  ASSUME ClusterInv, NEW id \in Id, Ack(id)
  PROVE  ClusterInv'
<1> DEFINE seq == Head(socket[id].acks)
           r == replica[id]
           k == socket[id]
           unit == IF Meters(r, seq) THEN 1 ELSE 0
<1>1. ClusterTypeOK
  BY DEF ClusterInv
<1>2. /\ id \in Remote /\ id \in Live /\ k.acks # <<>>
      /\ socket' = [socket EXCEPT ![id].acks = Tail(@)]
      /\ UNCHANGED <<length, nextID, phone, link, dropped, claimed>>
  BY DEF Ack, Remote
<1>3. MeterOK(id) /\ ChannelOK(id) /\ r.owner \in Owner /\ phone[r.owner] \in Nat
  BY <1>1, <1>2 DEF ClusterInv, MeterOK, ClusterTypeOK
<1>4. /\ k.acks \in Seq(Nat) /\ r \in Replica
      /\ r.acked \in Nat /\ r.baseline \in Nat /\ metered[id] \in Nat
  BY <1>1, <1>2, ReplicaFields, SocketFields DEF ClusterTypeOK
<1>5. /\ seq \in Nat
      /\ id \notin claimed => seq < phone[r.owner] /\ Below(Tail(k.acks), phone[r.owner])
  <2>1. seq \in Nat
    BY <1>2, <1>4, HeadTailProperties
  <2> QED
    BY <1>2, <1>3, <1>4, <2>1, BelowTail DEF MeterOK
<1>6. /\ socket' \in [Id -> Socket]
      /\ socket'[id].since = k.since /\ socket'[id].next = k.next
      /\ socket'[id].ch = k.ch /\ socket'[id].acks = Tail(k.acks)
      /\ \A x \in Id \ {id} : socket'[x] = socket[x]
  <2>1. Tail(k.acks) \in Seq(Nat)
    BY <1>2, <1>4, HeadTailProperties
  <2> QED
    BY <1>1, <1>2, <2>1 DEF ClusterTypeOK, Socket
<1>7. /\ Live' = Live /\ replica'[id] \in Replica
      /\ replica'[id].owner = r.owner /\ replica'[id].remote = r.remote
      /\ replica'[id].baseline = r.baseline
      /\ \A x \in Live \ {id} : replica'[x] = replica[x]
      /\ \/ /\ seq # r.acked /\ replica'[id].acked = r.acked
            /\ metered' = metered
         \/ /\ seq = r.acked /\ replica'[id].acked = r.acked + 1
            /\ metered' = [metered EXCEPT ![id] = @ + unit]
  <2>1. CASE ~InOrder(r, seq) /\ UNCHANGED <<replica, metered>>
    BY <1>4, <2>1 DEF InOrder, Live
  <2>2. CASE /\ InOrder(r, seq)
             /\ replica' = [replica EXCEPT ![id].acked = @ + 1,
                                           ![id].pending = @ + unit,
                                           ![id].lifetime = @ + unit]
             /\ metered' = [metered EXCEPT ![id] = @ + unit]
    <3>1. unit \in Nat /\ r.pending \in Nat /\ r.lifetime \in Nat
      BY <1>4 DEF Replica
    <3> HIDE DEF unit
    <3>2. Live' = Live /\ \A x \in Live \ {id} : replica'[x] = replica[x]
      BY <2>2 DEF Live
    <3>3. replica'[id] = [r EXCEPT !.acked = @ + 1, !.pending = @ + unit, !.lifetime = @ + unit]
      BY <1>2, <2>2 DEF Live
    <3>4. /\ replica'[id] \in Replica /\ replica'[id].acked = r.acked + 1
          /\ replica'[id].owner = r.owner /\ replica'[id].remote = r.remote
          /\ replica'[id].baseline = r.baseline
      <4> DEFINE n == replica'[id]
      <4>1. r.acked + 1 \in Nat /\ r.pending + unit \in Nat /\ r.lifetime + unit \in Nat
        BY <1>4, <3>1, SMTT(30)
      <4> HIDE DEF r
      <4>2. n = [r EXCEPT !.acked = r.acked + 1, !.pending = r.pending + unit,
                          !.lifetime = r.lifetime + unit]
        BY <3>3
      <4> HIDE DEF n
      <4>3. /\ n \in Replica /\ n.acked = r.acked + 1 /\ n.owner = r.owner
            /\ n.remote = r.remote /\ n.baseline = r.baseline
        BY <1>4, <4>1, <4>2 DEF Replica
      <4> QED
        BY <4>3 DEF n
    <3> QED
      BY <2>2, <3>2, <3>4 DEF InOrder
  <2> QED
    BY <2>1, <2>2 DEF Ack
<1>8. Remote' = Remote
  BY <1>2, <1>7 DEF Remote
<1> HIDE DEF seq, k, r
<1>9. ClusterTypeOK'
  <2>1. metered' \in [Id -> Nat]
    BY <1>1, <1>7 DEF ClusterTypeOK
  <2>2. \A x \in Live' : replica'[x] \in Replica
    BY <1>1, <1>7 DEF ClusterTypeOK
  <2> QED
    BY <1>1, <1>2, <1>6, <1>7, <1>8, <2>1, <2>2 DEF ClusterTypeOK
<1>10. LocalCopiesAgree'
  <2>1. r.remote
    BY <1>2 DEF Remote, r
  <2> QED
    BY <1>2, <1>7, <2>1 DEF ClusterInv, LocalCopiesAgree
<1>11. MeterOK(id)' /\ ChannelOK(id)'
  <2>1. metered'[id] = IF seq = r.acked THEN metered[id] + unit ELSE metered[id]
    BY <1>1, <1>7 DEF ClusterTypeOK
  <2>2. metered[id] = IF r.acked > r.baseline THEN r.acked - r.baseline ELSE 0
    BY <1>3 DEF MeterOK, r
  <2>3. id \notin claimed => r.acked <= phone[r.owner]
    BY <1>3 DEF MeterOK, r
  <2>4. metered'[id] = IF replica'[id].acked > r.baseline
                       THEN replica'[id].acked - r.baseline ELSE 0
    BY <1>4, <1>5, <1>7, <2>1, <2>2 DEF Meters
  <2>5. id \notin claimed => replica'[id].acked <= phone[r.owner]
    BY <1>3, <1>4, <1>5, <1>7, <2>3
  <2>6. MeterOK(id)'
    BY <1>2, <1>3, <1>5, <1>6, <1>7, <2>4, <2>5 DEF MeterOK
  <2>7. ChannelOK(id)'
    BY <1>2, <1>3, <1>6, <1>7 DEF ChannelOK, r, k
  <2> QED
    BY <2>6, <2>7
<1>12. \A x \in Owner : phone'[x] \in Nat /\ phone'[x] >= phone[x]
  BY <1>1, <1>2 DEF ClusterTypeOK
<1>13. ASSUME NEW x \in Remote, x # id PROVE MeterOK(x)' /\ ChannelOK(x)'
  <2>1. x \in Live /\ x \in Id /\ metered'[x] = metered[x]
    BY <1>1, <1>7, <1>13, ReplicaFields DEF ClusterTypeOK, Remote
  <2> QED
    BY <1>2, <1>6, <1>7, <1>12, <1>13, <2>1, UntouchedNode
<1>14. ASSUME NEW o \in Owner, NEW x \in Id, link'[o] = x PROVE LinkOK(o, x)'
  <2>1. link[o] = x /\ LinkOK(o, x)
    BY <1>2, <1>14 DEF ClusterInv
  <2>2. x \in Live /\ x \in Remote'
    BY <1>8, <2>1 DEF LinkOK, Remote
  <2>3. CASE x # id
    BY <1>2, <1>6, <1>7, <2>1, <2>2, <2>3, UntouchedLink
  <2>4. CASE x = id
    <3>1. Cursor(id)' = Cursor(id)
      BY <1>2, <1>6, <1>7 DEF Cursor, r, k
    <3>2. ASSUME id \notin dropped, k.since = 0
          PROVE  Answers(Tail(k.acks), replica'[id].acked, Cursor(id))
      <4>1. Answers(k.acks, r.acked, Cursor(id))
        BY <2>1, <2>4, <3>2 DEF LinkOK, r, k
      <4>2. Cursor(id) \in Nat
        BY <1>1, <1>2, <3>2, CursorNat
      <4>3. replica'[id].acked = IF seq = r.acked THEN r.acked + 1 ELSE r.acked
        BY <1>7
      <4> QED
        BY <1>2, <1>4, <4>1, <4>2, <4>3, AnswersTail DEF seq, k
    <3> QED
      BY <1>2, <1>6, <1>7, <2>1, <2>2, <2>4, <3>1, <3>2 DEF LinkOK, r, k
  <2> QED
    BY <2>3, <2>4
<1>15. ASSUME NEW x \in Id, x >= nextID' PROVE metered'[x] = 0
  <2>1. id < nextID /\ nextID \in Nat
    BY <1>1, <1>2, ReplicaFields DEF ClusterTypeOK
  <2>2. x # id /\ metered[x] = 0
    BY <1>2, <1>15, <2>1 DEF ClusterInv, Id
  <2> QED
    BY <1>1, <1>7, <2>2 DEF ClusterTypeOK
<1>16. \A x \in Id \ Remote' : socket'[x] = NoSocket
  BY <1>2, <1>6, <1>8 DEF ClusterInv
<1>17. \A o \in Owner : phone'[o] <= length'
  BY <1>2 DEF ClusterInv
<1>18. \A x \in Remote' : MeterOK(x)' /\ ChannelOK(x)'
  BY <1>8, <1>11, <1>13
<1> QED
  BY <1>9, <1>10, <1>14, <1>15, <1>16, <1>17, <1>18 DEF ClusterInv

\* Killing a node leaves the others as they are.
LEMMA KillStep ==
  ASSUME ClusterInv, NEW id \in Id, KillReplica(id)
  PROVE  ClusterInv'
<1>1. ClusterTypeOK
  BY DEF ClusterInv
<1>2. /\ id \in Live /\ replica' = [x \in Live \ {id} |-> replica[x]]
      /\ socket' = [socket EXCEPT ![id] = NoSocket]
      /\ link' = [o \in Owner |-> IF link[o] = id THEN NoLink ELSE link[o]]
      /\ dropped' = dropped \ {id} /\ claimed' = claimed \ {id}
      /\ UNCHANGED <<length, nextID, phone, metered>>
  BY DEF KillReplica
<1>3. Live' = Live \ {id} /\ \A x \in Live' : replica'[x] = replica[x]
  BY <1>2 DEF Live
<1>4. Remote' = Remote \ {id}
  BY <1>3 DEF Remote
<1>5. /\ socket' \in [Id -> Socket] /\ socket'[id] = NoSocket
      /\ \A x \in Id \ {id} : socket'[x] = socket[x]
  <2>1. NoSocket \in Socket
    BY DEF NoSocket, Socket
  <2> QED
    BY <1>1, <1>2, <2>1 DEF ClusterTypeOK
<1>6. ASSUME NEW o \in Owner, NEW x \in Id, link'[o] = x
      PROVE  link[o] = x /\ x # id
  BY <1>2, <1>6, ClusterAssumption DEF Id, NoLink
<1>7. ClusterTypeOK'
  <2>1. link' \in [Owner -> Id \cup {NoLink}]
    BY <1>1, <1>2 DEF ClusterTypeOK
  <2> QED
    BY <1>1, <1>2, <1>3, <1>4, <1>5, <2>1 DEF ClusterTypeOK
<1>8. LocalCopiesAgree'
  BY <1>2, <1>3 DEF ClusterInv, LocalCopiesAgree
<1>9. \A x \in Owner : phone'[x] \in Nat /\ phone'[x] >= phone[x]
  BY <1>1, <1>2 DEF ClusterTypeOK
<1>10. ASSUME NEW x \in Remote' PROVE MeterOK(x)' /\ ChannelOK(x)'
  <2>1. x \in Remote /\ x # id /\ x \in Live' /\ x \in Id
    BY <1>1, <1>3, <1>4, ReplicaFields DEF Remote
  <2> QED
    BY <1>2, <1>3, <1>5, <1>9, <2>1, UntouchedNode
<1>11. ASSUME NEW o \in Owner, NEW x \in Id, link'[o] = x PROVE LinkOK(o, x)'
  <2>1. link[o] = x /\ x # id
    BY <1>6, <1>11
  <2>2. x \in Live'
    BY <1>3, <2>1 DEF ClusterInv, LinkOK, Remote
  <2> QED
    BY <1>2, <1>3, <1>5, <2>1, <2>2, UntouchedLink
<1>12. \A x \in Id : x >= nextID' => metered'[x] = 0
  BY <1>2 DEF ClusterInv
<1>13. \A x \in Id \ Remote' : socket'[x] = NoSocket
  BY <1>4, <1>5 DEF ClusterInv
<1>14. \A o \in Owner : phone'[o] <= length'
  BY <1>2 DEF ClusterInv
<1> QED
  BY <1>7, <1>8, <1>10, <1>11, <1>12, <1>13, <1>14 DEF ClusterInv

LEMMA DisconnectStep ==
  ASSUME ClusterInv, NEW o \in Owner, Disconnect(o)
  PROVE  ClusterInv'
<1>1. ClusterTypeOK
  BY DEF ClusterInv
<1>2. /\ link' = [link EXCEPT ![o] = NoLink]
      /\ UNCHANGED <<length, nextID, replica, socket, phone, dropped, claimed, metered>>
  BY DEF Disconnect
<1>3. Live' = Live /\ Remote' = Remote
  BY <1>2 DEF Live, Remote
<1>4. ClusterTypeOK'
  BY <1>1, <1>2, <1>3 DEF ClusterTypeOK
<1>5. \A x \in Owner : phone'[x] \in Nat /\ phone'[x] >= phone[x]
  BY <1>1, <1>2 DEF ClusterTypeOK
<1>6. ASSUME NEW x \in Remote' PROVE MeterOK(x)' /\ ChannelOK(x)'
  <2>1. x \in Remote /\ x \in Live'
    BY <1>3 DEF Remote
  <2> QED
    BY <1>2, <1>5, <2>1, UntouchedNode
<1>7. ASSUME NEW a \in Owner, NEW x \in Id, link'[a] = x PROVE LinkOK(a, x)'
  <2>1. link[a] = x
    BY <1>1, <1>2, <1>7, ClusterAssumption DEF ClusterTypeOK, Id, NoLink
  <2>2. x \in Live'
    BY <1>3, <2>1 DEF ClusterInv, LinkOK, Remote
  <2> QED
    BY <1>2, <2>1, <2>2, UntouchedLink
<1> QED
  BY <1>2, <1>3, <1>4, <1>6, <1>7 DEF ClusterInv, LocalCopiesAgree

\* A frame of the back-fill or of the channel: the phone stores the entry it lacks
\* and acknowledges every entry it holds.
LEMMA DeliverStep ==
  ASSUME ClusterInv, NEW o \in Owner, NEW id \in Id, link[o] = id, Deliver(o)
  PROVE  ClusterInv'
<1> DEFINE r == replica[id]
           k == socket[id]
           k1 == socket'[id]
           backfill == k.next < r.baseline
<1>1. ClusterTypeOK /\ id \in Remote /\ id \in Live /\ LinkOK(o, id)
  BY DEF ClusterInv, Deliver, Remote
<1>2. PICK seq \in Frames(id) :
        /\ phone' = [phone EXCEPT ![o] = IF seq = @ THEN @ + 1 ELSE @]
        /\ socket' = [socket EXCEPT
             ![id].next = IF backfill THEN @ + 1 ELSE @,
             ![id].ch = IF backfill THEN @ ELSE Tail(@),
             ![id].acks = IF seq <= phone[o] THEN Append(@, seq) ELSE @]
  BY DEF Deliver
<1>3. UNCHANGED <<length, nextID, replica, link, dropped, claimed, metered>>
  BY DEF Deliver
<1>4. MeterOK(id) /\ ChannelOK(id)
  BY <1>1 DEF ClusterInv
<1>5. /\ k.since \in Nat /\ k.next \in Nat /\ k.ch \in Seq(Nat) /\ k.acks \in Seq(Nat)
      /\ Len(k.ch) \in Nat /\ Len(k.acks) \in Nat
      /\ r.owner = o /\ r.acked \in Nat /\ r.baseline \in Nat
      /\ phone[o] \in Nat /\ phone[o] <= length /\ length \in Nat
  BY <1>1, ReplicaFields, SocketFields DEF ClusterInv, ClusterTypeOK, LinkOK
<1>6. \/ backfill /\ seq = k.next
      \/ ~backfill /\ k.ch # <<>> /\ seq = Head(k.ch)
  BY DEF Frames
<1>7. ~backfill => seq \in Nat /\ seq < length /\ Tail(k.ch) \in Seq(Nat)
  <2>1. CASE ~backfill
    BY <1>4, <1>5, <1>6, <2>1, BelowTail, HeadTailProperties DEF ChannelOK
  <2> QED
    BY <2>1
<1>8. seq \in Nat /\ seq < length
  BY <1>4, <1>5, <1>6, <1>7 DEF ChannelOK
<1>9. /\ socket' \in [Id -> Socket]
      /\ k1.since = k.since
      /\ k1.next = IF backfill THEN k.next + 1 ELSE k.next
      /\ k1.ch = IF backfill THEN k.ch ELSE Tail(k.ch)
      /\ k1.acks = IF seq <= phone[o] THEN Append(k.acks, seq) ELSE k.acks
      /\ \A x \in Id \ {id} : socket'[x] = socket[x]
  <2> DEFINE n == IF backfill THEN k.next + 1 ELSE k.next
             c == IF backfill THEN k.ch ELSE Tail(k.ch)
             a == IF seq <= phone[o] THEN Append(k.acks, seq) ELSE k.acks
  <2>1. n \in Nat /\ c \in Seq(Nat) /\ a \in Seq(Nat)
    BY <1>5, <1>7, <1>8, AppendProperties
  <2>2. socket' = [socket EXCEPT ![id].next = n, ![id].ch = c, ![id].acks = a]
    BY <1>2
  <2> HIDE DEF n, c, a
  <2>3. socket \in [Id -> Socket]
    BY <1>1 DEF ClusterTypeOK
  <2>4. /\ socket' \in [Id -> Socket]
        /\ socket'[id].since = socket[id].since /\ socket'[id].next = n
        /\ socket'[id].ch = c /\ socket'[id].acks = a
        /\ \A x \in Id \ {id} : socket'[x] = socket[x]
    BY <2>1, <2>2, <2>3 DEF Socket
  <2> QED
    BY <2>4 DEF n, c, a
<1>10. /\ phone' \in [Owner -> Nat]
       /\ phone'[o] = IF seq = phone[o] THEN phone[o] + 1 ELSE phone[o]
       /\ \A x \in Owner \ {o} : phone'[x] = phone[x]
  BY <1>1, <1>2, <1>5, SMTT(30) DEF ClusterTypeOK
<1>11. /\ phone'[o] >= phone[o] /\ phone'[o] <= length
       /\ seq <= phone[o] => seq < phone'[o]
  BY <1>5, <1>8, <1>10
<1> HIDE DEF r, k, k1, backfill
<1>12. Live' = Live /\ Remote' = Remote
  BY <1>3 DEF Live, Remote
<1>13. ClusterTypeOK'
  BY <1>1, <1>3, <1>9, <1>10, <1>12 DEF ClusterTypeOK
<1>14. LocalCopiesAgree'
  BY <1>3, <1>12 DEF ClusterInv, LocalCopiesAgree
<1>15. \A x \in Owner : phone'[x] \in Nat /\ phone'[x] >= phone[x] /\ phone'[x] <= length'
  BY <1>1, <1>3, <1>10, <1>11 DEF ClusterInv, ClusterTypeOK
<1>16. ASSUME NEW x \in Remote, x # id PROVE MeterOK(x)' /\ ChannelOK(x)'
  <2>1. x \in Live' /\ x \in Id
    BY <1>1, <1>12, ReplicaFields DEF Remote
  <2> QED
    BY <1>3, <1>9, <1>15, <1>16, <2>1, UntouchedNode
<1>17. MeterOK(id)'
  <2>1. id \notin claimed => Below(k.acks, phone'[o])
    BY <1>4, <1>5, <1>10, <1>11, BelowMore DEF MeterOK, r, k
  <2>2. id \notin claimed => Below(k1.acks, phone'[o])
    BY <1>5, <1>8, <1>9, <1>10, <1>11, <2>1, BelowAppend
  <2>3. id \notin claimed => r.acked <= phone'[o]
    BY <1>4, <1>5, <1>10, <1>11 DEF MeterOK, r
  <2> QED
    BY <1>3, <1>4, <1>5, <2>2, <2>3 DEF MeterOK, r, k1
<1>18. ChannelOK(id)' /\ (id \notin dropped => Cursor(id) = seq /\ Cursor(id)' = seq + 1)
  <2>1. /\ r.baseline <= length /\ k.next <= r.baseline /\ Below(k.ch, length)
        /\ id \notin dropped =>
             /\ r.baseline + Len(k.ch) <= length
             /\ k.next < r.baseline => r.baseline + Len(k.ch) = length
             /\ From(k.ch, length - Len(k.ch))
    BY <1>4 DEF ChannelOK, r, k
  <2>2. Cursor(id) = IF backfill THEN k.next ELSE length - Len(k.ch)
    BY DEF Cursor, backfill, k, r
  <2>3. Cursor(id)' = IF k1.next < r.baseline THEN k1.next ELSE length - Len(k1.ch)
    BY <1>3 DEF Cursor, k1, r
  <2>4. CASE backfill
    <3>1. k1.next = k.next + 1 /\ k1.ch = k.ch /\ seq = k.next /\ k.next < r.baseline
      BY <1>6, <1>9, <2>4 DEF backfill
    <3>2. ChannelOK(id)'
      <4>1. k1.next <= r.baseline /\ (k1.next < r.baseline => k.next < r.baseline)
        BY <1>5, <3>1
      <4> QED
        BY <1>3, <2>1, <3>1, <4>1 DEF ChannelOK, k1, r
    <3>3. ASSUME id \notin dropped PROVE Cursor(id) = seq /\ Cursor(id)' = seq + 1
      <4>1. length - Len(k.ch) = r.baseline
        <5>1. r.baseline + Len(k.ch) = length
          BY <2>1, <3>1, <3>3
        <5>2. r.baseline \in Nat /\ Len(k.ch) \in Nat
          BY <1>5
        <5> QED
          BY <5>1, <5>2
      <4> QED
        BY <1>5, <2>2, <2>3, <2>4, <3>1, <4>1
    <3> QED
      BY <3>2, <3>3
  <2>5. CASE ~backfill
    <3>1. /\ k1.next = k.next /\ k1.ch = Tail(k.ch) /\ seq = Head(k.ch) /\ k.ch # <<>>
          /\ k.next = r.baseline
      BY <1>5, <1>6, <1>9, <2>1, <2>5 DEF backfill
    <3>2. /\ Below(k1.ch, length) /\ Len(k1.ch) = Len(k.ch) - 1 /\ Len(k.ch) >= 1
      BY <1>5, <2>1, <3>1, BelowTail, HeadTailProperties
    <3>3. ASSUME id \notin dropped
          PROVE  /\ seq = length - Len(k.ch)
                 /\ From(k1.ch, length - Len(k1.ch))
      <4>1. length - Len(k.ch) \in Nat /\ From(k.ch, length - Len(k.ch))
        BY <1>5, <2>1, <3>3
      <4>2. /\ Head(k.ch) = length - Len(k.ch)
            /\ From(Tail(k.ch), (length - Len(k.ch)) + 1)
        BY <1>5, <3>1, <4>1, FromTail
      <4>3. (length - Len(k.ch)) + 1 = length - Len(k1.ch)
        BY <1>5, <3>2
      <4> QED
        BY <3>1, <4>2, <4>3
    <3>4. id \notin dropped => r.baseline + Len(k1.ch) <= length
      BY <1>5, <2>1, <3>2
    <3>5. ~(k1.next < r.baseline)
      BY <1>5, <3>1
    <3>6. ChannelOK(id)'
      BY <1>3, <2>1, <3>1, <3>2, <3>3, <3>4, <3>5 DEF ChannelOK, k1, r
    <3>7. ASSUME id \notin dropped PROVE Cursor(id) = seq /\ Cursor(id)' = seq + 1
      <4>1. Cursor(id) = seq
        BY <2>2, <2>5, <3>3, <3>7
      <4>2. seq = length - Len(k.ch)
        BY <3>3, <3>7
      <4>3. Cursor(id)' = length - Len(k1.ch)
        BY <2>3, <3>5
      <4>4. Len(k1.ch) = Len(k.ch) - 1 /\ Len(k.ch) \in Nat /\ length \in Nat
        BY <1>5, <3>2
      <4>5. length - Len(k1.ch) = (length - Len(k.ch)) + 1
        BY <4>4
      <4> QED
        BY <4>1, <4>2, <4>3, <4>5
    <3> QED
      BY <3>6, <3>7
  <2> QED
    BY <2>4, <2>5
<1>19. LinkOK(o, id)'
  <2>1. /\ id \notin dropped => Cursor(id) <= phone[o]
        /\ id \notin dropped /\ k.since = 0 => Answers(k.acks, r.acked, Cursor(id))
    BY <1>1 DEF LinkOK, r, k
  <2>2. ASSUME id \notin dropped
        PROVE  seq <= phone[o] /\ Cursor(id)' <= phone'[o] /\ k1.acks = Append(k.acks, seq)
    BY <1>5, <1>8, <1>9, <1>10, <1>18, <2>1, <2>2
  <2>3. ASSUME id \notin dropped, k.since = 0
        PROVE  Answers(k1.acks, r.acked, Cursor(id)')
    BY <1>5, <1>8, <1>18, <2>1, <2>2, <2>3, AnswersAppend
  <2> QED
    BY <1>1, <1>3, <1>5, <1>9, <1>12, <2>2, <2>3 DEF LinkOK, r, k1
<1>20. ASSUME NEW a \in Owner, NEW x \in Id, link'[a] = x PROVE LinkOK(a, x)'
  <2>1. link[a] = x /\ LinkOK(a, x)
    BY <1>3, <1>20 DEF ClusterInv
  <2>2. CASE a = o
    BY <1>19, <2>1, <2>2
  <2>3. CASE a # o
    <3>1. x # id
      BY <1>1, <2>1, <2>3 DEF LinkOK
    <3>2. x \in Live'
      BY <1>12, <2>1 DEF LinkOK, Remote
    <3> QED
      BY <1>3, <1>9, <1>10, <2>1, <2>3, <3>1, <3>2, UntouchedLink
  <2> QED
    BY <2>2, <2>3
<1>21. \A x \in Id : x >= nextID' => metered'[x] = 0
  BY <1>3 DEF ClusterInv
<1>22. \A x \in Id \ Remote' : socket'[x] = NoSocket
  BY <1>1, <1>9, <1>12 DEF ClusterInv
<1>23. \A x \in Remote' : MeterOK(x)' /\ ChannelOK(x)'
  BY <1>12, <1>16, <1>17, <1>18
<1> QED
  BY <1>13, <1>14, <1>15, <1>20, <1>21, <1>22, <1>23 DEF ClusterInv

\* An ack of the phone's choice goes behind those on the way; if it is of an entry the
\* phone lacks, its id is among the claimed.
LEMMA ClaimStep ==
  ASSUME ClusterInv, NEW o \in Owner, NEW seq \in Nat, NEW id \in Id, link[o] = id,
         Claim(o, seq)
  PROVE  ClusterInv'
<1> DEFINE r == replica[id]
           k == socket[id]
           k1 == socket'[id]
<1>1. ClusterTypeOK /\ id \in Remote /\ id \in Live /\ LinkOK(o, id)
  BY DEF ClusterInv, Claim, Remote
<1>2. /\ socket' = [socket EXCEPT ![id].acks = Append(@, seq)]
      /\ claimed' = IF seq < phone[o] THEN claimed ELSE claimed \cup {id}
      /\ UNCHANGED <<length, nextID, replica, phone, link, dropped, metered>>
  BY DEF Claim
<1>3. MeterOK(id) /\ ChannelOK(id)
  BY <1>1 DEF ClusterInv
<1>4. /\ k.acks \in Seq(Nat) /\ Append(k.acks, seq) \in Seq(Nat)
      /\ r.owner = o /\ r.acked \in Nat /\ phone[o] \in Nat
  BY <1>1, ReplicaFields, SocketFields, AppendProperties DEF ClusterTypeOK, LinkOK
<1>5. /\ socket' \in [Id -> Socket]
      /\ k1.since = k.since /\ k1.next = k.next /\ k1.ch = k.ch
      /\ k1.acks = Append(k.acks, seq)
      /\ \A x \in Id \ {id} : socket'[x] = socket[x]
  BY <1>1, <1>2, <1>4 DEF ClusterTypeOK, Socket
<1>6. /\ Live' = Live /\ Remote' = Remote /\ claimed' \subseteq Remote
      /\ \A x \in Id \ {id} : x \in claimed' <=> x \in claimed
  BY <1>1, <1>2 DEF Live, Remote, ClusterTypeOK
<1> HIDE DEF r, k, k1
<1>7. ClusterTypeOK'
  BY <1>1, <1>2, <1>5, <1>6 DEF ClusterTypeOK
<1>8. LocalCopiesAgree'
  BY <1>2, <1>6 DEF ClusterInv, LocalCopiesAgree
<1>9. \A x \in Owner : phone'[x] \in Nat /\ phone'[x] >= phone[x]
  BY <1>1, <1>2 DEF ClusterTypeOK
<1>10. ASSUME NEW x \in Remote, x # id PROVE MeterOK(x)' /\ ChannelOK(x)'
  <2>1. x \in Live' /\ x \in Id
    BY <1>1, <1>6, ReplicaFields DEF Remote
  <2> QED
    BY <1>2, <1>5, <1>6, <1>9, <1>10, <2>1, UntouchedNode
<1>11. MeterOK(id)' /\ ChannelOK(id)' /\ Cursor(id)' = Cursor(id)
  <2>1. ASSUME id \notin claimed'
        PROVE  r.acked <= phone[o] /\ Below(k1.acks, phone[o])
    <3>1. seq < phone[o] /\ id \notin claimed
      BY <1>2, <2>1
    <3>2. r.acked <= phone[o] /\ Below(k.acks, phone[o])
      BY <1>3, <1>4, <3>1 DEF MeterOK, r, k
    <3> QED
      BY <1>4, <1>5, <3>1, <3>2, BelowAppend
  <2>2. MeterOK(id)'
    BY <1>2, <1>3, <1>4, <2>1 DEF MeterOK, r, k1
  <2>3. ChannelOK(id)' /\ Cursor(id)' = Cursor(id)
    BY <1>2, <1>3, <1>5 DEF ChannelOK, Cursor, k, k1
  <2> QED
    BY <2>2, <2>3
<1>12. LinkOK(o, id)'
  <2>1. ASSUME id \notin dropped, k.since = 0 PROVE Answers(k1.acks, r.acked, Cursor(id))
    <3>1. Answers(k.acks, r.acked, Cursor(id)) /\ Cursor(id) \in Nat
      BY <1>1, <2>1, CursorNat DEF LinkOK, r, k
    <3> QED
      BY <1>4, <1>5, <3>1, AnswersAppend
  <2> QED
    BY <1>1, <1>2, <1>5, <1>6, <1>11, <2>1 DEF LinkOK, r, k1
<1>13. ASSUME NEW a \in Owner, NEW x \in Id, link'[a] = x PROVE LinkOK(a, x)'
  <2>1. link[a] = x /\ LinkOK(a, x)
    BY <1>2, <1>13 DEF ClusterInv
  <2>2. CASE a = o
    BY <1>12, <2>1, <2>2
  <2>3. CASE a # o
    <3>1. x # id /\ x \in Live'
      BY <1>1, <1>6, <2>1, <2>3 DEF LinkOK, Remote
    <3> QED
      BY <1>2, <1>5, <1>6, <2>1, <3>1, UntouchedLink
  <2> QED
    BY <2>2, <2>3
<1>14. \A x \in Remote' : MeterOK(x)' /\ ChannelOK(x)'
  BY <1>6, <1>10, <1>11
<1>15. /\ \A x \in Owner : phone'[x] <= length'
       /\ \A x \in Id : x >= nextID' => metered'[x] = 0
  BY <1>2 DEF ClusterInv
<1>16. \A x \in Id \ Remote' : socket'[x] = NoSocket
  BY <1>1, <1>5, <1>6 DEF ClusterInv
<1> QED
  BY <1>7, <1>8, <1>13, <1>14, <1>15, <1>16 DEF ClusterInv

LEMMA ClusterStepOK == ClusterInv /\ [ClusterStep]_cluster => ClusterInv'
<1> SUFFICES ASSUME ClusterInv, [ClusterStep]_cluster PROVE ClusterInv'
  OBVIOUS
<1>1. CASE AppendPayment
  BY <1>1, AppendStep
<1>2. CASE \E o \in Owner \cup {NoOwner} : AddReplica(o)
  BY <1>2, AddStep
<1>3. CASE \E o \in Owner, mode \in Reconnect : Connect(o, mode)
  BY <1>3, ConnectStep
<1>4. ASSUME NEW o \in Owner, Deliver(o) PROVE ClusterInv'
  <2>1. PICK id \in Live : link[o] = id
    BY <1>4 DEF Deliver, Remote
  <2>2. id \in Id
    BY <2>1, ReplicaFields DEF ClusterInv
  <2> QED
    BY <1>4, <2>1, <2>2, DeliverStep
<1>5. CASE \E o \in Owner : Disconnect(o)
  BY <1>5, DisconnectStep
<1>6. CASE \E id \in Id : Ack(id)
  BY <1>6, AckStep
<1>7. CASE \E id \in Id : KillReplica(id)
  BY <1>7, KillStep
<1>8. ASSUME NEW o \in Owner, NEW seq \in 0 .. MaxLength, Claim(o, seq) PROVE ClusterInv'
  <2>1. PICK id \in Live : link[o] = id
    BY <1>8 DEF Claim, Remote
  <2>2. id \in Id /\ seq \in Nat
    BY <2>1, ReplicaFields, ClusterAssumption DEF ClusterInv
  <2> QED
    BY <1>8, <2>1, <2>2, ClaimStep
<1>9. CASE UNCHANGED cluster
  BY <1>9 DEF cluster, ClusterInv, ClusterTypeOK, LocalCopiesAgree, MeterOK, ChannelOK,
    LinkOK, Cursor, Live, Remote
<1> QED
  BY <1>1, <1>2, <1>3, <1>4, <1>5, <1>6, <1>7, <1>8, <1>9 DEF ClusterStep

(***************************************************************************)
(* What the runs check.                                                    *)
(***************************************************************************)
\* The strengthened invariant holds of every execution of the cluster.
THEOREM ClusterInvariant == ClusterSpec => []ClusterInv
BY InitCluster, ClusterStepOK, PTL DEF ClusterSpec

\* Every variable keeps its type; a channel that overflowed belongs to a live phone.
THEOREM ClusterTypeCorrect == ClusterSpec => []ClusterTypeOK
<1>1. ClusterInv => ClusterTypeOK
  BY DEF ClusterInv
<1> QED
  BY <1>1, ClusterInvariant, PTL

\* Whatever is appended, added and killed, every in-process replica holds the chain.
THEOREM CopiesAgree == ClusterSpec => []LocalCopiesAgree
<1>1. ClusterInv => LocalCopiesAgree
  BY DEF ClusterInv
<1> QED
  BY <1>1, ClusterInvariant, PTL

\* AckWSReplica counts a number once on a connection and meters none of the back-fill,
\* whatever the phone sends; a phone that acknowledges only what it holds is metered only
\* for live entries it stored.
THEOREM MeteredIsStored == ClusterSpec => []TruthfulEarnsStored
<1>1. ASSUME ClusterInv, NEW id \in Remote
      PROVE  /\ CountedOnce(replica[id], metered[id])
             /\ id \notin claimed => replica[id].acked <= phone[replica[id].owner]
  <2>1. MeterOK(id) /\ id \in Live /\ ClusterTypeOK
    BY <1>1 DEF ClusterInv, Remote
  <2>2. replica[id].acked \in Nat /\ replica[id].baseline \in Nat
    BY <2>1, ReplicaFields
  <2> QED
    BY <2>1, <2>2 DEF MeterOK, CountedOnce
<1>2. ClusterInv => TruthfulEarnsStored
  BY <1>1 DEF TruthfulEarnsStored
<1> QED
  BY <1>2, ClusterInvariant, PTL

LEMMA FramesCursor ==
  ASSUME ClusterInv, NEW id \in Remote, id \notin dropped
  PROVE  /\ \A seq \in Frames(id) : seq = Cursor(id)
         /\ Frames(id) = {} => Cursor(id) = length
<1>1. ClusterTypeOK /\ ChannelOK(id)
  BY DEF ClusterInv
<1>2. id \in Live /\ id \in Id /\ length \in Nat
  BY <1>1, ReplicaFields DEF Remote, ClusterTypeOK
<1>3. socket[id].ch \in Seq(Nat) /\ Len(socket[id].ch) \in Nat /\ Len(<<>>) = 0
  BY <1>1, <1>2, SocketFields
<1>4. CASE socket[id].next < replica[id].baseline
  BY <1>4 DEF Frames, Cursor
<1>5. CASE ~(socket[id].next < replica[id].baseline) /\ socket[id].ch = <<>>
  BY <1>2, <1>3, <1>5 DEF Frames, Cursor
<1>6. CASE ~(socket[id].next < replica[id].baseline) /\ socket[id].ch # <<>>
  <2>1. From(socket[id].ch, length - Len(socket[id].ch)) /\ length - Len(socket[id].ch) \in Nat
    <3>1. replica[id].baseline + Len(socket[id].ch) <= length /\ replica[id].baseline \in Nat
      BY <1>1, <1>2, ReplicaFields DEF ChannelOK
    <3>2. length - Len(socket[id].ch) \in Nat
      BY <1>2, <1>3, <3>1
    <3> QED
      BY <1>1, <3>2 DEF ChannelOK
  <2>2. Head(socket[id].ch) = length - Len(socket[id].ch)
    BY <1>3, <1>6, <2>1, FromTail
  <2> QED
    BY <1>6, <2>2 DEF Frames, Cursor
<1> QED
  BY <1>4, <1>5, <1>6

\* Between back-fill and live entries there is no gap: the next frame is one the
\* phone holds or the next it lacks, and with none left it holds the chain.
THEOREM CatchesUp == ClusterSpec => []PhoneCatchesUp
<1>1. ASSUME ClusterInv, NEW o \in Owner, link[o] \in Remote, link[o] \notin dropped
      PROVE  /\ \A seq \in Frames(link[o]) : seq <= phone[o]
             /\ Frames(link[o]) = {} => phone[o] = length
  <2>1. PICK id \in Remote : id = link[o]
    BY <1>1
  <2>2. ClusterTypeOK /\ phone[o] <= length /\ phone[o] \in Nat /\ length \in Nat
    BY <1>1 DEF ClusterInv, ClusterTypeOK
  <2>3. id \in Id
    BY <2>1, <2>2, ReplicaFields DEF Remote
  <2>4. Cursor(id) <= phone[o]
    BY <1>1, <2>1, <2>3 DEF ClusterInv, LinkOK
  <2>5. /\ \A seq \in Frames(id) : seq = Cursor(id)
        /\ Frames(id) = {} => Cursor(id) = length
    BY <1>1, <2>1, FramesCursor
  <2>6. Frames(id) = {} => phone[o] = length
    BY <2>2, <2>4, <2>5
  <2> QED
    BY <2>1, <2>4, <2>5, <2>6
<1>2. ClusterInv => PhoneCatchesUp
  BY <1>1 DEF PhoneCatchesUp
<1> QED
  BY <1>2, ClusterInvariant, PTL

\* With nothing in flight, acked is what a phone that asked for the whole chain holds.
THEOREM AckedIsLength == ClusterSpec => []AckedIsPhoneLength
<1>1. ASSUME ClusterInv, NEW o \in Owner, InOrderPhones(o), Quiet(o)
      PROVE  replica[link[o]].acked = phone[o]
  <2>1. PICK id \in Remote : id = link[o] /\ id \notin dropped /\ id \notin claimed
    BY <1>1 DEF InOrderPhones
  <2>2. ClusterTypeOK /\ phone[o] <= length /\ phone[o] \in Nat /\ length \in Nat
    BY <1>1 DEF ClusterInv, ClusterTypeOK
  <2>3. id \in Id /\ replica[id].acked \in Nat
    BY <2>1, <2>2, ReplicaFields DEF Remote
  <2>4. LinkOK(o, id) /\ socket[id].since = 0
    BY <1>1, <2>1, <2>3 DEF ClusterInv, InOrderPhones
  <2>5. Frames(id) = {} /\ socket[id].acks = <<>> /\ Len(<<>>) = 0
    BY <1>1, <2>1 DEF Quiet
  <2>6. Cursor(id) = length
    BY <1>1, <2>1, <2>5, FramesCursor
  <2>7. /\ Answers(<<>>, replica[id].acked, length) /\ length <= phone[o]
        /\ replica[id].owner = o
    BY <2>1, <2>4, <2>5, <2>6 DEF LinkOK
  <2>8. replica[id].acked <= phone[o]
    BY <1>1, <2>1, <2>7 DEF ClusterInv, MeterOK
  <2>9. ~(replica[id].acked < length)
    <3>1. ASSUME replica[id].acked < length PROVE FALSE
      <4>1. PICK pos \in [replica[id].acked .. (length - 1) -> 1 .. Len(<<>>)] : TRUE
        BY <2>7 DEF Answers
      <4>2. replica[id].acked \in replica[id].acked .. (length - 1)
        BY <2>2, <2>3, <3>1
      <4>3. pos[replica[id].acked] \in 1 .. 0
        BY <2>5, <4>1, <4>2
      <4> QED
        BY <4>3
    <3> QED
      BY <3>1
  <2> QED
    BY <2>1, <2>2, <2>3, <2>7, <2>8, <2>9
<1>2. ClusterInv => AckedIsPhoneLength
  BY <1>1 DEF AckedIsPhoneLength
<1> QED
  BY <1>2, ClusterInvariant, PTL
=============================================================================
