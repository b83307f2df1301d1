----------------------------- MODULE LedgerCluster -----------------------------
(***************************************************************************)
(* The gateway's ledger cluster: the anchor that authors entries, the      *)
(* in-process replicas, and the phones that replicate over a WebSocket and *)
(* acknowledge entries by their number.  The anchor is the only author, so an entry*)
(* is its sequence number and a copy of the chain is its length.           *)
(***************************************************************************)
EXTENDS Naturals, Sequences

CONSTANTS
  Owner,      \* users whose phones run nodes
  NoOwner,    \* owner of the infra replicas
  Cap,        \* capacity of the channel to a phone's socket writer
  Reconnect,  \* how phones connect: "all" asks for the chain, "held" sends ?since=
  MaxClaim,   \* bound: acks in flight, below which a phone may claim an entry
  MaxLength,  \* bound: entries
  MaxNodes    \* bound: replicas ever added

ASSUME ClusterAssumption ==
  /\ NoOwner \notin Owner
  /\ Cap \in Nat \ {0} /\ MaxClaim \in Nat /\ MaxLength \in Nat /\ MaxNodes \in Nat
  /\ Reconnect \subseteq {"all", "held"}

VARIABLES
  length,    \* entries of the anchor
  nextID,    \* id of the next replica
  replica,   \* the live replicas, by id
  socket,    \* per id: the frames for the phone and its acks in flight
  phone,     \* entries each owner's phone has verified and stored
  link,      \* the replica id a phone's socket belongs to, or NoLink
  dropped,   \* ghost: ids whose channel was full when an entry was pushed
  claimed,   \* ghost: ids whose phone acknowledged an entry it did not hold
  metered    \* ghost: units ever added to a replica's pending meter

cluster == <<length, nextID, replica, socket, phone, link, dropped, claimed, metered>>

Id == 0 .. (MaxNodes - 1)
NoLink == MaxNodes
Replica == [owner : Owner \cup {NoOwner}, remote : BOOLEAN, copy : Nat,
            baseline : Nat, acked : Nat, pending : Nat, lifetime : Nat]
\* since: where the back-fill was asked to start; next: the next entry of it to
\* write; ch: live entries; acks: from the phone.
Socket == [since : Nat, next : Nat, ch : Seq(Nat), acks : Seq(Nat)]
NoSocket == [since |-> 0, next |-> 0, ch |-> <<>>, acks |-> <<>>]

Live == DOMAIN replica
Remote == {id \in Live : replica[id].remote}

Init ==
  /\ length = 0
  /\ nextID = 0
  /\ replica = [id \in {} |-> id]
  /\ socket = [id \in Id |-> NoSocket]
  /\ phone = [o \in Owner |-> 0]
  /\ link = [o \in Owner |-> NoLink]
  /\ dropped = {}
  /\ claimed = {}
  /\ metered = [id \in Id |-> 0]

(***************************************************************************)
(* Cluster operations; each runs under Cluster.mu.                         *)
(***************************************************************************)
\* memNode.Receive: the next entry is stored, any other is refused.
Accepts(r) == ~r.remote /\ r.copy = length
Receive(r) ==
  IF Accepts(r)
  THEN [r EXCEPT !.copy = @ + 1, !.pending = @ + 1, !.lifetime = @ + 1]
  ELSE r

Full(id) == Len(socket[id].ch) = Cap

\* The anchor stores the entry, local replicas receive it, and it is pushed to
\* every phone's channel unless that is full.
AppendPayment ==
  /\ length < MaxLength
  /\ length' = length + 1
  /\ replica' = [id \in Live |-> Receive(replica[id])]
  /\ socket' = [id \in Id |->
       IF id \in Remote /\ ~Full(id)
       THEN [socket[id] EXCEPT !.ch = Append(@, length)] ELSE socket[id]]
  /\ dropped' = dropped \cup {id \in Remote : Full(id)}
  /\ metered' = [id \in Id |->
       IF id \in Live /\ Accepts(replica[id]) THEN metered[id] + 1 ELSE metered[id]]
  /\ UNCHANGED <<nextID, phone, link, claimed>>

\* The mutant forgets to advance nextID.
RegisterSameId(r) ==
  /\ nextID < MaxNodes
  /\ replica' = [id \in Live \cup {nextID} |-> IF id = nextID THEN r ELSE replica[id]]
  /\ UNCHANGED nextID

Register(r) ==
  /\ nextID < MaxNodes
  /\ replica' = [id \in Live \cup {nextID} |-> IF id = nextID THEN r ELSE replica[id]]
  /\ nextID' = nextID + 1

\* A fresh replica receives the anchor's entries; the mutant's starts empty.
Empty == 0
BackFilled == length

\* A local replica starts in sync; what it catches up on is not rewarded.
AddReplica(o) ==
  /\ Register([owner |-> o, remote |-> FALSE, copy |-> BackFilled, baseline |-> 0,
               acked |-> 0, pending |-> 0, lifetime |-> BackFilled])
  /\ UNCHANGED <<length, socket, phone, link, dropped, claimed, metered>>

\* The first entry the writer sends of a back-fill requested from since; the
\* mutant skips the entry at since.
SkipOne(since) == since + 1
BackfillFrom(since) == since

\* ledgerWS after the handshake: the phone is registered with AddWSReplica and
\* the writer starts on the back-fill.  The phone asks for all of the chain or
\* for what it does not hold yet.
Connect(o, mode) ==
  /\ link[o] = NoLink
  /\ Register([owner |-> o, remote |-> TRUE, copy |-> 0, baseline |-> length,
               acked |-> 0, pending |-> 0, lifetime |-> length])
  /\ \E since \in {IF mode = "held" THEN phone[o] ELSE 0} :
       socket' = [socket EXCEPT ![nextID].since = since,
                                ![nextID].next = BackfillFrom(since)]
  /\ link' = [link EXCEPT ![o] = nextID]
  /\ UNCHANGED <<length, phone, dropped, claimed, metered>>

\* AckWSReplica: acks count in order; the mutant numbers entries from one.
InOrderFromOne(r, seq) == seq = r.acked + 1
InOrder(r, seq) == seq = r.acked

\* Only live entries are metered; the mutants meter the back-fill as well, or
\* miss the first live entry.
MetersAll(r, seq) == TRUE
MetersAfter(r, seq) == seq > r.baseline
Meters(r, seq) == seq >= r.baseline

Ack(id) ==
  LET seq == Head(socket[id].acks)
      r == replica[id]
      unit == IF Meters(r, seq) THEN 1 ELSE 0
  IN  /\ id \in Remote /\ socket[id].acks # <<>>
      /\ socket' = [socket EXCEPT ![id].acks = Tail(@)]
      /\ \/ /\ ~InOrder(r, seq)
            /\ UNCHANGED <<replica, metered>>
         \/ /\ InOrder(r, seq)
            /\ replica' = [replica EXCEPT ![id].acked = @ + 1,
                                          ![id].pending = @ + unit,
                                          ![id].lifetime = @ + unit]
            /\ metered' = [metered EXCEPT ![id] = @ + unit]
      /\ UNCHANGED <<length, nextID, phone, link, dropped, claimed>>

\* KillReplica, for any node by the operator and for a phone by its socket's exit.
KillReplica(id) ==
  /\ id \in Live
  /\ replica' = [x \in Live \ {id} |-> replica[x]]
  /\ socket' = [socket EXCEPT ![id] = NoSocket]
  /\ link' = [o \in Owner |-> IF link[o] = id THEN NoLink ELSE link[o]]
  /\ dropped' = dropped \ {id}
  /\ claimed' = claimed \ {id}
  /\ UNCHANGED <<length, nextID, phone, metered>>

\* ClearPending: units leave the meter once they are credited.
ClearPending(id, units) ==
  /\ replica' = [x \in Live |->
       IF x = id
       THEN [replica[x] EXCEPT !.pending = IF units > @ THEN 0 ELSE @ - units]
       ELSE replica[x]]
  /\ UNCHANGED <<length, nextID, socket, phone, link, dropped, claimed, metered>>

(***************************************************************************)
(* The socket and the phone (external).  The phone stores the next entry   *)
(* of its copy, acknowledges every entry it holds, and cannot verify one   *)
(* beyond a gap; but the gateway takes whatever number it is sent, so the  *)
(* phone may acknowledge entries it did not get or that do not exist too.  *)
(* Writing a frame and its arrival are one step: a frame in flight is one  *)
(* the writer has yet to write.                                            *)
(***************************************************************************)
Frames(id) ==
  IF socket[id].next < replica[id].baseline THEN {socket[id].next}
  ELSE IF socket[id].ch = <<>> THEN {} ELSE {Head(socket[id].ch)}

Deliver(o) ==
  LET id == link[o]
  IN  /\ id \in Remote
      /\ \E seq \in Frames(id) :
           LET backfill == socket[id].next < replica[id].baseline
               holds == seq <= phone[o]
           IN  /\ phone' = [phone EXCEPT ![o] = IF seq = @ THEN @ + 1 ELSE @]
               /\ socket' = [socket EXCEPT
                    ![id].next = IF backfill THEN @ + 1 ELSE @,
                    ![id].ch = IF backfill THEN @ ELSE Tail(@),
                    ![id].acks = IF holds THEN Append(@, seq) ELSE @]
      /\ UNCHANGED <<length, nextID, replica, link, dropped, claimed, metered>>

\* An ack of a number of the phone's own choice.
Claim(o, seq) ==
  LET id == link[o]
  IN  /\ id \in Remote /\ Len(socket[id].acks) < MaxClaim
      /\ socket' = [socket EXCEPT ![id].acks = Append(@, seq)]
      /\ claimed' = IF seq < phone[o] THEN claimed ELSE claimed \cup {id}
      /\ UNCHANGED <<length, nextID, replica, phone, link, dropped, metered>>

\* The phone loses its socket; the gateway notices later (KillReplica).
Disconnect(o) ==
  /\ link[o] # NoLink
  /\ link' = [link EXCEPT ![o] = NoLink]
  /\ UNCHANGED <<length, nextID, replica, socket, phone, dropped, claimed, metered>>

ClusterStep ==
  \/ AppendPayment
  \/ \E o \in Owner \cup {NoOwner} : AddReplica(o)
  \/ \E o \in Owner, mode \in Reconnect : Connect(o, mode)
  \/ \E o \in Owner : Deliver(o) \/ Disconnect(o)
  \/ \E o \in Owner, seq \in 0 .. MaxLength : Claim(o, seq)
  \/ \E id \in Id : Ack(id) \/ KillReplica(id)

ClusterSpec == Init /\ [][ClusterStep]_cluster

\* The writer and the reader goroutine of a connection keep running.
ClusterFairness ==
  /\ \A o \in Owner : WF_cluster(Deliver(o))
  /\ \A id \in Id : WF_cluster(Ack(id))
FairClusterSpec == ClusterSpec /\ ClusterFairness

(***************************************************************************)
(* Properties.                                                             *)
(***************************************************************************)
\* The type invariant of the cluster.
ClusterTypeOK ==
  /\ length \in Nat /\ nextID \in 0 .. MaxNodes
  /\ Live \subseteq 0 .. (nextID - 1)
  /\ \A id \in Live : replica[id] \in Replica
  /\ socket \in [Id -> Socket]
  /\ phone \in [Owner -> Nat]
  /\ link \in [Owner -> Id \cup {NoLink}]
  /\ dropped \subseteq Remote /\ claimed \subseteq Remote
  /\ metered \in [Id -> Nat]

\* Cluster.Verify: every in-process replica holds the whole chain, whatever was
\* appended, added and killed, so killing any of them loses nothing.
LocalCopiesAgree == \A id \in Live : ~replica[id].remote => replica[id].copy = length

\* A phone whose channel never overflowed sees no gap between back-fill and live
\* entries, and holds the whole chain once nothing is left to send it.
PhoneCatchesUp ==
  \A o \in Owner : link[o] \in Remote /\ link[o] \notin dropped =>
    /\ \A seq \in Frames(link[o]) : seq <= phone[o]
    /\ Frames(link[o]) = {} => phone[o] = length

\* AckWSReplica's proof of replication.  Of a phone that acknowledges only what it holds,
\* acked never runs ahead of its copy, and what it is metered for is live entries it
\* stored.  Nothing checks what a phone claims: whatever it sends, a number is counted
\* once on a connection, and none of the back-fill is metered.
CountedOnce(r, units) == units > 0 => r.baseline + units <= r.acked
TruthfulEarnsStored ==
  \A id \in Remote :
    LET r == replica[id]
    IN  /\ CountedOnce(r, metered[id])
        /\ id \notin claimed => r.acked <= phone[r.owner]

\* acked is the phone's length: nothing in flight, it is what a phone stores that
\* asked for the whole chain and claimed nothing it did not hold.
InOrderPhones(o) == link[o] \in Remote \ (dropped \cup claimed) /\ socket[link[o]].since = 0
Quiet(o) == Frames(link[o]) = {} /\ socket[link[o]].acks = <<>>
AckedIsPhoneLength ==
  \A o \in Owner : InOrderPhones(o) /\ Quiet(o) => replica[link[o]].acked = phone[o]

\* Every live entry is metered for a phone that stays connected without overflow and
\* had asked for the whole chain.
Metered(o) == replica[link[o]].baseline + metered[link[o]] = length
LiveEntriesMetered == \A o \in Owner : []<>(InOrderPhones(o) => Metered(o))

\* AddWSReplica rewards live replication, whatever part of the back-fill a phone
\* that reconnects already holds and skips with ?since=.
ReconnectEarns == \A o \in Owner : []<>(link[o] \in Remote \ (dropped \cup claimed) => Metered(o))
=============================================================================
