------------------------------- MODULE LedgerNodes -------------------------------
(***************************************************************************)
(* The chain itself: entries, hashes and signatures, what a node checks    *)
(* before it stores an entry and what Verify checks afterwards, the fan-out*)
(* of an entry to the in-process replicas under Cluster.mu, and the views  *)
(* of the chain that other requests read meanwhile.  Which frames a phone  *)
(* is sent, and its meter, are LedgerCluster's subject.                    *)
(***************************************************************************)
EXTENDS Naturals, Sequences, SequencesExt

CONSTANTS
  Phone,      \* phones that replicate over a WebSocket
  Data,       \* transaction facts of an entry
  Reader,     \* requests for views the gateway serves at a time
  Boot,       \* LEDGER_REPLICAS: replicas a gateway starts with
  MaxLength,  \* bound: entries under one key
  MaxNodes,   \* bound: in-process replicas under one key
  MaxKey      \* bound: gateway starts

ASSUME NodesAssumption ==
  /\ Boot \in Nat /\ MaxLength \in Nat /\ MaxNodes \in Nat /\ MaxKey \in Nat \ {0}
  /\ Boot <= MaxNodes
  /\ Phone \cap (0 .. (MaxNodes - 1)) = {}

VARIABLES
  chain,    \* chain[k]: the anchor's entries under the k-th key; the last is the
            \* running gateway's, the others are ghosts
  copy,     \* copy[id]: entries of the live in-process replica id
  nextID,
  fanout,   \* replicas AppendPayment has still to give the last entry
  stored,   \* stored[p]: entries phone p holds (external)
  trusted,  \* trusted[p]: the key phone p was welcomed with, or 0 (external)
  view      \* view[r]: what request r has read so far

nodes == <<chain, copy, nextID, fanout>>
phones == <<stored, trusted>>
chains == <<nodes, phones, view>>

Id == 0 .. (MaxNodes - 1)
Live == DOMAIN copy
PublicKey == Len(chain)
Entries == Last(chain)

(***************************************************************************)
(* Entries.  A signature or a hash is the value it was computed from.      *)
(***************************************************************************)
NoHash == <<>>
Sign(key, content) == <<key, content>>
EntryHash(content, sig) == <<content, sig>>
PrevHash(entries) == IF entries = <<>> THEN NoHash ELSE Last(entries).hash

NewEntry(entries, key, data) ==
  LET content == [seq |-> Len(entries), prev |-> PrevHash(entries), data |-> data]
      sig == Sign(key, content)
  IN  [content |-> content, sig |-> sig, hash |-> EntryHash(content, sig)]

\* The checks of Receive and Verify on an entry that is to follow entries; the
\* mutants leave one of them out.
SeqFollows(entries, e) == e.content.seq = Len(entries)
Follows(entries, e) == SeqFollows(entries, e) /\ e.content.prev = PrevHash(entries)
Unhashed(e) == TRUE
Hashed(e) == e.hash = EntryHash(e.content, e.sig)
Checks(entries, e, key) ==
  Follows(entries, e) /\ e.sig = Sign(key, e.content) /\ Hashed(e)

Receive(entries, e, key) ==
  IF Checks(entries, e, key) THEN Append(entries, e) ELSE entries

VerifyNode(entries, key) ==
  \A i \in DOMAIN entries : Checks(SubSeq(entries, 1, i - 1), entries[i], key)

\* addReplica's back-fill, through Receive.
Replicate(entries, key) ==
  FoldLeft(LAMBDA held, e : Receive(held, e, key), <<>>, entries)

NoView == [op |-> "none"]

Init ==
  /\ chain = << <<>> >>
  /\ copy = [id \in 0 .. (Boot - 1) |-> <<>>]
  /\ nextID = Boot
  /\ fanout = {}
  /\ stored = [p \in Phone |-> <<>>]
  /\ trusted = [p \in Phone |-> 0]
  /\ view = [r \in Reader |-> NoView]

(***************************************************************************)
(* Cluster.mu is held while an entry is fanned out; the mutant's readers do*)
(* not take it.                                                            *)
(***************************************************************************)
NoLock == TRUE
Unlocked == fanout = {}

AppendPayment(data) ==
  /\ fanout = {} /\ Len(Entries) < MaxLength
  /\ chain' = [chain EXCEPT ![PublicKey] = Append(@, NewEntry(@, PublicKey, data))]
  /\ fanout' = Live
  /\ UNCHANGED <<copy, nextID, phones, view>>

\* The anchor holds the entry; the replicas receive it one after the other.
FanOut ==
  /\ \E id \in fanout :
       /\ \A x \in fanout : id <= x
       /\ copy' = [copy EXCEPT ![id] = Receive(@, Last(Entries), PublicKey)]
       /\ fanout' = fanout \ {id}
  /\ UNCHANGED <<chain, nextID, phones, view>>

Answers(r, v) == view' = [view EXCEPT ![r] = v]
Free(r) == view[r].op \notin {"length", "verified", "kill", "add"}

AddReplica(r) ==
  /\ Free(r) /\ Unlocked /\ nextID < MaxNodes
  /\ copy' = [id \in Live \cup {nextID} |->
       IF id = nextID THEN Replicate(Entries, PublicKey) ELSE copy[id]]
  /\ nextID' = nextID + 1
  /\ Answers(r, [op |-> "add"])
  /\ UNCHANGED <<chain, fanout, phones>>

KillReplica(r, id) ==
  /\ Free(r) /\ Unlocked /\ id \in Live
  /\ copy' = [x \in Live \ {id} |-> copy[x]]
  /\ Answers(r, [op |-> "kill", id |-> id])
  /\ UNCHANGED <<chain, nextID, fanout, phones>>

(***************************************************************************)
(* Views.  Length and Entries take the anchor's lock only.                 *)
(***************************************************************************)
\* ledgerList: first the length, then the entries.
ListLength(r) ==
  /\ Free(r)
  /\ Answers(r, [op |-> "length", length |-> Len(Entries)])
  /\ UNCHANGED <<nodes, phones>>

ListEntries(r) ==
  /\ view[r].op = "length"
  /\ Answers(r, [op |-> "list", length |-> view[r].length, entries |-> Entries])
  /\ UNCHANGED <<nodes, phones>>

\* Cluster.Verify: the anchor, every in-process replica, and equal lengths.
VerifyCluster(entries, copies, key) ==
  /\ VerifyNode(entries, key)
  /\ \A id \in DOMAIN copies :
       VerifyNode(copies[id], key) /\ Len(copies[id]) = Len(entries)

Verify(r) ==
  /\ Free(r) /\ Unlocked
  /\ Answers(r, [op |-> "verified", valid |-> VerifyCluster(Entries, copy, PublicKey)])
  /\ UNCHANGED <<nodes, phones>>

\* ledgerVerify reads the length of a valid chain after the verification.
VerifyLength(r) ==
  /\ view[r].op = "verified"
  /\ Answers(r, [op |-> "verify", valid |-> view[r].valid, length |-> Len(Entries)])
  /\ UNCHANGED <<nodes, phones>>

\* ledgerNodes, and the answers of ledgerKill and ledgerAddReplica.
Nodes ==
  [id \in Live |-> [insync |-> Len(copy[id]) = Len(Entries),
                    verified |-> VerifyNode(copy[id], PublicKey)]]

ListNodes(r) ==
  /\ view[r].op \notin {"length", "verified"} /\ Unlocked
  /\ Answers(r, [op |-> "nodes", nodes |-> Nodes,
                 killed |-> IF view[r].op = "kill" THEN {view[r].id} ELSE {}])
  /\ UNCHANGED <<nodes, phones>>

(***************************************************************************)
(* Phones, and the gateway's restart with a fresh key and an empty chain.  *)
(* A phone keeps what it stored, learns the running gateway's key when it  *)
(* is welcomed, and checks what it is sent as Receive does.                *)
(***************************************************************************)
Welcome(p) ==
  /\ Unlocked
  /\ trusted[p] = 0
  /\ trusted' = [trusted EXCEPT ![p] = PublicKey]
  /\ UNCHANGED <<nodes, stored, view>>

Frame(p) ==
  /\ trusted[p] # 0
  /\ \E e \in ToSet(Entries) :
       stored' = [stored EXCEPT ![p] = Receive(@, e, trusted[p])]
  /\ UNCHANGED <<nodes, trusted, view>>

Disconnect(p) ==
  /\ trusted[p] # 0
  /\ trusted' = [trusted EXCEPT ![p] = 0]
  /\ UNCHANGED <<nodes, stored, view>>

Restart ==
  /\ PublicKey < MaxKey
  /\ chain' = Append(chain, <<>>)
  /\ copy' = [id \in 0 .. (Boot - 1) |-> <<>>]
  /\ nextID' = Boot
  /\ fanout' = {}
  /\ trusted' = [p \in Phone |-> 0]
  /\ view' = [r \in Reader |-> NoView]
  /\ UNCHANGED stored

Next ==
  \/ \E data \in Data : AppendPayment(data)
  \/ FanOut
  \/ \E r \in Reader :
       \/ AddReplica(r) \/ \E id \in Id : KillReplica(r, id)
       \/ ListLength(r) \/ ListEntries(r) \/ Verify(r) \/ VerifyLength(r) \/ ListNodes(r)
  \/ \E p \in Phone : Welcome(p) \/ Frame(p) \/ Disconnect(p)
  \/ Restart

Spec == Init /\ [][Next]_chains

(***************************************************************************)
(* Properties.                                                             *)
(***************************************************************************)
\* The type invariant: whoever is still to receive an entry is alive.
ChainTypeOK ==
  /\ PublicKey \in 1 .. MaxKey
  /\ \A k \in 1 .. PublicKey : \A i \in DOMAIN chain[k] : chain[k][i].content.data \in Data
  /\ Live \subseteq 0 .. (nextID - 1) /\ nextID \in 0 .. MaxNodes
  /\ fanout \subseteq Live
  /\ stored \in [Phone -> Seq(UNION {ToSet(chain[k]) : k \in 1 .. PublicKey})]
  /\ trusted \in [Phone -> 0 .. PublicKey]
  /\ DOMAIN view = Reader

\* The answers of ledgerList, ledgerVerify and ledgerNodes are coherent although they
\* read in several steps and under two locks while entries are fanned out: a list is
\* a valid chain of at least the length given, no check raises a false alarm, and a
\* killed replica is not listed.
AnswersCoherent ==
  \A r \in Reader :
    LET v == view[r]
    IN  CASE v.op = "list" -> v.length <= Len(v.entries) /\ VerifyNode(v.entries, PublicKey)
          [] v.op = "verify" -> v.valid /\ v.length <= Len(Entries)
          [] v.op = "nodes" ->
               /\ v.killed \cap DOMAIN v.nodes = {}
               /\ \A id \in DOMAIN v.nodes : v.nodes[id].insync /\ v.nodes[id].verified
          [] OTHER -> TRUE

\* What could happen to a stored chain: a field of one entry changes, with its hash
\* recomputed or not, entries swap places, or one is lost.
Changed(e) ==
  {[e EXCEPT !.content.data = d] : d \in Data}
  \cup {[e EXCEPT !.content.seq = @ + 1], [e EXCEPT !.content.prev = e.hash],
        [e EXCEPT !.sig = Sign(0, e.content)], [e EXCEPT !.hash = NoHash]}
Rehashed(e) == [e EXCEPT !.hash = EntryHash(e.content, e.sig)]
Substitutes(entries) == LET C == UNION {Changed(e) : e \in ToSet(entries)}
                        IN  C \cup {Rehashed(x) : x \in C}
Damaged(entries) ==
  {[entries EXCEPT ![i] = x] : i \in DOMAIN entries, x \in Substitutes(entries)}
  \cup {[entries EXCEPT ![i] = entries[j], ![j] = entries[i]] :
          i \in DOMAIN entries, j \in DOMAIN entries}
  \cup {RemoveAt(entries, i) : i \in DOMAIN entries}

\* Verify: while nothing is being fanned out, no such damage to the anchor's chain or
\* to an in-process replica's passes Cluster.Verify, whatever the chain, but for one:
\* where no in-process replica is left to compare lengths with, the anchor's chain
\* passes without its last entry.
TamperDetected ==
  fanout = {} =>
    \A damaged \in Damaged(Entries) \ {Entries} :
      /\ VerifyCluster(damaged, copy, PublicKey) <=> Live = {} /\ damaged = Front(Entries)
      /\ \A id \in Live : ~VerifyCluster(Entries, [copy EXCEPT ![id] = damaged], PublicKey)

\* NewReplica, Receive: every node holds a prefix of what one key signed, in its
\* order, and the log only grows, across restarts as well.
Facts(entries) == [i \in DOMAIN entries |-> entries[i].content.data]
Authored == [k \in 1 .. Len(chain) |-> Facts(chain[k])]
Stored ==
  [n \in Id \cup Phone |->
     Facts(IF n \in Phone THEN stored[n] ELSE IF n \in Live THEN copy[n] ELSE <<>>)]
Log == INSTANCE SignedLog WITH
  Node <- Id \cup Phone, Data <- Data, log <- Authored, holds <- Stored
ImplementsSignedLog == Log!Spec
=============================================================================
