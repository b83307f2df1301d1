---------------------------- MODULE LedgerNodesProofs ----------------------------
(***************************************************************************)
(* For any number of replicas, phones, readers, keys and entries: every    *)
(* node holds a prefix of what one key signed, the answers the gateway     *)
(* gives about the chain are coherent, and damage to a copy is detected.   *)
(***************************************************************************)
EXTENDS LedgerNodes, Sums, SequenceTheorems

(***************************************************************************)
(* Sequences of whatever they contain.                                     *)
(***************************************************************************)
IsSeq(s) == s \in Seq(ToSet(s))
Prefix(s, n) == SubSeq(s, 1, n)

LEMMA SeqFacts ==
  ASSUME NEW s, IsSeq(s)
  PROVE  Len(s) \in Nat /\ DOMAIN s = 1 .. Len(s) /\ s = [i \in 1 .. Len(s) |-> s[i]]
BY LenProperties DEF IsSeq

LEMMA SeqIs ==
  ASSUME NEW S, NEW s \in Seq(S)
  PROVE  IsSeq(s)
<1>1. Len(s) \in Nat /\ DOMAIN s = 1 .. Len(s) /\ s \in [1 .. Len(s) -> S]
  BY LenProperties
<1>2. s \in [1 .. Len(s) -> ToSet(s)]
  BY <1>1 DEF ToSet
<1> QED
  BY <1>1, <1>2, SeqDef DEF IsSeq

LEMMA SameSeq ==
  ASSUME NEW s, IsSeq(s), NEW t, IsSeq(t), Len(s) = Len(t), \A i \in 1 .. Len(s) : s[i] = t[i]
  PROVE  s = t
<1>1. s = [i \in 1 .. Len(s) |-> s[i]] /\ t = [i \in 1 .. Len(s) |-> t[i]]
  BY SeqFacts
<1> QED
  BY <1>1

LEMMA AppendFacts ==
  ASSUME NEW s, IsSeq(s), NEW e
  PROVE  /\ IsSeq(Append(s, e)) /\ Append(s, e) # <<>>
         /\ Len(Append(s, e)) = Len(s) + 1
         /\ \A i \in 1 .. Len(s) : Append(s, e)[i] = s[i]
         /\ Append(s, e)[Len(s) + 1] = e
<1> DEFINE T == ToSet(s) \cup {e}
<1>1. s \in Seq(T) /\ e \in T
  BY SeqMonotonic DEF IsSeq
<1> HIDE DEF T
<1>2. Append(s, e) \in Seq(T) /\ Len(s) \in Nat
  BY <1>1, AppendProperties, SeqFacts
<1>3. IsSeq(Append(s, e))
  BY <1>2, SeqIs
<1>4. /\ Append(s, e) # <<>> /\ Len(Append(s, e)) = Len(s) + 1
      /\ \A i \in 1 .. Len(s) : Append(s, e)[i] = s[i]
      /\ Append(s, e)[Len(s) + 1] = e
  BY <1>1, AppendProperties
<1> QED
  BY <1>3, <1>4

Replaces(t, s, i, e) == t = [s EXCEPT ![i] = e]
LEMMA ExceptFacts ==
  ASSUME NEW s, IsSeq(s), NEW i \in 1 .. Len(s), NEW e, NEW t, Replaces(t, s, i, e)
  PROVE  /\ IsSeq(t) /\ Len(t) = Len(s)
         /\ \A j \in 1 .. Len(s) : t[j] = IF j = i THEN e ELSE s[j]
<1> DEFINE T == ToSet(s) \cup {e}
<1>1. s \in Seq(T) /\ e \in T
  BY SeqMonotonic DEF IsSeq
<1> HIDE DEF T
<1>2. t \in Seq(T) /\ Len(t) = Len(s) /\ \A j \in 1 .. Len(s) : t[j] = IF j = i THEN e ELSE s[j]
  BY <1>1, ExceptSeq DEF Replaces
<1>3. IsSeq(t)
  BY <1>2, SeqIs
<1> QED
  BY <1>2, <1>3

LEMMA PrefixFacts ==
  ASSUME NEW s, IsSeq(s), NEW n \in 0 .. Len(s)
  PROVE  /\ IsSeq(Prefix(s, n)) /\ Len(Prefix(s, n)) = n
         /\ \A i \in 1 .. n : Prefix(s, n)[i] = s[i]
<1>1. Len(s) \in Nat /\ DOMAIN s = 1 .. Len(s)
  BY SeqFacts
<1>2. \A i \in 1 .. n : s[i] \in ToSet(s)
  BY <1>1 DEF ToSet
<1>3. 1 \in Int /\ n \in Int
  BY <1>1
<1>4. /\ Prefix(s, n) \in Seq(ToSet(s))
      /\ Len(Prefix(s, n)) = IF 1 <= n THEN n - 1 + 1 ELSE 0
      /\ \A i \in 1 .. n - 1 + 1 : Prefix(s, n)[i] = s[1 + i - 1]
  BY <1>2, <1>3, SubSeqProperties DEF Prefix
<1>5. IsSeq(Prefix(s, n))
  BY <1>4, SeqIs
<1> QED
  BY <1>1, <1>4, <1>5

LEMMA PrefixOfAppend ==
  ASSUME NEW s, IsSeq(s), NEW e, NEW n \in 0 .. Len(s)
  PROVE  Prefix(Append(s, e), n) = Prefix(s, n)
<1>1. Len(s) \in Nat
  BY SeqFacts
<1>2. IsSeq(Append(s, e)) /\ Len(Append(s, e)) = Len(s) + 1
  BY AppendFacts
<1>3. n \in 0 .. Len(Append(s, e))
  BY <1>1, <1>2
<1>4. /\ IsSeq(Prefix(s, n)) /\ Len(Prefix(s, n)) = n
      /\ \A i \in 1 .. n : Prefix(s, n)[i] = s[i]
  BY PrefixFacts
<1>5. /\ IsSeq(Prefix(Append(s, e), n)) /\ Len(Prefix(Append(s, e), n)) = n
      /\ \A i \in 1 .. n : Prefix(Append(s, e), n)[i] = Append(s, e)[i]
  BY <1>2, <1>3, PrefixFacts
<1>6. \A i \in 1 .. n : Append(s, e)[i] = s[i]
  BY <1>1, AppendFacts
<1> QED
  BY <1>4, <1>5, <1>6, SameSeq

LEMMA PrefixFull ==
  ASSUME NEW s, IsSeq(s)
  PROVE  Prefix(s, Len(s)) = s
BY SubSeqFull DEF IsSeq, Prefix

LEMMA PrefixGrows ==
  ASSUME NEW s, IsSeq(s), NEW n \in 1 .. Len(s)
  PROVE  Append(Prefix(s, n - 1), s[n]) = Prefix(s, n)
<1>1. Len(s) \in Nat /\ n \in Nat /\ n - 1 \in 0 .. Len(s) /\ n \in 0 .. Len(s)
  BY SeqFacts
<1> DEFINE p == Prefix(s, n - 1)
<1>2. IsSeq(p) /\ Len(p) = n - 1 /\ \A i \in 1 .. n - 1 : p[i] = s[i]
  BY <1>1, PrefixFacts
<1>3. IsSeq(Prefix(s, n)) /\ Len(Prefix(s, n)) = n /\ \A i \in 1 .. n : Prefix(s, n)[i] = s[i]
  BY <1>1, PrefixFacts
<1> HIDE DEF p
<1> DEFINE a == Append(p, s[n])
<1>4. /\ IsSeq(a) /\ Len(a) = Len(p) + 1
      /\ \A i \in 1 .. Len(p) : a[i] = p[i]
      /\ a[Len(p) + 1] = s[n]
  BY <1>2, AppendFacts
<1> HIDE DEF a
<1>5. \A i \in 1 .. n : a[i] = Prefix(s, n)[i]
  BY <1>1, <1>2, <1>3, <1>4
<1>6. Len(a) = n
  BY <1>1, <1>2, <1>4
<1>7. a = Prefix(s, n)
  BY <1>3, <1>4, <1>5, <1>6, SameSeq
<1> QED
  BY <1>7 DEF a, p

(***************************************************************************)
(* What Receive and Verify check of one entry, without the prefix it       *)
(* follows.                                                                *)
(***************************************************************************)
Before(s, n) == IF n = 0 THEN NoHash ELSE s[n].hash
Fits(s, n, e, key) ==
  /\ e.content.seq = n /\ e.content.prev = Before(s, n)
  /\ e.sig = Sign(key, e.content) /\ e.hash = EntryHash(e.content, e.sig)
Valid(s, key) == \A i \in 1 .. Len(s) : Fits(s, i - 1, s[i], key)

LEMMA ChecksFits ==
  ASSUME NEW s, IsSeq(s), NEW e, NEW key
  PROVE  Checks(s, e, key) <=> Fits(s, Len(s), e, key)
<1>1. Len(s) \in Nat /\ (s = <<>> <=> Len(s) = 0)
  BY SeqFacts, EmptySeq DEF IsSeq
<1>2. PrevHash(s) = Before(s, Len(s))
  BY <1>1 DEF PrevHash, Before, Last
<1> QED
  BY <1>2 DEF Checks, Follows, SeqFollows, Hashed, Fits

LEMMA ChecksPrefix ==
  ASSUME NEW s, IsSeq(s), NEW i \in 1 .. Len(s), NEW e, NEW key
  PROVE  Checks(SubSeq(s, 1, i - 1), e, key) <=> Fits(s, i - 1, e, key)
<1> DEFINE p == Prefix(s, i - 1)
<1>1. Len(s) \in Nat /\ i - 1 \in 0 .. Len(s) /\ i \in Nat
  BY SeqFacts
<1>2. IsSeq(p) /\ Len(p) = i - 1 /\ \A j \in 1 .. i - 1 : p[j] = s[j]
  BY <1>1, PrefixFacts
<1> HIDE DEF p
<1>3. Before(p, i - 1) = Before(s, i - 1)
  BY <1>1, <1>2 DEF Before
<1>4. Checks(p, e, key) <=> Fits(s, i - 1, e, key)
  BY <1>2, <1>3, ChecksFits DEF Fits
<1> QED
  BY <1>4 DEF p, Prefix

LEMMA VerifyIsValid ==
  ASSUME NEW s, IsSeq(s), NEW key
  PROVE  VerifyNode(s, key) <=> Valid(s, key)
BY SeqFacts, ChecksPrefix DEF VerifyNode, Valid

LEMMA EmptyChain == IsSeq(<<>>) /\ Len(<<>>) = 0 /\ \A key : Valid(<<>>, key)
<1>1. <<>> \in Seq({}) /\ Len(<<>>) = 0
  BY EmptySeq
<1>2. IsSeq(<<>>)
  BY <1>1, SeqIs
<1>3. 1 .. Len(<<>>) = {}
  BY <1>1
<1>4. \A key : Valid(<<>>, key)
  BY <1>3 DEF Valid
<1> QED
  BY <1>1, <1>2, <1>4

LEMMA ValidAppend ==
  ASSUME NEW s, IsSeq(s), NEW e, NEW key, Valid(s, key), Fits(s, Len(s), e, key)
  PROVE  Valid(Append(s, e), key)
<1> DEFINE a == Append(s, e)
<1>1. Len(s) \in Nat
  BY SeqFacts
<1>2. /\ Len(a) = Len(s) + 1 /\ a[Len(s) + 1] = e
      /\ \A i \in 1 .. Len(s) : a[i] = s[i]
  BY AppendFacts
<1> HIDE DEF a
<1>3. ASSUME NEW i \in 1 .. Len(a) PROVE Fits(a, i - 1, a[i], key)
  <2>1. i \in Nat /\ (i = Len(s) + 1 \/ i \in 1 .. Len(s))
    BY <1>1, <1>2
  <2>2. Before(a, i - 1) = Before(s, i - 1)
    BY <1>1, <1>2, <2>1 DEF Before
  <2>3. CASE i = Len(s) + 1
    <3>1. i - 1 = Len(s) /\ a[i] = e
      BY <1>1, <1>2, <2>3
    <3> QED
      BY <2>2, <3>1 DEF Fits
  <2>4. CASE i \in 1 .. Len(s)
    BY <1>2, <2>2, <2>4 DEF Valid, Fits
  <2> QED
    BY <2>1, <2>3, <2>4
<1>4. Valid(a, key)
  BY <1>3 DEF Valid
<1> QED
  BY <1>4 DEF a

\* The next entry of a chain a replica holds up to it is accepted.
LEMMA ReceiveNext ==
  ASSUME NEW s, IsSeq(s), NEW key, Valid(s, key), NEW n \in 1 .. Len(s)
  PROVE  Receive(Prefix(s, n - 1), s[n], key) = Prefix(s, n)
<1>1. Checks(Prefix(s, n - 1), s[n], key)
  BY ChecksPrefix DEF Valid, Prefix
<1>2. Append(Prefix(s, n - 1), s[n]) = Prefix(s, n)
  BY PrefixGrows
<1> QED
  BY <1>1, <1>2 DEF Receive

(***************************************************************************)
(* The back-fill: Replicate folds Receive over the chain.                  *)
(***************************************************************************)
Backfill(h, s, key) ==
  h = [d \in SUBSET (DOMAIN s) |->
         IF d = {} THEN <<>> ELSE Receive(h[d \ {Max(d)}], s[Max(d)], key)]

LEMMA BackfillExists ==
  ASSUME NEW s, IsSeq(s), NEW key
  PROVE  \E h : Backfill(h, s, key)
<1> DEFINE E == ToSet(s)
           A == Seq(E)
           g == [y \in A \X E |-> Receive(y[1], y[2], key)]
<1>1. Len(s) \in Nat /\ DOMAIN s = 1 .. Len(s) /\ \A i \in 1 .. Len(s) : s[i] \in E
  BY SeqFacts DEF ToSet
<1>2. <<>> \in A
  BY EmptySeq
<1>3. \A held \in A, e \in E : Receive(held, e, key) \in A
  BY AppendProperties DEF Receive
<1>4. \A held \in A, e \in E : g[<<held, e>>] = Receive(held, e, key)
  OBVIOUS
<1>5. g \in [A \X E -> A]
  <2> HIDE DEF A, E
  <2> QED
    BY <1>3
<1> HIDE DEF g, A, E
<1>6. PICK h \in [SUBSET (1 .. Len(s)) -> A] : FoldOf(h, s, <<>>, g)
  BY <1>1, <1>2, <1>5, FoldExists
<1>7. \A d \in SUBSET (1 .. Len(s)) : d # {} => Max(d) \in d
  BY <1>1, MaxFacts
<1>8. ASSUME NEW d \in SUBSET (DOMAIN s), d # {}
      PROVE  g[<<h[d \ {Max(d)}], s[Max(d)]>>] = Receive(h[d \ {Max(d)}], s[Max(d)], key)
  <2>1. d \ {Max(d)} \in SUBSET (1 .. Len(s)) /\ Max(d) \in 1 .. Len(s)
    BY <1>1, <1>7, <1>8
  <2> QED
    BY <1>1, <1>4, <1>6, <2>1
<1>9. h = [d \in SUBSET (DOMAIN s) |->
             IF d = {} THEN <<>> ELSE Receive(h[d \ {Max(d)}], s[Max(d)], key)]
  <2>1. h = [d \in SUBSET (DOMAIN s) |->
               IF d = {} THEN <<>> ELSE g[<<h[d \ {Max(d)}], s[Max(d)]>>]]
    BY <1>6 DEF FoldOf
  <2> QED
    BY <1>8, <2>1, Zenon
<1> QED
  BY <1>9 DEF Backfill

LEMMA BackfillPrefix ==
  ASSUME NEW s, IsSeq(s), NEW key, Valid(s, key), NEW h, Backfill(h, s, key)
  PROVE  \A n \in 0 .. Len(s) : h[1 .. n] = Prefix(s, n)
<1>1. Len(s) \in Nat /\ DOMAIN s = 1 .. Len(s)
  BY SeqFacts
<1>2. \A d \in SUBSET (1 .. Len(s)) :
        h[d] = IF d = {} THEN <<>> ELSE Receive(h[d \ {Max(d)}], s[Max(d)], key)
  BY <1>1 DEF Backfill
<1> DEFINE P == {n \in 0 .. Len(s) : h[1 .. n] = Prefix(s, n)}
<1>3. 0 \in P
  <2>1. h[1 .. 0] = <<>>
    <3>1. 1 .. 0 = {}
      OBVIOUS
    <3> QED
      BY <1>2, <3>1
  <2>2. Prefix(s, 0) = <<>>
    BY SubSeqEmpty DEF Prefix
  <2> QED
    BY <1>1, <2>1, <2>2
<1>4. ASSUME NEW n \in 1 .. Len(s), n - 1 \in P PROVE n \in P
  <2>1. 1 .. n # {} /\ Max(1 .. n) = n /\ (1 .. n) \ {Max(1 .. n)} = 1 .. (n - 1)
    BY LastPosition
  <2>2. 1 .. n \in SUBSET (1 .. Len(s))
    BY <1>1
  <2>3. h[1 .. n] = Receive(h[1 .. (n - 1)], s[n], key)
    BY <1>2, <2>1, <2>2
  <2>4. h[1 .. n] = Prefix(s, n)
    BY <1>4, <2>3, ReceiveNext
  <2> QED
    BY <1>1, <2>4
<1>5. \A n \in 0 .. Len(s) : n \in P
  <2> HIDE DEF P
  <2> QED
    BY <1>1, <1>3, <1>4, Climb
<1> QED
  BY <1>5

\* addReplica: a valid chain is back-filled whole.
LEMMA ReplicateAll ==
  ASSUME NEW s, IsSeq(s), NEW key, Valid(s, key)
  PROVE  Replicate(s, key) = s
<1> DEFINE k == CHOOSE h : Backfill(h, s, key)
<1>1. Backfill(k, s, key)
  BY BackfillExists
<1>2. Replicate(s, key) = k[DOMAIN s]
  BY DEF Replicate, FoldLeft, MapThenFoldSet, Backfill
<1> HIDE DEF k
<1>3. DOMAIN s = 1 .. Len(s) /\ Len(s) \in 0 .. Len(s)
  BY SeqFacts
<1>4. k[1 .. Len(s)] = Prefix(s, Len(s))
  BY <1>1, <1>3, BackfillPrefix
<1> QED
  BY <1>2, <1>3, <1>4, PrefixFull

(***************************************************************************)
(* The inductive invariant.  While an entry is fanned out, the replicas    *)
(* that wait for it are exactly one entry behind; a phone may hold part of *)
(* an earlier key's chain, and trusts the running key or none; what a      *)
(* request has read stays true of the chain until it answers.              *)
(***************************************************************************)
IsEntry(e) ==
  /\ e = [content |-> [seq |-> e.content.seq, prev |-> e.content.prev,
                       data |-> e.content.data],
          sig |-> e.sig, hash |-> e.hash]
  /\ e.content.data \in Data

ChainOK ==
  /\ IsSeq(chain) /\ Len(chain) \in 1 .. MaxKey
  /\ \A k \in 1 .. Len(chain) :
       /\ IsSeq(chain[k]) /\ Valid(chain[k], k)
       /\ \A i \in 1 .. Len(chain[k]) : IsEntry(chain[k][i])

CopiesOK ==
  /\ nextID \in 0 .. MaxNodes /\ Live \subseteq 0 .. (nextID - 1)
  /\ fanout \subseteq Live
  /\ fanout # {} => Len(Entries) > 0
  /\ \A id \in Live :
       copy[id] = IF id \in fanout THEN Prefix(Entries, Len(Entries) - 1) ELSE Entries

PhonesOK ==
  /\ stored = [p \in Phone |-> stored[p]]
  /\ \A p \in Phone : \E k \in 1 .. Len(chain) : \E n \in 0 .. Len(chain[k]) :
       stored[p] = Prefix(chain[k], n)
  /\ trusted \in [Phone -> {0, PublicKey}]

ViewOK(v, length, key, live, next) ==
  /\ v.op = "length" => v.length \in Nat /\ v.length <= length
  /\ v.op = "list" => v.length <= Len(v.entries) /\ VerifyNode(v.entries, key)
  /\ v.op = "verified" => v.valid
  /\ v.op = "verify" => v.valid /\ v.length \in Nat /\ v.length <= length
  /\ v.op = "kill" => v.id \in 0 .. (next - 1) /\ v.id \notin live
  /\ v.op = "nodes" =>
       /\ v.killed \cap DOMAIN v.nodes = {}
       /\ \A id \in DOMAIN v.nodes : v.nodes[id].insync /\ v.nodes[id].verified

ViewsOK ==
  /\ DOMAIN view = Reader
  /\ \A r \in Reader : ViewOK(view[r], Len(Entries), PublicKey, Live, nextID)

NodesInv == ChainOK /\ CopiesOK /\ PhonesOK /\ ViewsOK

LEMMA RunningChain ==
  ASSUME ChainOK
  PROVE  /\ PublicKey \in Nat /\ PublicKey \in 1 .. Len(chain) /\ PublicKey # 0
         /\ Entries = chain[PublicKey] /\ IsSeq(Entries) /\ Valid(Entries, PublicKey)
         /\ Len(Entries) \in Nat /\ VerifyNode(Entries, PublicKey)
<1>1. Len(chain) \in Nat /\ Len(chain) >= 1
  BY DEF ChainOK
<1>2. PublicKey \in 1 .. Len(chain) /\ Entries = chain[PublicKey]
  BY <1>1 DEF PublicKey, Entries, Last
<1>3. IsSeq(Entries) /\ Valid(Entries, PublicKey)
  BY <1>2 DEF ChainOK
<1> QED
  BY <1>1, <1>2, <1>3, SeqFacts, VerifyIsValid

\* What a request has read stays true while the chain grows and replicas come and go.
LEMMA ViewKept ==
  ASSUME NEW v, NEW n \in Nat, NEW m \in Nat, n <= m, NEW key, NEW live, NEW live2,
         NEW next \in Nat, NEW next2 \in Nat, next <= next2,
         live2 \cap (0 .. (next - 1)) \subseteq live, ViewOK(v, n, key, live, next)
  PROVE  ViewOK(v, m, key, live2, next2)
<1>1. v.op = "kill" => v.id \in 0 .. (next2 - 1) /\ v.id \notin live2
  BY DEF ViewOK
<1> QED
  BY <1>1 DEF ViewOK

LEMMA InitNodes == Init => NodesInv
<1> SUFFICES ASSUME Init PROVE NodesInv
  OBVIOUS
<1>1. /\ chain = << <<>> >> /\ copy = [id \in 0 .. (Boot - 1) |-> <<>>] /\ nextID = Boot
      /\ fanout = {} /\ stored = [p \in Phone |-> <<>>] /\ trusted = [p \in Phone |-> 0]
      /\ view = [r \in Reader |-> NoView]
  BY DEF Init
<1>2. Len(chain) = 1 /\ chain[1] = <<>> /\ IsSeq(chain)
  <2>1. << <<>> >> \in Seq({<<>>})
    OBVIOUS
  <2> QED
    BY <1>1, <2>1, SeqIs
<1>3. ChainOK
  <2>1. Len(chain) \in 1 .. MaxKey
    BY <1>2, NodesAssumption
  <2>2. \A k \in 1 .. Len(chain) : k = 1
    BY <1>2
  <2>3. 1 .. Len(chain[1]) = {}
    BY <1>2, EmptyChain
  <2> QED
    BY <1>2, <2>1, <2>2, <2>3, EmptyChain DEF ChainOK
<1>4. Entries = <<>>
  BY <1>2 DEF Entries, Last
<1>5. CopiesOK
  BY <1>1, <1>4, NodesAssumption DEF CopiesOK, Live
<1>6. PhonesOK
  <2>1. Prefix(chain[1], 0) = <<>> /\ 0 \in 0 .. Len(chain[1])
    BY <1>2, EmptyChain, SubSeqEmpty DEF Prefix
  <2> QED
    BY <1>1, <1>2, <2>1 DEF PhonesOK
<1>7. ViewsOK
  BY <1>1 DEF ViewsOK, ViewOK, NoView
<1> QED
  BY <1>3, <1>5, <1>6, <1>7 DEF NodesInv

\* The new entry continues the chain it was made for.
LEMMA NewEntryFits ==
  ASSUME NEW s, IsSeq(s), NEW key, NEW data \in Data
  PROVE  Fits(s, Len(s), NewEntry(s, key, data), key) /\ IsEntry(NewEntry(s, key, data))
<1>1. Len(s) \in Nat /\ (s = <<>> <=> Len(s) = 0)
  BY SeqFacts, EmptySeq DEF IsSeq
<1>2. PrevHash(s) = Before(s, Len(s))
  BY <1>1 DEF PrevHash, Before, Last
<1> QED
  BY <1>2 DEF NewEntry, Fits, IsEntry

LEMMA AppendPaymentStep ==
  ASSUME NodesInv, NEW data \in Data, AppendPayment(data)
  PROVE  NodesInv'
<1>1. ChainOK /\ CopiesOK /\ PhonesOK /\ ViewsOK
  BY DEF NodesInv
<1>2. /\ PublicKey \in 1 .. Len(chain) /\ Entries = chain[PublicKey] /\ IsSeq(Entries)
      /\ Valid(Entries, PublicKey) /\ Len(Entries) \in Nat /\ PublicKey = Len(chain)
      /\ Len(chain) \in Nat
  BY <1>1, RunningChain DEF PublicKey
<1> DEFINE e == NewEntry(Entries, PublicKey, data)
<1>3. Fits(Entries, Len(Entries), e, PublicKey) /\ IsEntry(e)
  BY <1>2, NewEntryFits
<1>4. /\ fanout = {} /\ fanout' = Live /\ UNCHANGED <<copy, nextID, stored, trusted, view>>
      /\ chain' = [chain EXCEPT ![PublicKey] = Append(Entries, e)]
  BY <1>2 DEF AppendPayment, phones
<1> HIDE DEF e
<1> DEFINE longer == Append(Entries, e)
<1>5. /\ IsSeq(longer) /\ Len(longer) = Len(Entries) + 1 /\ Valid(longer, PublicKey)
      /\ \A i \in 1 .. Len(Entries) : longer[i] = Entries[i]
      /\ longer[Len(Entries) + 1] = e
      /\ \A n \in 0 .. Len(Entries) : Prefix(longer, n) = Prefix(Entries, n)
  BY <1>2, <1>3, AppendFacts, ValidAppend, PrefixOfAppend
<1>6. chain' = [chain EXCEPT ![PublicKey] = longer]
  BY <1>4
<1> HIDE DEF longer
<1>7. /\ IsSeq(chain') /\ Len(chain') = Len(chain)
      /\ \A k \in 1 .. Len(chain) : chain'[k] = IF k = PublicKey THEN longer ELSE chain[k]
  <2>1. IsSeq(chain)
    BY <1>1 DEF ChainOK
  <2>2. Replaces(chain', chain, PublicKey, longer)
    BY <1>6 DEF Replaces
  <2> QED
    BY <1>2, <2>1, <2>2, ExceptFacts
<1>8. PublicKey' = PublicKey /\ Entries' = longer /\ Live' = Live
  BY <1>2, <1>4, <1>7 DEF PublicKey, Entries, Last, Live
<1>9. ChainOK'
  <2>1. ASSUME NEW i \in 1 .. Len(longer) PROVE IsEntry(longer[i])
    <3>1. i = Len(Entries) + 1 \/ i \in 1 .. Len(Entries)
      BY <1>2, <1>5
    <3>2. \A j \in 1 .. Len(Entries) : IsEntry(Entries[j])
      BY <1>1, <1>2 DEF ChainOK
    <3> QED
      BY <1>3, <1>5, <3>1, <3>2
  <2> QED
    BY <1>1, <1>2, <1>5, <1>7, <2>1 DEF ChainOK
<1>10. CopiesOK'
  <2>1. Prefix(longer, Len(longer) - 1) = Entries /\ Len(longer) > 0
    <3>1. Len(longer) - 1 = Len(Entries) /\ Len(Entries) \in 0 .. Len(Entries)
      BY <1>2, <1>5
    <3> QED
      BY <1>2, <1>5, <3>1, PrefixFull
  <2>2. \A id \in Live : copy[id] = Entries
    BY <1>1, <1>4 DEF CopiesOK
  <2> QED
    BY <1>1, <1>4, <1>8, <2>1, <2>2 DEF CopiesOK
<1>11. PhonesOK'
  <2>1. ASSUME NEW p \in Phone
        PROVE  \E k \in 1 .. Len(chain') : \E n \in 0 .. Len(chain'[k]) :
                 stored[p] = Prefix(chain'[k], n)
    <3>0. PICK k \in 1 .. Len(chain) : \E n \in 0 .. Len(chain[k]) :
            stored[p] = Prefix(chain[k], n)
      BY <1>1 DEF PhonesOK
    <3>1. PICK n \in 0 .. Len(chain[k]) : stored[p] = Prefix(chain[k], n)
      BY <3>0
    <3>2. n \in 0 .. Len(chain'[k]) /\ Prefix(chain'[k], n) = Prefix(chain[k], n)
      BY <1>2, <1>5, <1>7
    <3> QED
      BY <1>7, <3>1, <3>2
  <2> QED
    BY <1>1, <1>4, <1>8, <2>1 DEF PhonesOK
<1>12. ViewsOK'
  <2>1. nextID \in Nat /\ Len(longer) \in Nat /\ Len(Entries) <= Len(longer)
    BY <1>1, <1>2, <1>5 DEF CopiesOK
  <2>2. \A r \in Reader : ViewOK(view[r], Len(longer), PublicKey, Live, nextID)
    BY <1>1, <1>2, <2>1, ViewKept DEF ViewsOK
  <2> QED
    BY <1>1, <1>4, <1>8, <2>2 DEF ViewsOK
<1> QED
  BY <1>9, <1>10, <1>11, <1>12 DEF NodesInv

LEMMA FanOutStep ==
  ASSUME NodesInv, FanOut
  PROVE  NodesInv'
<1>1. ChainOK /\ CopiesOK /\ PhonesOK /\ ViewsOK
  BY DEF NodesInv
<1>2. UNCHANGED <<chain, nextID, stored, trusted, view>>
  BY DEF FanOut, phones
<1>3. PICK id \in fanout :
        /\ copy' = [copy EXCEPT ![id] = Receive(@, Last(Entries), PublicKey)]
        /\ fanout' = fanout \ {id}
  BY DEF FanOut
<1>4. /\ IsSeq(Entries) /\ Valid(Entries, PublicKey) /\ Len(Entries) \in 1 .. Len(Entries)
      /\ id \in Live
  BY <1>1, RunningChain DEF CopiesOK
<1>5. Receive(copy[id], Last(Entries), PublicKey) = Entries
  <2>1. copy[id] = Prefix(Entries, Len(Entries) - 1) /\ Last(Entries) = Entries[Len(Entries)]
    BY <1>1, <1>4 DEF CopiesOK, Last
  <2> QED
    BY <1>4, <2>1, ReceiveNext, PrefixFull
<1>6. Entries' = Entries /\ PublicKey' = PublicKey /\ Live' = Live
  BY <1>2, <1>3 DEF Entries, PublicKey, Live
<1>7. \A x \in Live : copy'[x] = IF x = id THEN Entries ELSE copy[x]
  BY <1>3, <1>5 DEF Live
<1>8. CopiesOK'
  BY <1>1, <1>2, <1>3, <1>6, <1>7 DEF CopiesOK
<1>9. ChainOK' /\ PhonesOK' /\ ViewsOK'
  BY <1>1, <1>2, <1>6 DEF ChainOK, PhonesOK, ViewsOK
<1> QED
  BY <1>8, <1>9 DEF NodesInv

\* An answer changes one request's view.
LEMMA AnswerStep ==
  ASSUME ViewsOK, NEW r \in Reader, NEW v, Answers(r, v),
         \A x \in Reader : ViewOK(view[x], Len(Entries)', PublicKey', Live', nextID'),
         ViewOK(v, Len(Entries)', PublicKey', Live', nextID')
  PROVE  ViewsOK'
<1>1. view' = [view EXCEPT ![r] = v] /\ DOMAIN view = Reader
  BY DEF Answers, ViewsOK
<1>2. DOMAIN view' = Reader /\ \A x \in Reader : view'[x] = IF x = r THEN v ELSE view[x]
  BY <1>1
<1>3. ASSUME NEW x \in Reader
      PROVE  ViewOK(view'[x], Len(Entries)', PublicKey', Live', nextID')
  BY <1>2
<1> QED
  BY <1>2, <1>3 DEF ViewsOK

\* A request that changes nothing else.
LEMMA ReadStep ==
  ASSUME NodesInv, NEW r \in Reader, NEW v, Answers(r, v), UNCHANGED <<nodes, phones>>,
         ViewOK(v, Len(Entries), PublicKey, Live, nextID)
  PROVE  NodesInv'
<1>1. ChainOK /\ CopiesOK /\ PhonesOK /\ ViewsOK
  BY DEF NodesInv
<1>2. UNCHANGED <<chain, copy, nextID, fanout, stored, trusted>>
  BY DEF nodes, phones
<1>3. Entries' = Entries /\ PublicKey' = PublicKey /\ Live' = Live
  BY <1>2 DEF Entries, PublicKey, Live
<1>4. ViewsOK'
  <2>1. \A x \in Reader : ViewOK(view[x], Len(Entries)', PublicKey', Live', nextID')
    BY <1>1, <1>2, <1>3 DEF ViewsOK
  <2>2. ViewOK(v, Len(Entries)', PublicKey', Live', nextID')
    BY <1>2, <1>3
  <2> QED
    BY <1>1, <2>1, <2>2, AnswerStep
<1>5. ChainOK' /\ CopiesOK' /\ PhonesOK'
  BY <1>1, <1>2, <1>3 DEF ChainOK, CopiesOK, PhonesOK
<1> QED
  BY <1>4, <1>5 DEF NodesInv

\* Unlocked: every replica holds the whole chain.
LEMMA InStep ==
  ASSUME ChainOK, CopiesOK, Unlocked, NEW id \in Live
  PROVE  copy[id] = Entries /\ VerifyNode(copy[id], PublicKey)
BY RunningChain DEF CopiesOK, Unlocked

LEMMA ListStep ==
  ASSUME NodesInv, NEW r \in Reader, ListLength(r) \/ ListEntries(r)
  PROVE  NodesInv'
<1>1. ChainOK /\ ViewOK(view[r], Len(Entries), PublicKey, Live, nextID)
  BY DEF NodesInv, ViewsOK
<1>2. Len(Entries) \in Nat /\ VerifyNode(Entries, PublicKey)
  BY <1>1, RunningChain
<1>3. CASE ListLength(r)
  <2> DEFINE v == [op |-> "length", length |-> Len(Entries)]
  <2>1. ViewOK(v, Len(Entries), PublicKey, Live, nextID)
    BY <1>2 DEF ViewOK
  <2>2. Answers(r, v) /\ UNCHANGED <<nodes, phones>>
    BY <1>3 DEF ListLength
  <2> HIDE DEF v
  <2> QED
    BY <2>1, <2>2, ReadStep
<1>4. CASE ListEntries(r)
  <2> DEFINE v == [op |-> "list", length |-> view[r].length, entries |-> Entries]
  <2>1. view[r].length <= Len(Entries)
    BY <1>1, <1>4 DEF ViewOK, ListEntries
  <2>2. ViewOK(v, Len(Entries), PublicKey, Live, nextID)
    BY <1>2, <2>1 DEF ViewOK
  <2>3. Answers(r, v) /\ UNCHANGED <<nodes, phones>>
    BY <1>4 DEF ListEntries
  <2> HIDE DEF v
  <2> QED
    BY <2>2, <2>3, ReadStep
<1> QED
  BY <1>3, <1>4

LEMMA VerifyStep ==
  ASSUME NodesInv, NEW r \in Reader, Verify(r) \/ VerifyLength(r)
  PROVE  NodesInv'
<1>1. ChainOK /\ CopiesOK /\ ViewOK(view[r], Len(Entries), PublicKey, Live, nextID)
  BY DEF NodesInv, ViewsOK
<1>2. Len(Entries) \in Nat /\ VerifyNode(Entries, PublicKey)
  BY <1>1, RunningChain
<1>3. CASE Verify(r)
  <2> DEFINE v == [op |-> "verified", valid |-> VerifyCluster(Entries, copy, PublicKey)]
  <2>1. VerifyCluster(Entries, copy, PublicKey)
    BY <1>1, <1>2, <1>3, InStep DEF Verify, VerifyCluster, Live
  <2>2. ViewOK(v, Len(Entries), PublicKey, Live, nextID)
    BY <2>1 DEF ViewOK
  <2>3. Answers(r, v) /\ UNCHANGED <<nodes, phones>>
    BY <1>3 DEF Verify
  <2> HIDE DEF v
  <2> QED
    BY <2>2, <2>3, ReadStep
<1>4. CASE VerifyLength(r)
  <2> DEFINE v == [op |-> "verify", valid |-> view[r].valid, length |-> Len(Entries)]
  <2>1. view[r].valid
    BY <1>1, <1>4 DEF ViewOK, VerifyLength
  <2>2. ViewOK(v, Len(Entries), PublicKey, Live, nextID)
    BY <1>2, <2>1 DEF ViewOK
  <2>3. Answers(r, v) /\ UNCHANGED <<nodes, phones>>
    BY <1>4 DEF VerifyLength
  <2> HIDE DEF v
  <2> QED
    BY <2>2, <2>3, ReadStep
<1> QED
  BY <1>3, <1>4

LEMMA ListNodesStep ==
  ASSUME NodesInv, NEW r \in Reader, ListNodes(r)
  PROVE  NodesInv'
<1> DEFINE killed == IF view[r].op = "kill" THEN {view[r].id} ELSE {}
           v == [op |-> "nodes", nodes |-> Nodes, killed |-> killed]
<1>1. ChainOK /\ CopiesOK /\ ViewOK(view[r], Len(Entries), PublicKey, Live, nextID)
  BY DEF NodesInv, ViewsOK
<1>2. Unlocked /\ Answers(r, v) /\ UNCHANGED <<nodes, phones>>
  BY DEF ListNodes
<1>3. killed \cap Live = {}
  BY <1>1 DEF ViewOK
<1>4. /\ DOMAIN Nodes = Live
      /\ \A id \in Live : Nodes[id].insync /\ Nodes[id].verified
  BY <1>1, <1>2, InStep DEF Nodes
<1> HIDE DEF killed
<1>5. ViewOK(v, Len(Entries), PublicKey, Live, nextID)
  BY <1>3, <1>4 DEF ViewOK
<1> HIDE DEF v
<1> QED
  BY <1>2, <1>5, ReadStep

LEMMA AddReplicaStep ==
  ASSUME NodesInv, NEW r \in Reader, AddReplica(r)
  PROVE  NodesInv'
<1>1. ChainOK /\ CopiesOK /\ PhonesOK /\ ViewsOK
  BY DEF NodesInv
<1>2. /\ Unlocked /\ nextID < MaxNodes /\ nextID' = nextID + 1
      /\ copy' = [id \in Live \cup {nextID} |->
           IF id = nextID THEN Replicate(Entries, PublicKey) ELSE copy[id]]
      /\ Answers(r, [op |-> "add"])
      /\ UNCHANGED <<chain, fanout, stored, trusted>>
  BY DEF AddReplica, phones
<1>3. Entries' = Entries /\ PublicKey' = PublicKey /\ Live' = Live \cup {nextID}
  BY <1>2 DEF Entries, PublicKey, Live
<1>4. /\ IsSeq(Entries) /\ Len(Entries) \in Nat /\ nextID \in Nat
      /\ Replicate(Entries, PublicKey) = Entries
  BY <1>1, RunningChain, ReplicateAll DEF CopiesOK
<1>5. CopiesOK'
  <2>1. nextID' \in 0 .. MaxNodes /\ Live' \subseteq 0 .. (nextID' - 1)
    BY <1>1, <1>2, <1>3, <1>4, NodesAssumption DEF CopiesOK
  <2>2. fanout = {} /\ \A id \in Live : copy[id] = Entries
    BY <1>1, <1>2 DEF Unlocked, CopiesOK
  <2> QED
    BY <1>2, <1>3, <1>4, <2>1, <2>2 DEF CopiesOK
<1>6. ViewsOK'
  <2>1. /\ Len(Entries)' \in Nat /\ Len(Entries) <= Len(Entries)'
        /\ nextID' \in Nat /\ nextID <= nextID'
        /\ Live' \cap (0 .. (nextID - 1)) \subseteq Live
    BY <1>2, <1>3, <1>4
  <2>2. \A x \in Reader : ViewOK(view[x], Len(Entries)', PublicKey', Live', nextID')
    BY <1>1, <1>3, <1>4, <2>1, ViewKept DEF ViewsOK
  <2>3. ViewOK([op |-> "add"], Len(Entries)', PublicKey', Live', nextID')
    BY DEF ViewOK
  <2> QED
    BY <1>1, <1>2, <2>2, <2>3, AnswerStep
<1>7. ChainOK' /\ PhonesOK'
  BY <1>1, <1>2, <1>3 DEF ChainOK, PhonesOK
<1> QED
  BY <1>5, <1>6, <1>7 DEF NodesInv

LEMMA KillReplicaStep ==
  ASSUME NodesInv, NEW r \in Reader, NEW id \in Id, KillReplica(r, id)
  PROVE  NodesInv'
<1>1. ChainOK /\ CopiesOK /\ PhonesOK /\ ViewsOK
  BY DEF NodesInv
<1>2. /\ Unlocked /\ id \in Live
      /\ copy' = [x \in Live \ {id} |-> copy[x]]
      /\ Answers(r, [op |-> "kill", id |-> id])
      /\ UNCHANGED <<chain, nextID, fanout, stored, trusted>>
  BY DEF KillReplica, phones
<1>3. Entries' = Entries /\ PublicKey' = PublicKey /\ Live' = Live \ {id}
  BY <1>2 DEF Entries, PublicKey, Live
<1>4. Len(Entries) \in Nat /\ nextID \in Nat
  BY <1>1, RunningChain DEF CopiesOK
<1>5. CopiesOK'
  BY <1>1, <1>2, <1>3 DEF CopiesOK, Unlocked
<1>6. ViewsOK'
  <2>1. \A x \in Reader : ViewOK(view[x], Len(Entries)', PublicKey', Live', nextID')
    <3>1. Len(Entries) <= Len(Entries) /\ nextID <= nextID
          /\ Live' \cap (0 .. (nextID - 1)) \subseteq Live
      BY <1>3, <1>4
    <3> QED
      BY <1>1, <1>2, <1>3, <1>4, <3>1, ViewKept DEF ViewsOK
  <2>2. ViewOK([op |-> "kill", id |-> id], Len(Entries)', PublicKey', Live', nextID')
    BY <1>1, <1>2, <1>3 DEF ViewOK, CopiesOK
  <2> QED
    BY <1>1, <1>2, <2>1, <2>2, AnswerStep
<1>7. ChainOK' /\ PhonesOK'
  BY <1>1, <1>2, <1>3 DEF ChainOK, PhonesOK
<1> QED
  BY <1>5, <1>6, <1>7 DEF NodesInv

(***************************************************************************)
(* Phones.                                                                 *)
(***************************************************************************)
LEMMA HashNames ==
  ASSUME NEW a, NEW b, NEW c, NEW d, EntryHash(a, b) = EntryHash(c, d)
  PROVE  a = c /\ b = d
<1>1. <<a, b>>[1] = a /\ <<a, b>>[2] = b /\ <<c, d>>[1] = c /\ <<c, d>>[2] = d
  OBVIOUS
<1> QED
  BY <1>1 DEF EntryHash

LEMMA SignNames ==
  ASSUME NEW a, NEW b, NEW c, NEW d, Sign(a, b) = Sign(c, d)
  PROVE  a = c /\ b = d
<1>1. <<a, b>>[1] = a /\ <<a, b>>[2] = b /\ <<c, d>>[1] = c /\ <<c, d>>[2] = d
  OBVIOUS
<1> QED
  BY <1>1 DEF Sign

\* The link of an entry to the one before it names its content and its signature, so a
\* node that accepts an entry of the running chain holds a prefix of that chain.
LEMMA AcceptedIsNext ==
  ASSUME ChainOK, NEW k \in 1 .. Len(chain), NEW n \in 0 .. Len(chain[k]),
         NEW i \in 1 .. Len(Entries), Checks(Prefix(chain[k], n), Entries[i], PublicKey)
  PROVE  i = n + 1 /\ Prefix(chain[k], n) = Prefix(Entries, n)
<1>1. /\ IsSeq(chain[k]) /\ Valid(chain[k], k)
      /\ IsSeq(Entries) /\ Valid(Entries, PublicKey) /\ Len(Entries) \in Nat
      /\ Entries = chain[PublicKey] /\ n \in Nat /\ Len(chain[k]) \in Nat
  BY RunningChain, SeqFacts DEF ChainOK
<1> DEFINE p == Prefix(chain[k], n)
<1>2. IsSeq(p) /\ Len(p) = n /\ \A j \in 1 .. n : p[j] = chain[k][j]
  BY <1>1, PrefixFacts
<1> HIDE DEF p
<1>3. Fits(p, n, Entries[i], PublicKey)
  BY <1>2, ChecksFits DEF p
<1>4. Fits(Entries, i - 1, Entries[i], PublicKey)
  BY <1>1 DEF Valid
<1>5. i = n + 1
  <2>1. Entries[i].content.seq = n /\ Entries[i].content.seq = i - 1
    BY <1>3, <1>4 DEF Fits
  <2> QED
    BY <1>1, <2>1
<1>6. CASE n = 0
  BY <1>6, <1>5, SubSeqEmpty DEF Prefix
<1>7. CASE n # 0
  <2>1. n \in 1 .. Len(chain[k]) /\ n \in 1 .. Len(Entries) /\ i - 1 = n /\ p[n] = chain[k][n]
    BY <1>1, <1>2, <1>5, <1>7
  <2>2. chain[k][n].hash = Entries[n].hash
    BY <1>3, <1>4, <1>7, <2>1 DEF Fits, Before
  <2>3. Fits(chain[k], n - 1, chain[k][n], k) /\ Fits(Entries, n - 1, Entries[n], PublicKey)
    BY <1>1, <2>1 DEF Valid
  <2> DEFINE x == chain[k][n]
             y == Entries[n]
  <2>4. /\ EntryHash(x.content, x.sig) = EntryHash(y.content, y.sig)
        /\ x.sig = Sign(k, x.content) /\ y.sig = Sign(PublicKey, y.content)
    BY <2>2, <2>3 DEF Fits
  <2> HIDE DEF x, y
  <2>5. k = PublicKey
    <3>1. x.sig = y.sig
      BY <2>4, HashNames
    <3>2. Sign(k, x.content) = Sign(PublicKey, y.content)
      BY <2>4, <3>1
    <3> QED
      BY <3>2, SignNames
  <2> QED
    BY <1>1, <1>5, <2>5
<1> QED
  BY <1>6, <1>7

\* A frame adds to a phone's copy the entry of the running chain that follows it, or
\* nothing.
LEMMA FrameAppends ==
  ASSUME NodesInv, NEW p \in Phone, Frame(p)
  PROVE  /\ \A x \in Phone \ {p} : stored'[x] = stored[x]
         /\ stored' = [x \in Phone |-> stored'[x]]
         /\ \/ stored'[p] = stored[p]
            \/ \E n \in 1 .. Len(Entries) : /\ stored[p] = Prefix(Entries, n - 1)
                                            /\ stored'[p] = Prefix(Entries, n)
<1>1. ChainOK /\ PhonesOK
  BY DEF NodesInv
<1>2. /\ IsSeq(Entries) /\ Valid(Entries, PublicKey) /\ DOMAIN Entries = 1 .. Len(Entries)
      /\ trusted[p] = PublicKey
  BY <1>1, RunningChain, SeqFacts DEF PhonesOK, Frame
<1>3. PICK i \in 1 .. Len(Entries) :
        stored' = [stored EXCEPT ![p] = Receive(@, Entries[i], PublicKey)]
  BY <1>2 DEF Frame, ToSet
<1>4. DOMAIN stored = Phone
  BY <1>1 DEF PhonesOK
<1>5. /\ \A x \in Phone \ {p} : stored'[x] = stored[x]
      /\ stored' = [x \in Phone |-> stored'[x]]
      /\ stored'[p] = Receive(stored[p], Entries[i], PublicKey)
  BY <1>3, <1>4
<1>6. CASE ~Checks(stored[p], Entries[i], PublicKey)
  BY <1>5, <1>6 DEF Receive
<1>7. CASE Checks(stored[p], Entries[i], PublicKey)
  <2>1. PICK k \in 1 .. Len(chain) : \E n \in 0 .. Len(chain[k]) :
          stored[p] = Prefix(chain[k], n)
    BY <1>1 DEF PhonesOK
  <2>2. PICK n \in 0 .. Len(chain[k]) : stored[p] = Prefix(chain[k], n)
    BY <2>1
  <2>3. i = n + 1 /\ stored[p] = Prefix(Entries, n)
    BY <1>1, <1>7, <2>2, AcceptedIsNext
  <2>4. n = i - 1
    BY <2>3
  <2> QED
    BY <1>2, <1>5, <2>3, <2>4, ReceiveNext
<1> QED
  BY <1>5, <1>6, <1>7

LEMMA PhoneStep ==
  ASSUME NodesInv, NEW p \in Phone, Welcome(p) \/ Frame(p) \/ Disconnect(p)
  PROVE  NodesInv'
<1>1. ChainOK /\ CopiesOK /\ PhonesOK /\ ViewsOK
  BY DEF NodesInv
<1>2. UNCHANGED <<chain, copy, nextID, fanout, view>>
  BY DEF Welcome, Frame, Disconnect, nodes
<1>3. Entries' = Entries /\ PublicKey' = PublicKey /\ Live' = Live
  BY <1>2 DEF Entries, PublicKey, Live
<1>4. ChainOK' /\ CopiesOK' /\ ViewsOK'
  BY <1>1, <1>2, <1>3 DEF ChainOK, CopiesOK, ViewsOK
<1>5. trusted' \in [Phone -> {0, PublicKey}]
  BY <1>1 DEF PhonesOK, Welcome, Frame, Disconnect
<1>6. CASE Welcome(p) \/ Disconnect(p)
  <2>1. stored' = stored
    BY <1>6 DEF Welcome, Disconnect
  <2>2. PhonesOK'
    BY <1>1, <1>2, <1>3, <1>5, <2>1 DEF PhonesOK
  <2> QED
    BY <1>4, <2>2 DEF NodesInv
<1>7. CASE Frame(p)
  <2>1. /\ \A x \in Phone \ {p} : stored'[x] = stored[x]
        /\ stored' = [x \in Phone |-> stored'[x]]
        /\ \/ stored'[p] = stored[p]
           \/ \E n \in 1 .. Len(Entries) : /\ stored[p] = Prefix(Entries, n - 1)
                                           /\ stored'[p] = Prefix(Entries, n)
    BY <1>7, FrameAppends
  <2>2. PublicKey \in 1 .. Len(chain) /\ Entries = chain[PublicKey] /\ Len(Entries) \in Nat
    BY <1>1, RunningChain
  <2>3. ASSUME NEW x \in Phone
        PROVE  \E k \in 1 .. Len(chain) : \E n \in 0 .. Len(chain[k]) :
                 stored'[x] = Prefix(chain[k], n)
    <3>1. CASE stored'[x] = stored[x]
      BY <1>1, <3>1 DEF PhonesOK
    <3>2. CASE x = p /\ stored'[p] # stored[p]
      BY <2>1, <2>2, <3>2
    <3> QED
      BY <2>1, <3>1, <3>2
  <2>4. PhonesOK'
    BY <1>2, <1>3, <1>5, <2>1, <2>3 DEF PhonesOK
  <2> QED
    BY <1>4, <2>4 DEF NodesInv
<1> QED
  BY <1>6, <1>7

LEMMA RestartStep ==
  ASSUME NodesInv, Restart
  PROVE  NodesInv'
<1>1. ChainOK /\ CopiesOK /\ PhonesOK /\ ViewsOK
  BY DEF NodesInv
<1>2. /\ PublicKey < MaxKey /\ chain' = Append(chain, <<>>)
      /\ copy' = [id \in 0 .. (Boot - 1) |-> <<>>] /\ nextID' = Boot /\ fanout' = {}
      /\ trusted' = [p \in Phone |-> 0] /\ view' = [r \in Reader |-> NoView]
      /\ stored' = stored
  BY DEF Restart
<1>3. Len(chain) \in Nat /\ IsSeq(chain)
  BY <1>1 DEF ChainOK
<1>4. /\ IsSeq(chain') /\ Len(chain') = Len(chain) + 1 /\ chain'[Len(chain) + 1] = <<>>
      /\ \A k \in 1 .. Len(chain) : chain'[k] = chain[k]
  BY <1>2, <1>3, AppendFacts
<1>5. PublicKey' = Len(chain) + 1 /\ Entries' = <<>>
  BY <1>4 DEF PublicKey, Entries, Last
<1>6. ChainOK'
  <2>1. Len(chain') \in 1 .. MaxKey
    BY <1>2, <1>3, <1>4, NodesAssumption DEF PublicKey
  <2>2. ASSUME NEW k \in 1 .. Len(chain')
        PROVE  /\ IsSeq(chain'[k]) /\ Valid(chain'[k], k)
               /\ \A i \in 1 .. Len(chain'[k]) : IsEntry(chain'[k][i])
    <3>1. CASE k \in 1 .. Len(chain)
      BY <1>1, <1>4, <3>1 DEF ChainOK
    <3>2. CASE k = Len(chain) + 1
      <4>1. 1 .. Len(<<>>) = {}
        BY EmptyChain
      <4> QED
        BY <1>4, <3>2, <4>1, EmptyChain
    <3> QED
      BY <1>3, <1>4, <3>1, <3>2
  <2> QED
    BY <1>4, <2>1, <2>2 DEF ChainOK
<1>7. CopiesOK'
  BY <1>2, <1>5, NodesAssumption DEF CopiesOK, Live
<1>8. PhonesOK'
  <2>1. ASSUME NEW p \in Phone
        PROVE  \E k \in 1 .. Len(chain') : \E n \in 0 .. Len(chain'[k]) :
                 stored[p] = Prefix(chain'[k], n)
    <3>1. PICK k \in 1 .. Len(chain) : \E n \in 0 .. Len(chain[k]) :
            stored[p] = Prefix(chain[k], n)
      BY <1>1 DEF PhonesOK
    <3>2. k \in 1 .. Len(chain') /\ chain'[k] = chain[k]
      BY <1>3, <1>4
    <3> QED
      BY <3>1, <3>2
  <2> QED
    BY <1>1, <1>2, <2>1 DEF PhonesOK
<1>9. ViewsOK'
  BY <1>2 DEF ViewsOK, ViewOK, NoView
<1> QED
  BY <1>6, <1>7, <1>8, <1>9 DEF NodesInv

LEMMA NodesStep == NodesInv /\ [Next]_chains => NodesInv'
<1> SUFFICES ASSUME NodesInv, [Next]_chains PROVE NodesInv'
  OBVIOUS
<1>1. CASE \E data \in Data : AppendPayment(data)
  BY <1>1, AppendPaymentStep
<1>2. CASE FanOut
  BY <1>2, FanOutStep
<1>3. CASE \E r \in Reader : AddReplica(r)
  BY <1>3, AddReplicaStep
<1>4. CASE \E r \in Reader : \E id \in Id : KillReplica(r, id)
  BY <1>4, KillReplicaStep
<1>5. CASE \E r \in Reader : ListLength(r) \/ ListEntries(r)
  BY <1>5, ListStep
<1>6. CASE \E r \in Reader : Verify(r) \/ VerifyLength(r)
  BY <1>6, VerifyStep
<1>7. CASE \E r \in Reader : ListNodes(r)
  BY <1>7, ListNodesStep
<1>8. CASE \E p \in Phone : Welcome(p) \/ Frame(p) \/ Disconnect(p)
  BY <1>8, PhoneStep
<1>9. CASE Restart
  BY <1>9, RestartStep
<1>10. CASE UNCHANGED chains
  <2>1. UNCHANGED <<chain, copy, nextID, fanout, stored, trusted, view>>
    BY <1>10 DEF chains, nodes, phones
  <2>2. Entries' = Entries /\ PublicKey' = PublicKey /\ Live' = Live
    BY <2>1 DEF Entries, PublicKey, Live
  <2> QED
    BY <2>1, <2>2 DEF NodesInv, ChainOK, CopiesOK, PhonesOK, ViewsOK
<1> QED
  BY <1>1, <1>2, <1>3, <1>4, <1>5, <1>6, <1>7, <1>8, <1>9, <1>10 DEF Next

(***************************************************************************)
(* The theorems about states.                                              *)
(***************************************************************************)
\* However appends, fan-outs, requests, frames and restarts interleave, every state
\* satisfies the invariant above.
THEOREM NodesInvariant == Spec => []NodesInv
<1> QED
  BY InitNodes, NodesStep, PTL DEF Spec

\* The chain, the replicas and the phones keep their types; only live replicas are still
\* to receive an entry.
THEOREM ChainTypeCorrect == Spec => []ChainTypeOK
<1>1. ASSUME NodesInv PROVE ChainTypeOK
  <2>1. ChainOK /\ CopiesOK /\ PhonesOK /\ DOMAIN view = Reader
    BY <1>1 DEF NodesInv, ViewsOK
  <2>2. PublicKey \in 1 .. MaxKey /\ PublicKey = Len(chain)
    BY <2>1 DEF ChainOK, PublicKey
  <2>3. \A k \in 1 .. PublicKey : DOMAIN chain[k] = 1 .. Len(chain[k])
    BY <2>1, <2>2, SeqFacts DEF ChainOK
  <2> DEFINE U == UNION {ToSet(chain[k]) : k \in 1 .. PublicKey}
  <2>4. ASSUME NEW p \in Phone PROVE stored[p] \in Seq(U)
    <3>1. PICK k \in 1 .. Len(chain) : \E n \in 0 .. Len(chain[k]) :
            stored[p] = Prefix(chain[k], n)
      BY <2>1 DEF PhonesOK
    <3>2. PICK n \in 0 .. Len(chain[k]) : stored[p] = Prefix(chain[k], n)
      BY <3>1
    <3>3. ToSet(chain[k]) \subseteq U /\ IsSeq(chain[k]) /\ Len(chain[k]) \in Nat
      BY <2>1, <2>2, SeqFacts DEF ChainOK
    <3> HIDE DEF U
    <3>4. \A i \in 1 .. n : chain[k][i] \in U
      BY <2>2, <2>3, <3>3 DEF ToSet
    <3>5. 1 \in Int /\ n \in Int
      BY <3>3
    <3> QED
      BY <3>2, <3>4, <3>5, SubSeqProperties DEF Prefix
  <2>5. stored \in [Phone -> Seq(U)]
    <3> HIDE DEF U
    <3> QED
      BY <2>1, <2>4 DEF PhonesOK
  <2>6. trusted \in [Phone -> 0 .. PublicKey]
    BY <2>1, <2>2 DEF PhonesOK
  <2> QED
    BY <2>1, <2>2, <2>3, <2>5, <2>6 DEF ChainTypeOK, ChainOK, CopiesOK, IsEntry
<1> QED
  BY <1>1, NodesInvariant, PTL

\* ledgerList, ledgerVerify and ledgerNodes answer coherently although they read the
\* chain in several steps and under two locks.
THEOREM CoherentAnswers == Spec => []AnswersCoherent
<1>1. ASSUME NodesInv PROVE AnswersCoherent
  <2> SUFFICES ASSUME NEW r \in Reader
               PROVE  LET v == view[r]
                      IN  CASE v.op = "list" ->
                                 v.length <= Len(v.entries) /\ VerifyNode(v.entries, PublicKey)
                            [] v.op = "verify" -> v.valid /\ v.length <= Len(Entries)
                            [] v.op = "nodes" ->
                                 /\ v.killed \cap DOMAIN v.nodes = {}
                                 /\ \A id \in DOMAIN v.nodes :
                                      v.nodes[id].insync /\ v.nodes[id].verified
                            [] OTHER -> TRUE
    BY DEF AnswersCoherent
  <2>1. ViewOK(view[r], Len(Entries), PublicKey, Live, nextID)
    BY <1>1 DEF NodesInv, ViewsOK
  <2> QED
    BY <2>1 DEF ViewOK
<1> QED
  BY <1>1, NodesInvariant, PTL

(***************************************************************************)
(* Damage to a stored chain.                                               *)
(***************************************************************************)
LEMMA EntryRecord ==
  ASSUME NEW e, IsEntry(e)
  PROVE  e = [content |-> e.content, sig |-> e.sig, hash |-> e.hash]
<1> DEFINE c == [seq |-> e.content.seq, prev |-> e.content.prev, data |-> e.content.data]
<1>1. e = [content |-> c, sig |-> e.sig, hash |-> e.hash]
  BY DEF IsEntry
<1> HIDE DEF c
<1>2. e.content = c
  BY <1>1
<1> QED
  BY <1>1, <1>2

\* A substitute keeps a signature made for another content, or one made with no key.
LEMMA SubstituteForm ==
  ASSUME NEW s, IsSeq(s), \A i \in 1 .. Len(s) : IsEntry(s[i]), NEW x \in Substitutes(s)
  PROVE  \E m \in 1 .. Len(s) :
           /\ x = [content |-> x.content, sig |-> x.sig, hash |-> x.hash]
           /\ x.sig = s[m].sig \/ x.sig = Sign(0, s[m].content)
<1> DEFINE Form(y, e) ==
      /\ y = [content |-> y.content, sig |-> y.sig, hash |-> y.hash]
      /\ y.sig = e.sig \/ y.sig = Sign(0, e.content)
<1>1. ASSUME NEW e, IsEntry(e), NEW y \in Changed(e) PROVE Form(y, e)
  BY <1>1 DEF Changed, IsEntry
<1>2. ASSUME NEW e, NEW y, Form(y, e) PROVE Form(Rehashed(y), e)
  BY <1>2 DEF Rehashed
<1> HIDE DEF Form
<1>3. DOMAIN s = 1 .. Len(s)
  BY SeqFacts
<1>4. PICK y : (x = y \/ x = Rehashed(y)) /\ \E m \in 1 .. Len(s) : y \in Changed(s[m])
  BY <1>3 DEF Substitutes, ToSet
<1>5. PICK m \in 1 .. Len(s) : y \in Changed(s[m])
  BY <1>4
<1>6. Form(x, s[m])
  BY <1>1, <1>2, <1>4, <1>5
<1> QED
  BY <1>6 DEF Form

\* An entry that fits where it stands is fixed by its place: any change of one field
\* shows, whether or not its hash is recomputed.
LEMMA ChangeShows ==
  ASSUME NEW s, IsSeq(s), \A i \in 1 .. Len(s) : IsEntry(s[i]),
         NEW key, key # 0, Valid(s, key),
         NEW i \in 1 .. Len(s), NEW x \in Substitutes(s), Fits(s, i - 1, x, key)
  PROVE  x = s[i]
<1>1. PICK m \in 1 .. Len(s) :
        /\ x = [content |-> x.content, sig |-> x.sig, hash |-> x.hash]
        /\ x.sig = s[m].sig \/ x.sig = Sign(0, s[m].content)
  BY SubstituteForm
<1>2. Fits(s, m - 1, s[m], key)
  BY DEF Valid
<1>3. x.sig = Sign(key, x.content) /\ s[m].sig = Sign(key, s[m].content)
  BY <1>2 DEF Fits
<1>4. x.content = s[m].content
  BY <1>1, <1>3, SignNames
<1>5. x.sig = s[m].sig /\ x.hash = s[m].hash
  BY <1>2, <1>3, <1>4 DEF Fits
<1>6. m = i
  <2>1. x.content.seq = i - 1 /\ s[m].content.seq = m - 1
    BY <1>2 DEF Fits
  <2>2. i \in Nat /\ m \in Nat
    BY SeqFacts
  <2> QED
    BY <1>4, <2>1, <2>2
<1>7. s[m] = [content |-> s[m].content, sig |-> s[m].sig, hash |-> s[m].hash]
  BY EntryRecord
<1> QED
  BY <1>1, <1>4, <1>5, <1>6, <1>7

\* A chain without one of its entries, and without the last one.
LEMMA RemovedFacts ==
  ASSUME NEW s, IsSeq(s), NEW i \in 1 .. Len(s), NEW d, d = RemoveAt(s, i)
  PROVE  /\ IsSeq(d) /\ Len(d) = Len(s) - 1
         /\ \A m \in 1 .. Len(s) - 1 : d[m] = IF m < i THEN s[m] ELSE s[m + 1]
<1>1. Len(s) \in Nat /\ DOMAIN s = 1 .. Len(s)
  BY SeqFacts
<1> DEFINE n == Len(s)
           a == SubSeq(s, 1, i - 1)
           b == SubSeq(s, i + 1, n)
<1>2. /\ 1 \in Int /\ i - 1 \in Int /\ i + 1 \in Int /\ n \in Int
      /\ \A m \in 1 .. (i - 1) : s[m] \in ToSet(s)
      /\ \A m \in (i + 1) .. n : s[m] \in ToSet(s)
  BY <1>1 DEF ToSet
<1>3. /\ a \in Seq(ToSet(s)) /\ Len(a) = IF 1 <= i - 1 THEN i - 1 - 1 + 1 ELSE 0
      /\ \A m \in 1 .. i - 1 - 1 + 1 : a[m] = s[1 + m - 1]
  BY <1>2, SubSeqProperties
<1>4. /\ b \in Seq(ToSet(s)) /\ Len(b) = IF i + 1 <= n THEN n - (i + 1) + 1 ELSE 0
      /\ \A m \in 1 .. n - (i + 1) + 1 : b[m] = s[i + 1 + m - 1]
  BY <1>2, SubSeqProperties
<1>5. d = a \o b
  BY DEF RemoveAt
<1>6. i \in Nat /\ i >= 1 /\ i <= n /\ n \in Nat
  BY <1>1
<1> HIDE DEF a, b, n
<1>7. Len(a) = i - 1 /\ \A m \in 1 .. i - 1 : a[m] = s[m]
  BY <1>3, <1>6
<1>8. Len(b) = n - i /\ \A m \in 1 .. n - i : b[m] = s[i + m]
  <2>1. CASE i = n
    BY <1>4, <1>6, <2>1
  <2>2. CASE i # n
    BY <1>4, <1>6, <2>2
  <2> QED
    BY <2>1, <2>2
<1>9. /\ d \in Seq(ToSet(s)) /\ Len(d) = Len(a) + Len(b)
      /\ \A m \in 1 .. Len(a) + Len(b) : d[m] = IF m <= Len(a) THEN a[m] ELSE b[m - Len(a)]
  <2>1. a \in Seq(ToSet(s)) /\ b \in Seq(ToSet(s))
    BY <1>3, <1>4
  <2>2. /\ a \o b \in Seq(ToSet(s)) /\ Len(a \o b) = Len(a) + Len(b)
        /\ \A m \in 1 .. Len(a) + Len(b) :
             (a \o b)[m] = IF m <= Len(a) THEN a[m] ELSE b[m - Len(a)]
    BY <2>1, ConcatProperties
  <2> QED
    BY <1>5, <2>2
<1>10. IsSeq(d)
  BY <1>9, SeqIs
<1>11. ASSUME NEW m \in 1 .. n - 1 PROVE d[m] = IF m < i THEN s[m] ELSE s[m + 1]
  <2>1. m \in 1 .. Len(a) + Len(b)
    BY <1>6, <1>7, <1>8
  <2>2. d[m] = IF m <= Len(a) THEN a[m] ELSE b[m - Len(a)]
    BY <1>9, <2>1
  <2>3. CASE m < i
    <3>1. m \in 1 .. i - 1 /\ m <= Len(a)
      BY <1>6, <1>7, <2>3
    <3> QED
      BY <1>7, <2>2, <2>3, <3>1
  <2>4. CASE ~(m < i)
    <3>1. m - Len(a) \in 1 .. n - i /\ i + (m - Len(a)) = m + 1 /\ ~(m <= Len(a))
      BY <1>6, <1>7, <2>4
    <3>2. b[m - Len(a)] = s[i + (m - Len(a))]
      BY <1>8, <3>1
    <3> QED
      BY <2>2, <2>4, <3>1, <3>2
  <2> QED
    BY <2>3, <2>4
<1>12. Len(d) = n - 1
  BY <1>6, <1>7, <1>8, <1>9
<1> QED
  BY <1>10, <1>11, <1>12 DEF n

LEMMA FrontIs ==
  ASSUME NEW s, IsSeq(s), Len(s) > 0
  PROVE  /\ IsSeq(Front(s)) /\ Len(Front(s)) = Len(s) - 1
         /\ \A m \in 1 .. Len(s) - 1 : Front(s)[m] = s[m]
<1>1. Len(s) \in Nat /\ Len(s) - 1 \in 0 .. Len(s)
  BY SeqFacts
<1>2. Front(s) = Prefix(s, Len(s) - 1)
  BY DEF Front, Prefix
<1> QED
  BY <1>1, <1>2, PrefixFacts

\* It still fits: nothing in a chain says where it ends.
LEMMA FrontValid ==
  ASSUME NEW s, IsSeq(s), Len(s) > 0, NEW key, Valid(s, key)
  PROVE  VerifyNode(Front(s), key)
<1>1. /\ IsSeq(Front(s)) /\ Len(Front(s)) = Len(s) - 1 /\ Len(s) \in Nat
      /\ \A m \in 1 .. Len(s) - 1 : Front(s)[m] = s[m]
  BY FrontIs, SeqFacts
<1> DEFINE f == Front(s)
<1> HIDE DEF f
<1>2. ASSUME NEW m \in 1 .. Len(s) - 1 PROVE Fits(f, m - 1, f[m], key)
  <2>1. Fits(s, m - 1, s[m], key) /\ f[m] = s[m] /\ m \in Nat
    BY <1>1 DEF Valid, f
  <2>2. Before(f, m - 1) = Before(s, m - 1)
    BY <1>1, <2>1 DEF Before, f
  <2> QED
    BY <2>1, <2>2 DEF Fits
<1>3. Valid(f, key)
  BY <1>1, <1>2 DEF Valid, f
<1> QED
  BY <1>1, <1>3, VerifyIsValid DEF f

LEMMA DamageShows ==
  ASSUME NEW s, IsSeq(s), \A i \in 1 .. Len(s) : IsEntry(s[i]),
         NEW key, key # 0, Valid(s, key), NEW d \in Damaged(s), d # s
  PROVE  ~VerifyNode(d, key) \/ d = Front(s)
<1>1. Len(s) \in Nat /\ DOMAIN s = 1 .. Len(s)
  BY SeqFacts
<1>2. ASSUME NEW i \in 1 .. Len(s), NEW x \in Substitutes(s), Replaces(d, s, i, x)
      PROVE  ~VerifyNode(d, key)
  <2>1. /\ IsSeq(d) /\ Len(d) = Len(s)
        /\ \A j \in 1 .. Len(s) : d[j] = IF j = i THEN x ELSE s[j]
    BY <1>2, ExceptFacts
  <2>2. SUFFICES ASSUME Valid(d, key) PROVE FALSE
    BY <2>1, VerifyIsValid
  <2>3. Fits(d, i - 1, x, key)
    BY <2>1, <2>2 DEF Valid
  <2>4. Before(d, i - 1) = Before(s, i - 1)
    BY <1>1, <2>1 DEF Before
  <2>5. Fits(s, i - 1, x, key)
    BY <2>3, <2>4 DEF Fits
  <2>6. x = s[i]
    BY <2>5, ChangeShows
  <2>7. d = s
    BY <2>1, <2>6, SameSeq
  <2> QED
    BY <2>7
<1>3. ASSUME NEW i \in 1 .. Len(s), NEW j \in 1 .. Len(s),
             d = [s EXCEPT ![i] = s[j], ![j] = s[i]]
      PROVE  ~VerifyNode(d, key)
  <2> DEFINE h == [s EXCEPT ![i] = s[j]]
  <2>1. Replaces(h, s, i, s[j]) /\ Replaces(d, h, j, s[i])
    BY <1>3 DEF Replaces
  <2> HIDE DEF h
  <2>2. /\ IsSeq(h) /\ Len(h) = Len(s)
        /\ \A m \in 1 .. Len(s) : h[m] = IF m = i THEN s[j] ELSE s[m]
    BY <2>1, ExceptFacts
  <2>3. /\ IsSeq(d) /\ Len(d) = Len(s)
        /\ \A m \in 1 .. Len(s) : d[m] = IF m = j THEN s[i] ELSE h[m]
    <3>1. j \in 1 .. Len(h)
      BY <2>2
    <3>2. /\ IsSeq(d) /\ Len(d) = Len(h)
          /\ \A m \in 1 .. Len(h) : d[m] = IF m = j THEN s[i] ELSE h[m]
      BY <2>1, <2>2, <3>1, ExceptFacts
    <3> QED
      BY <2>2, <3>2
  <2>4. i # j
    <3>1. SUFFICES ASSUME i = j PROVE FALSE
      OBVIOUS
    <3>2. \A m \in 1 .. Len(s) : d[m] = s[m]
      BY <2>2, <2>3, <3>1
    <3> QED
      BY <2>3, <3>2, SameSeq
  <2>5. SUFFICES ASSUME Valid(d, key) PROVE FALSE
    BY <2>3, VerifyIsValid
  <2>6. Fits(d, i - 1, s[j], key) /\ Fits(s, j - 1, s[j], key)
    BY <2>2, <2>3, <2>4, <2>5 DEF Valid
  <2>7. s[j].content.seq = i - 1 /\ s[j].content.seq = j - 1 /\ i \in Nat /\ j \in Nat
    BY <1>1, <2>6 DEF Fits
  <2> QED
    BY <2>4, <2>7
<1>4. ASSUME NEW i \in 1 .. Len(s), d = RemoveAt(s, i), VerifyNode(d, key)
      PROVE  d = Front(s)
  <2>1. i \in Nat /\ i >= 1 /\ i <= Len(s) /\ Len(s) \in Nat /\ Len(s) > 0
    BY <1>1
  <2>2. /\ IsSeq(d) /\ Len(d) = Len(s) - 1
        /\ \A m \in 1 .. Len(s) - 1 : d[m] = IF m < i THEN s[m] ELSE s[m + 1]
    BY <1>4, RemovedFacts
  <2>3. i = Len(s)
    <3>1. SUFFICES ASSUME i # Len(s) PROVE FALSE
      OBVIOUS
    <3>2. i \in 1 .. (Len(s) - 1) /\ i + 1 \in 1 .. Len(s)
      BY <2>1, <3>1
    <3>3. Valid(d, key)
      BY <1>4, <2>2, VerifyIsValid
    <3>4. d[i] = s[i + 1] /\ i \in 1 .. Len(d) /\ (i + 1) - 1 = i
      BY <2>1, <2>2, <3>2
    <3>5. Fits(d, i - 1, d[i], key) /\ Fits(s, (i + 1) - 1, s[i + 1], key)
      BY <3>2, <3>3, <3>4 DEF Valid
    <3> QED
      BY <2>1, <3>4, <3>5 DEF Fits
  <2>4. IsSeq(Front(s)) /\ Len(Front(s)) = Len(s) - 1 /\ \A m \in 1 .. Len(s) - 1 : Front(s)[m] = s[m]
    BY <2>1, FrontIs
  <2>5. \A m \in 1 .. Len(s) - 1 : d[m] = s[m]
    BY <1>1, <2>1, <2>2, <2>3
  <2> QED
    BY <2>2, <2>4, <2>5, SameSeq
<1>5. \/ \E i \in 1 .. Len(s), x \in Substitutes(s) : d = [s EXCEPT ![i] = x]
      \/ \E i \in 1 .. Len(s), j \in 1 .. Len(s) : d = [s EXCEPT ![i] = s[j], ![j] = s[i]]
      \/ \E i \in 1 .. Len(s) : d = RemoveAt(s, i)
  BY <1>1 DEF Damaged
<1> QED
  BY <1>2, <1>3, <1>4, <1>5 DEF Replaces

\* Verify: damage to the anchor's chain or to a replica's copy does not go undetected,
\* whatever the chain holds, while nothing is being fanned out; what passes is the
\* anchor's chain without its last entry where there is no replica, and nothing else.
THEOREM DamageDetected == Spec => []TamperDetected
<1>1. ASSUME NodesInv, fanout = {}, NEW damaged \in Damaged(Entries) \ {Entries}
      PROVE  /\ VerifyCluster(damaged, copy, PublicKey) <=> Live = {} /\ damaged = Front(Entries)
             /\ \A id \in Live :
                  ~VerifyCluster(Entries, [copy EXCEPT ![id] = damaged], PublicKey)
  <2>1. ChainOK /\ CopiesOK
    BY <1>1 DEF NodesInv
  <2>2. /\ IsSeq(Entries) /\ Valid(Entries, PublicKey) /\ PublicKey # 0
        /\ Entries = chain[PublicKey] /\ PublicKey \in 1 .. Len(chain)
    BY <2>1, RunningChain
  <2>3. \A i \in 1 .. Len(Entries) : IsEntry(Entries[i])
    BY <2>1, <2>2 DEF ChainOK
  <2>4. ~VerifyNode(damaged, PublicKey) \/ damaged = Front(Entries)
    BY <2>2, <2>3, DamageShows
  <2>5. Len(Entries) > 0 /\ Len(Entries) \in Nat
    <3>1. Len(Entries) \in Nat /\ DOMAIN Entries = 1 .. Len(Entries)
      BY <2>2, SeqFacts
    <3>2. DOMAIN Entries # {}
      BY DEF Damaged
    <3> QED
      BY <3>1, <3>2
  <2>6. Len(Front(Entries)) # Len(Entries) /\ VerifyNode(Front(Entries), PublicKey)
    BY <2>2, <2>5, FrontIs, FrontValid
  <2>7. \A id \in Live : Len(copy[id]) = Len(Entries) /\ id \in DOMAIN copy
    BY <1>1, <2>1 DEF CopiesOK, Live
  <2>8. ASSUME NEW id \in Live
        PROVE  ~VerifyCluster(Entries, [copy EXCEPT ![id] = damaged], PublicKey)
    <3> DEFINE copies == [copy EXCEPT ![id] = damaged]
    <3>1. copies[id] = damaged /\ id \in DOMAIN copies
      BY <2>7
    <3> HIDE DEF copies
    <3>2. ~VerifyCluster(Entries, copies, PublicKey)
      BY <2>4, <2>6, <3>1 DEF VerifyCluster
    <3> QED
      BY <3>2 DEF copies
  <2>9. Live # {} => ~VerifyCluster(damaged, copy, PublicKey)
    BY <2>4, <2>6, <2>7 DEF VerifyCluster
  <2>10. Live = {} => (VerifyCluster(damaged, copy, PublicKey) <=> damaged = Front(Entries))
    BY <2>4, <2>6 DEF VerifyCluster, Live
  <2> QED
    BY <2>8, <2>9, <2>10
<1>2. NodesInv => TamperDetected
  BY <1>1 DEF TamperDetected
<1> QED
  BY <1>2, NodesInvariant, PTL

(***************************************************************************)
(* The chain implements the signed log: every step of it is a step of      *)
(* SignedLog over the facts of the entries, or none.                       *)
(***************************************************************************)
LEMMA FactsOf ==
  ASSUME NEW s, IsSeq(s)
  PROVE  /\ IsSeq(Facts(s)) /\ Len(Facts(s)) = Len(s)
         /\ \A i \in 1 .. Len(s) : Facts(s)[i] = s[i].content.data
<1>1. Len(s) \in Nat /\ DOMAIN s = 1 .. Len(s)
  BY SeqFacts
<1> DEFINE n == Len(s)
           T == {s[i].content.data : i \in 1 .. n}
<1>2. Facts(s) \in [1 .. n -> T] /\ \A i \in 1 .. n : Facts(s)[i] = s[i].content.data
  BY <1>1 DEF Facts
<1>3. n \in Nat
  BY <1>1
<1> HIDE DEF n, T
<1>4. Facts(s) \in Seq(T)
  BY <1>2, <1>3, SeqDef
<1>5. Len(Facts(s)) = n
  BY <1>2, <1>3, <1>4, LenProperties
<1> QED
  BY <1>2, <1>4, <1>5, SeqIs DEF n

LEMMA FactsEmpty == Facts(<<>>) = <<>>
<1>1. IsSeq(<<>>) /\ Len(<<>>) = 0 /\ 1 .. 0 = {}
  BY EmptyChain
<1>2. IsSeq(Facts(<<>>)) /\ Len(Facts(<<>>)) = 0
  BY <1>1, FactsOf
<1> QED
  BY <1>1, <1>2, SameSeq

LEMMA FactsAppend ==
  ASSUME NEW s, IsSeq(s), NEW e
  PROVE  Facts(Append(s, e)) = Append(Facts(s), e.content.data)
<1> DEFINE a == Append(s, e)
           f == Facts(s)
           b == Append(f, e.content.data)
<1>1. Len(s) \in Nat
  BY SeqFacts
<1>2. /\ IsSeq(a) /\ Len(a) = Len(s) + 1 /\ a[Len(s) + 1] = e
      /\ \A i \in 1 .. Len(s) : a[i] = s[i]
  BY AppendFacts
<1>3. IsSeq(f) /\ Len(f) = Len(s) /\ \A i \in 1 .. Len(s) : f[i] = s[i].content.data
  BY FactsOf
<1> HIDE DEF a, f
<1>4. /\ IsSeq(b) /\ Len(b) = Len(f) + 1 /\ b[Len(f) + 1] = e.content.data
      /\ \A i \in 1 .. Len(f) : b[i] = f[i]
  BY <1>3, AppendFacts
<1>5. /\ IsSeq(Facts(a)) /\ Len(Facts(a)) = Len(a)
      /\ \A i \in 1 .. Len(a) : Facts(a)[i] = a[i].content.data
  BY <1>2, FactsOf
<1> HIDE DEF b
<1>6. \A i \in 1 .. Len(a) : Facts(a)[i] = b[i]
  <2> SUFFICES ASSUME NEW i \in 1 .. Len(a) PROVE Facts(a)[i] = b[i]
    OBVIOUS
  <2>1. i = Len(s) + 1 \/ i \in 1 .. Len(s)
    BY <1>1, <1>2
  <2> QED
    BY <1>2, <1>3, <1>4, <1>5, <2>1
<1>7. Facts(a) = b
  BY <1>2, <1>3, <1>4, <1>5, <1>6, SameSeq
<1> QED
  BY <1>7 DEF a, b, f

LEMMA FactsPrefix ==
  ASSUME NEW s, IsSeq(s), NEW n \in 0 .. Len(s)
  PROVE  Facts(Prefix(s, n)) = Prefix(Facts(s), n)
<1> DEFINE a == Prefix(s, n)
           f == Facts(s)
           b == Prefix(f, n)
<1>1. Len(s) \in Nat /\ n \in Nat /\ n <= Len(s)
  BY SeqFacts
<1>2. IsSeq(a) /\ Len(a) = n /\ \A i \in 1 .. n : a[i] = s[i]
  BY PrefixFacts
<1>3. IsSeq(f) /\ Len(f) = Len(s) /\ \A i \in 1 .. Len(s) : f[i] = s[i].content.data
  BY FactsOf
<1> HIDE DEF a, f
<1>4. IsSeq(b) /\ Len(b) = n /\ \A i \in 1 .. n : b[i] = f[i]
  BY <1>3, PrefixFacts
<1>5. /\ IsSeq(Facts(a)) /\ Len(Facts(a)) = Len(a)
      /\ \A i \in 1 .. Len(a) : Facts(a)[i] = a[i].content.data
  BY <1>2, FactsOf
<1> HIDE DEF b
<1>6. \A i \in 1 .. n : Facts(a)[i] = b[i]
  BY <1>1, <1>2, <1>3, <1>4, <1>5
<1>7. Facts(a) = b
  BY <1>2, <1>4, <1>5, <1>6, SameSeq
<1> QED
  BY <1>7 DEF a, b, f

LEMMA AuthoredFacts ==
  ASSUME ChainOK
  PROVE  /\ IsSeq(Authored) /\ Len(Authored) = Len(chain)
         /\ \A k \in 1 .. Len(chain) : Authored[k] = Facts(chain[k])
<1> DEFINE n == Len(chain)
           T == {Facts(chain[k]) : k \in 1 .. n}
<1>1. n \in Nat
  BY DEF ChainOK
<1>2. Authored \in [1 .. n -> T] /\ \A k \in 1 .. n : Authored[k] = Facts(chain[k])
  BY DEF Authored
<1> HIDE DEF n, T
<1>3. Authored \in Seq(T)
  BY <1>1, <1>2, SeqDef
<1>4. Len(Authored) = n
  BY <1>1, <1>2, <1>3, LenProperties
<1> QED
  BY <1>2, <1>3, <1>4, SeqIs DEF n

LEMMA AuthoredFactsNext ==
  ASSUME ChainOK'
  PROVE  /\ IsSeq(Authored') /\ Len(Authored') = Len(chain')
         /\ \A k \in 1 .. Len(chain') : Authored'[k] = Facts(chain'[k])
<1> DEFINE n == Len(chain')
           T == {Facts(chain'[k]) : k \in 1 .. n}
<1>1. n \in Nat
  BY DEF ChainOK
<1>2. Authored' \in [1 .. n -> T] /\ \A k \in 1 .. n : Authored'[k] = Facts(chain'[k])
  BY DEF Authored
<1> HIDE DEF n, T
<1>3. Authored' \in Seq(T)
  BY <1>1, <1>2, SeqDef
<1>4. Len(Authored') = n
  BY <1>1, <1>2, <1>3, LenProperties
<1> QED
  BY <1>2, <1>3, <1>4, SeqIs DEF n

LEMMA NodeKinds == \A n \in Id : n \notin Phone
BY NodesAssumption DEF Id

\* A node that goes from one prefix of the running chain to the next stores an entry.
LEMMA StoreOne ==
  ASSUME ChainOK, chain' = chain, NEW m \in Id \cup Phone, NEW n \in 1 .. Len(Entries),
         Stored[m] = Facts(Prefix(Entries, n - 1)), Stored'[m] = Facts(Prefix(Entries, n)),
         \A x \in (Id \cup Phone) \ {m} : Stored'[x] = Stored[x]
  PROVE  Log!Store(m)
<1>1. /\ PublicKey \in 1 .. Len(chain) /\ Entries = chain[PublicKey] /\ IsSeq(Entries)
      /\ Len(Entries) \in Nat
  BY RunningChain
<1>2. /\ IsSeq(Authored) /\ Len(Authored) = Len(chain)
      /\ Authored[PublicKey] = Facts(Entries)
      /\ DOMAIN Authored = 1 .. Len(chain)
  BY <1>1, AuthoredFacts, SeqFacts
<1> DEFINE f == Facts(Entries)
<1>3. IsSeq(f) /\ Len(f) = Len(Entries)
  BY <1>1, FactsOf
<1>4. Stored[m] = Prefix(f, n - 1) /\ Stored'[m] = Prefix(f, n)
  <2>1. n - 1 \in 0 .. Len(Entries) /\ n \in 0 .. Len(Entries)
    BY <1>1
  <2> QED
    BY <1>1, <2>1, FactsPrefix
<1>5. Authored' = Authored
  BY DEF Authored
<1>6. Authored[PublicKey] = f
  BY <1>2
<1> HIDE DEF f
<1>7. n \in 1 .. Len(f) /\ n - 1 \in 0 .. Len(f) /\ n \in Nat /\ Len(f) \in Nat
  BY <1>1, <1>3
<1>8. /\ IsSeq(Prefix(f, n - 1)) /\ Len(Prefix(f, n - 1)) = n - 1
      /\ Append(Prefix(f, n - 1), f[n]) = Prefix(f, n)
  BY <1>3, <1>7, PrefixFacts, PrefixGrows
<1>9. IsPrefix(Stored[m], f)
  <2>1. Prefix(Prefix(f, n - 1), n - 1) = Prefix(f, n - 1)
    BY <1>8, PrefixFull
  <2> QED
    BY <1>4, <1>7, <1>8, <2>1 DEF IsPrefix, Prefix
<1>10. Stored' = [Stored EXCEPT ![m] = Append(@, f[Len(@) + 1])]
  <2>1. /\ Stored = [x \in Id \cup Phone |-> Stored[x]]
        /\ Stored' = [x \in Id \cup Phone |-> Stored'[x]]
    BY DEF Stored
  <2>2. Append(Stored[m], f[Len(Stored[m]) + 1]) = Stored'[m]
    <3>1. Len(Stored[m]) + 1 = n
      BY <1>4, <1>7, <1>8
    <3> QED
      BY <1>4, <1>8, <3>1
  <2> HIDE DEF f
  <2> QED
    BY <2>1, <2>2
<1>11. Len(Stored[m]) < Len(f)
  BY <1>4, <1>7, <1>8
<1>12. PublicKey \in DOMAIN Authored
  BY <1>1, <1>2
<1>13. /\ Len(Stored[m]) < Len(Authored[PublicKey])
       /\ Log!IsPrefix(Stored[m], Authored[PublicKey])
       /\ Stored' = [Stored EXCEPT ![m] = Append(@, Authored[PublicKey][Len(@) + 1])]
  BY <1>6, <1>9, <1>10, <1>11 DEF IsPrefix, Log!IsPrefix
<1> QED
  BY <1>5, <1>12, <1>13 DEF Log!Store

LEMMA InitLog == Init => Log!Init
<1> SUFFICES ASSUME Init PROVE Log!Init
  OBVIOUS
<1>1. chain = << <<>> >> /\ stored = [p \in Phone |-> <<>>]
      /\ copy = [id \in 0 .. (Boot - 1) |-> <<>>]
  BY DEF Init
<1>2. Stored = [n \in Id \cup Phone |-> <<>>]
  BY <1>1, FactsEmpty DEF Stored, Live
<1>3. Authored = << <<>> >>
  <2>1. ChainOK
    BY InitNodes DEF NodesInv
  <2>2. IsSeq(Authored) /\ Len(Authored) = 1 /\ Authored[1] = <<>>
    BY <1>1, <2>1, AuthoredFacts, FactsEmpty
  <2>3. << <<>> >> \in Seq({<<>>}) /\ Len(<< <<>> >>) = 1 /\ << <<>> >>[1] = <<>>
    OBVIOUS
  <2>4. IsSeq(<< <<>> >>)
    BY <2>3, SeqIs
  <2>5. \A i \in 1 .. 1 : i = 1
    OBVIOUS
  <2> QED
    BY <2>2, <2>3, <2>4, <2>5, SameSeq
<1> QED
  BY <1>2, <1>3 DEF Log!Init

LEMMA AuthorLog ==
  ASSUME NodesInv, NEW data \in Data, AppendPayment(data)
  PROVE  Log!Author(data)
<1>1. ChainOK /\ ChainOK'
  BY AppendPaymentStep DEF NodesInv
<1>2. /\ PublicKey \in 1 .. Len(chain) /\ Entries = chain[PublicKey] /\ IsSeq(Entries)
      /\ PublicKey = Len(chain) /\ IsSeq(chain)
  BY <1>1, RunningChain DEF PublicKey, ChainOK
<1> DEFINE longer == Append(Entries, NewEntry(Entries, PublicKey, data))
<1>3. chain' = [chain EXCEPT ![PublicKey] = longer] /\ UNCHANGED <<copy, stored>>
  BY <1>2 DEF AppendPayment, phones
<1>4. Facts(longer) = Append(Facts(Entries), data)
  <2> DEFINE e == NewEntry(Entries, PublicKey, data)
  <2>1. e.content.data = data
    BY DEF NewEntry
  <2> HIDE DEF e
  <2>2. Facts(Append(Entries, e)) = Append(Facts(Entries), e.content.data)
    BY <1>2, FactsAppend
  <2> QED
    BY <2>1, <2>2 DEF e
<1> HIDE DEF longer
<1>5. /\ Len(chain') = Len(chain)
      /\ \A k \in 1 .. Len(chain) : chain'[k] = IF k = PublicKey THEN longer ELSE chain[k]
  <2>1. Replaces(chain', chain, PublicKey, longer)
    BY <1>3 DEF Replaces
  <2> QED
    BY <1>2, <2>1, ExceptFacts
<1>6. /\ IsSeq(Authored) /\ Len(Authored) = Len(chain)
      /\ \A k \in 1 .. Len(chain) : Authored[k] = Facts(chain[k])
      /\ IsSeq(Authored') /\ Len(Authored') = Len(chain)
      /\ \A k \in 1 .. Len(chain) : Authored'[k] = Facts(chain'[k])
  BY <1>1, <1>5, AuthoredFacts, AuthoredFactsNext
<1> DEFINE target == [Authored EXCEPT ![Len(Authored)] = Append(@, data)]
<1>7. /\ IsSeq(target) /\ Len(target) = Len(chain)
      /\ \A k \in 1 .. Len(chain) :
           target[k] = IF k = PublicKey THEN Append(Facts(Entries), data) ELSE Authored[k]
  <2> DEFINE last == Append(Facts(Entries), data)
  <2>1. Authored[PublicKey] = Facts(Entries) /\ PublicKey = Len(Authored)
    BY <1>2, <1>6
  <2>2. target = [Authored EXCEPT ![PublicKey] = last]
    BY <2>1
  <2> HIDE DEF target, last
  <2>3. Replaces(target, Authored, PublicKey, last)
    BY <2>2 DEF Replaces
  <2>4. /\ IsSeq(target) /\ Len(target) = Len(Authored)
        /\ \A k \in 1 .. Len(Authored) :
             target[k] = IF k = PublicKey THEN last ELSE Authored[k]
    BY <1>2, <1>6, <2>3, ExceptFacts
  <2> QED
    BY <1>6, <2>4 DEF last
<1> HIDE DEF target
<1>8. \A k \in 1 .. Len(chain) : Authored'[k] = target[k]
  BY <1>2, <1>4, <1>5, <1>6, <1>7
<1>9. Authored' = target
  BY <1>6, <1>7, <1>8, SameSeq
<1>10. Stored' = Stored
  BY <1>3 DEF Stored, Live
<1> QED
  BY <1>9, <1>10 DEF Log!Author, target

LEMMA FanOutLog ==
  ASSUME NodesInv, FanOut
  PROVE  \E n \in Id \cup Phone : Log!Store(n)
<1>1. ChainOK /\ CopiesOK /\ CopiesOK' /\ chain' = chain
  BY FanOutStep DEF NodesInv, FanOut
<1>2. PICK id \in fanout :
        /\ copy' = [copy EXCEPT ![id] = Receive(@, Last(Entries), PublicKey)]
        /\ fanout' = fanout \ {id}
  BY DEF FanOut
<1>3. /\ Len(Entries) \in 1 .. Len(Entries) /\ id \in Live /\ IsSeq(Entries)
      /\ Live' = Live /\ Entries' = Entries /\ nextID \in Nat
  BY <1>1, <1>2, RunningChain DEF CopiesOK, Live, Entries
<1>4. id \in Id /\ id \notin Phone
  BY <1>1, <1>3, NodeKinds, NodesAssumption DEF CopiesOK, Id
<1>5. /\ copy[id] = Prefix(Entries, Len(Entries) - 1)
      /\ copy'[id] = Prefix(Entries, Len(Entries))
      /\ \A x \in Live \ {id} : copy'[x] = copy[x]
  BY <1>1, <1>2, <1>3, PrefixFull DEF CopiesOK, Live
<1>6. /\ Stored[id] = Facts(Prefix(Entries, Len(Entries) - 1))
      /\ Stored'[id] = Facts(Prefix(Entries, Len(Entries)))
      /\ \A x \in (Id \cup Phone) \ {id} : Stored'[x] = Stored[x]
  <2>1. stored' = stored
    BY DEF FanOut, phones
  <2> QED
    BY <1>3, <1>4, <1>5, <2>1 DEF Stored
<1> QED
  BY <1>1, <1>3, <1>4, <1>6, StoreOne

LEMMA FrameLog ==
  ASSUME NodesInv, NEW p \in Phone, Frame(p)
  PROVE  Log!Store(p) \/ UNCHANGED <<Authored, Stored>>
<1>1. ChainOK /\ UNCHANGED <<chain, copy>>
  BY DEF NodesInv, Frame, nodes
<1>2. /\ \A x \in Phone \ {p} : stored'[x] = stored[x]
      /\ stored' = [x \in Phone |-> stored'[x]]
      /\ \/ stored'[p] = stored[p]
         \/ \E n \in 1 .. Len(Entries) : /\ stored[p] = Prefix(Entries, n - 1)
                                         /\ stored'[p] = Prefix(Entries, n)
  BY FrameAppends
<1>3. \A x \in (Id \cup Phone) \ {p} : Stored'[x] = Stored[x]
  BY <1>1, <1>2 DEF Stored, Live
<1>4. Stored[p] = Facts(stored[p]) /\ Stored'[p] = Facts(stored'[p])
  BY DEF Stored
<1>5. CASE stored'[p] = stored[p]
  <2>1. Stored' = Stored
    BY <1>3, <1>4, <1>5 DEF Stored
  <2> QED
    BY <1>1, <2>1 DEF Authored
<1>6. CASE \E n \in 1 .. Len(Entries) : /\ stored[p] = Prefix(Entries, n - 1)
                                        /\ stored'[p] = Prefix(Entries, n)
  BY <1>1, <1>3, <1>4, <1>6, StoreOne
<1> QED
  BY <1>2, <1>5, <1>6

LEMMA JoinLog ==
  ASSUME NodesInv, NEW r \in Reader, AddReplica(r)
  PROVE  \E n \in Id \cup Phone : Log!Join(n)
<1>1. ChainOK /\ CopiesOK
  BY DEF NodesInv
<1>2. /\ nextID < MaxNodes /\ UNCHANGED <<chain, stored>>
      /\ copy' = [id \in Live \cup {nextID} |->
           IF id = nextID THEN Replicate(Entries, PublicKey) ELSE copy[id]]
  BY DEF AddReplica, phones
<1>3. nextID \in Id /\ nextID \notin Phone /\ nextID \notin Live
  BY <1>1, <1>2, NodeKinds, NodesAssumption DEF CopiesOK, Id
<1>4. /\ PublicKey \in 1 .. Len(chain) /\ Entries = chain[PublicKey] /\ IsSeq(Entries)
      /\ PublicKey = Len(chain) /\ Replicate(Entries, PublicKey) = Entries
  BY <1>1, RunningChain, ReplicateAll DEF PublicKey
<1>5. Last(Authored) = Facts(Entries) /\ Authored' = Authored
  BY <1>1, <1>2, <1>4, AuthoredFacts DEF Last, Authored
<1>6. Stored[nextID] = <<>>
  BY <1>3, FactsEmpty DEF Stored
<1>7. Stored' = [Stored EXCEPT ![nextID] = Facts(Entries)]
  BY <1>2, <1>3, <1>4 DEF Stored, Live
<1> QED
  BY <1>3, <1>5, <1>6, <1>7 DEF Log!Join, Last, Log!Last

LEMMA LeaveLog ==
  ASSUME NodesInv, NEW r \in Reader, NEW id \in Id, KillReplica(r, id)
  PROVE  Log!Leave(id)
<1>1. /\ copy' = [x \in Live \ {id} |-> copy[x]] /\ UNCHANGED <<chain, stored>>
      /\ id \notin Phone
  BY NodeKinds DEF KillReplica, phones
<1>2. Stored' = [Stored EXCEPT ![id] = <<>>]
  BY <1>1, FactsEmpty DEF Stored, Live
<1> QED
  BY <1>1, <1>2 DEF Log!Leave, Authored

LEMMA RestartLog ==
  ASSUME NodesInv, Restart
  PROVE  Log!NewKey
<1>1. ChainOK /\ ChainOK' /\ IsSeq(chain) /\ Len(chain) \in Nat
  BY RestartStep DEF NodesInv, ChainOK
<1>2. /\ chain' = Append(chain, <<>>) /\ stored' = stored
      /\ copy' = [id \in 0 .. (Boot - 1) |-> <<>>]
  BY DEF Restart
<1>3. /\ Len(chain') = Len(chain) + 1 /\ chain'[Len(chain) + 1] = <<>>
      /\ \A k \in 1 .. Len(chain) : chain'[k] = chain[k]
  BY <1>1, <1>2, AppendFacts
<1>4. /\ IsSeq(Authored) /\ Len(Authored) = Len(chain)
      /\ \A k \in 1 .. Len(chain) : Authored[k] = Facts(chain[k])
      /\ IsSeq(Authored') /\ Len(Authored') = Len(chain) + 1
      /\ \A k \in 1 .. Len(chain) + 1 : Authored'[k] = Facts(chain'[k])
  BY <1>1, <1>3, AuthoredFacts, AuthoredFactsNext
<1>5. Authored' = Append(Authored, <<>>)
  <2> DEFINE a == Append(Authored, <<>>)
  <2>1. /\ IsSeq(a) /\ Len(a) = Len(chain) + 1 /\ a[Len(chain) + 1] = <<>>
        /\ \A k \in 1 .. Len(chain) : a[k] = Authored[k]
    BY <1>4, AppendFacts
  <2> HIDE DEF a
  <2>2. \A k \in 1 .. Len(chain) + 1 : Authored'[k] = a[k]
    <3> SUFFICES ASSUME NEW k \in 1 .. Len(chain) + 1 PROVE Authored'[k] = a[k]
      OBVIOUS
    <3>1. k = Len(chain) + 1 \/ k \in 1 .. Len(chain)
      BY <1>1
    <3>2. Authored'[k] = Facts(chain'[k])
      BY <1>4
    <3>3. CASE k = Len(chain) + 1
      BY <1>3, <2>1, <3>2, <3>3, FactsEmpty
    <3>4. CASE k \in 1 .. Len(chain)
      BY <1>3, <1>4, <2>1, <3>2, <3>4
    <3> QED
      BY <3>1, <3>3, <3>4
  <2>3. Authored' = a
    BY <1>4, <2>1, <2>2, SameSeq
  <2> QED
    BY <2>3 DEF a
<1>6. Stored' = [n \in Id \cup Phone |-> IF n \in Id THEN <<>> ELSE Stored[n]]
  BY <1>2, FactsEmpty, NodeKinds DEF Stored, Live
<1> QED
  BY <1>5, <1>6 DEF Log!NewKey

LEMMA QuietLog ==
  ASSUME UNCHANGED <<chain, copy, stored>>
  PROVE  UNCHANGED <<Authored, Stored>>
BY DEF Authored, Stored, Live

LEMMA LogStep == NodesInv /\ [Next]_chains => [Log!Next]_<<Authored, Stored>>
<1> SUFFICES ASSUME NodesInv, [Next]_chains PROVE [Log!Next]_<<Authored, Stored>>
  OBVIOUS
<1>1. CASE \E data \in Data : AppendPayment(data)
  BY <1>1, AuthorLog DEF Log!Next
<1>2. CASE FanOut
  BY <1>2, FanOutLog DEF Log!Next
<1>3. CASE \E r \in Reader : AddReplica(r)
  BY <1>3, JoinLog DEF Log!Next
<1>4. CASE \E r \in Reader : \E id \in Id : KillReplica(r, id)
  BY <1>4, LeaveLog DEF Log!Next
<1>5. CASE \E r \in Reader : \/ ListLength(r) \/ ListEntries(r) \/ Verify(r)
                             \/ VerifyLength(r) \/ ListNodes(r)
  <2>1. UNCHANGED <<chain, copy, stored>>
    BY <1>5 DEF ListLength, ListEntries, Verify, VerifyLength, ListNodes, nodes, phones
  <2> QED
    BY <2>1, QuietLog
<1>6. CASE \E p \in Phone : Welcome(p) \/ Disconnect(p)
  <2>1. UNCHANGED <<chain, copy, stored>>
    BY <1>6 DEF Welcome, Disconnect, nodes
  <2> QED
    BY <2>1, QuietLog
<1>7. CASE \E p \in Phone : Frame(p)
  BY <1>7, FrameLog DEF Log!Next
<1>8. CASE Restart
  BY <1>8, RestartLog DEF Log!Next
<1>9. CASE UNCHANGED chains
  <2>1. UNCHANGED <<chain, copy, stored>>
    BY <1>9 DEF chains, nodes, phones
  <2> QED
    BY <2>1, QuietLog
<1> QED
  BY <1>1, <1>2, <1>3, <1>4, <1>5, <1>6, <1>7, <1>8, <1>9 DEF Next

\* NewReplica, Receive: whatever interleaving, crash and reconnection, the nodes hold
\* prefixes of what one key signed, in its order, and an author's log only grows.
THEOREM ImplementsLog == Spec => ImplementsSignedLog
<1> QED
  BY InitLog, LogStep, NodesInvariant, PTL DEF Spec, ImplementsSignedLog, Log!Spec
=============================================================================
