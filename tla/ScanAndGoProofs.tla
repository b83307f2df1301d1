---------------------------- MODULE ScanAndGoProofs ----------------------------
(***************************************************************************)
(* For integers of any width, carts of any length and any catalog: the     *)
(* overflow guards of cartTotal let no wrong total pass and refuse none    *)
(* that fits, and carts filled by scanning are payable.                    *)
(***************************************************************************)
EXTENDS ScanAndGo, Sums

(***************************************************************************)
(* Fixed-width arithmetic.                                                 *)
(***************************************************************************)
LEMMA DivideBack ==
  ASSUME NEW p \in Nat, NEW q \in Nat, q > 0
  PROVE  (p * q) \div q = p
OBVIOUS

LEMMA DivideLess ==
  ASSUME NEW p \in Nat, NEW q \in Nat, q > 0, NEW n \in Nat, n < p * q
  PROVE  n \div q < p
OBVIOUS

LEMMA WrapType ==
  ASSUME NEW n \in Int, Half > 0
  PROVE  Wrap(n) \in Minor
<1>1. Half \in Nat /\ 2 * Half \in Nat /\ 2 * Half > 0 /\ n + Half \in Int
  BY CartAssumption
<1>2. (n + Half) % (2 * Half) \in 0 .. (2 * Half - 1)
  BY <1>1
<1> QED
  BY <1>1, <1>2 DEF Wrap, Minor

LEMMA WrapFits ==
  ASSUME NEW n \in Minor
  PROVE  Wrap(n) = n
<1>1. n + Half \in Nat /\ n + Half < 2 * Half /\ 2 * Half \in Nat
  BY CartAssumption DEF Minor
<1>2. (n + Half) % (2 * Half) = n + Half
  BY <1>1
<1> QED
  BY <1>2, CartAssumption DEF Wrap, Minor

\* A sum of two that fit wraps around once.
LEMMA WrapOnce ==
  ASSUME NEW n \in Nat, Half <= n, n < 2 * Half
  PROVE  Wrap(n) = n - 2 * Half
<1>1. /\ Half \in Nat /\ n + Half \in Nat /\ 2 * Half \in Nat
      /\ 2 * Half <= n + Half /\ n + Half < 2 * Half + 2 * Half
  BY CartAssumption
<1>2. (n + Half) % (2 * Half) = (n + Half) - 2 * Half
  BY <1>1
<1> QED
  BY <1>1, <1>2 DEF Wrap

(***************************************************************************)
(* A line, and one turn of the loop.                                       *)
(***************************************************************************)
Sane(item) == item.price >= 0 /\ item.quantity > 0
Amount(item) == item.price * item.quantity

LEMMA ItemFacts ==
  ASSUME NEW item \in Item
  PROVE  /\ item.price \in Int /\ item.price < Half /\ item.quantity \in Nat
         /\ item.quantity < Half /\ Half \in Nat /\ Half > 0 /\ Amount(item) \in Int
         /\ item.price >= 0 => Amount(item) \in Nat
<1>1. /\ item.price \in Minor /\ item.quantity \in 0 .. (Quantities - 1)
      /\ Quantities \in Nat /\ Half \in Nat /\ Quantities <= Half
  BY CartAssumption DEF Item
<1>2. item.price \in Int /\ item.price < Half /\ item.quantity \in Nat /\ item.quantity < Half
  BY <1>1 DEF Minor
<1>3. Half > 0
  BY <1>1, <1>2
<1>4. Amount(item) \in Int /\ (item.price >= 0 => Amount(item) \in Nat)
  BY <1>2 DEF Amount
<1> QED
  BY <1>1, <1>2, <1>3, <1>4

\* line/quantity != price holds exactly if the line does not fit, for any width.
LEMMA GuardExact ==
  ASSUME NEW item \in Item, Sane(item)
  PROVE  /\ Amount(item) < Half => ~LineOverflows(item) /\ Line(item) = Amount(item)
         /\ Amount(item) >= Half => LineOverflows(item)
<1> DEFINE p == item.price
           q == item.quantity
           l == Line(item)
<1>1. /\ p \in Nat /\ q \in Nat /\ q > 0 /\ Half \in Nat /\ Half > 0
      /\ Amount(item) \in Nat /\ Amount(item) = p * q
  BY ItemFacts DEF Sane, Amount
<1>2. l = Wrap(Amount(item))
  BY DEF Line, Amount
<1>3. LineOverflows(item) <=> p # 0 /\ Quotient(l, q) # p
  BY DEF LineOverflows
<1> HIDE DEF p, q, l
<1>4. ASSUME Amount(item) < Half PROVE ~LineOverflows(item) /\ l = Amount(item)
  <2>1. Amount(item) \in Minor
    BY <1>1, <1>4 DEF Minor
  <2>2. l = Amount(item)
    BY <1>2, <2>1, WrapFits
  <2>3. l = p * q /\ ~(l < 0)
    BY <1>1, <2>2
  <2>4. Quotient(l, q) = l \div q
    BY <2>3 DEF Quotient
  <2>5. Quotient(l, q) = p
    BY <1>1, <2>3, <2>4, DivideBack
  <2> QED
    BY <1>3, <2>2, <2>5
<1>5. ASSUME Amount(item) >= Half PROVE LineOverflows(item)
  <2>1. l \in Minor /\ l \in Int /\ l < Half
    BY <1>1, <1>2, WrapType DEF Minor
  <2>2. p # 0
    BY <1>1, <1>5
  <2>3. CASE l < 0
    <3>1. 0 - l \in Nat
      BY <2>1, <2>3
    <3>2. (0 - l) \div q \in Nat
      BY <1>1, <3>1
    <3>3. Quotient(l, q) = 0 - ((0 - l) \div q)
      BY <2>3 DEF Quotient
    <3> QED
      BY <1>1, <1>3, <2>2, <3>2, <3>3
  <2>4. CASE ~(l < 0)
    <3>1. l \in Nat /\ l < p * q
      BY <1>1, <1>5, <2>1, <2>4
    <3>2. l \div q < p
      BY <1>1, <3>1, DivideLess
    <3>3. Quotient(l, q) = l \div q /\ l \div q \in Int
      BY <1>1, <2>1, <2>4 DEF Quotient
    <3> QED
      BY <1>1, <1>3, <2>2, <3>2, <3>3
  <2> QED
    BY <2>1, <2>3, <2>4
<1> QED
  BY <1>1, <1>4, <1>5 DEF l

\* newTotal < total holds exactly if the new total does not fit.
LEMMA AddExact ==
  ASSUME NEW item \in Item, NEW total \in 0 .. (Half - 1)
  PROVE  AddItem(total, item) =
           IF Sane(item) /\ total + Amount(item) < Half THEN total + Amount(item) ELSE Error
<1> DEFINE a == Amount(item)
<1>1. /\ Half \in Nat /\ Half > 0 /\ total \in Nat /\ ~(total < 0)
      /\ item.price \in Int /\ item.quantity \in Nat
  BY ItemFacts
<1>2. CASE ~Sane(item)
  <2>1. item.price < 0 \/ item.quantity = 0
    BY <1>1, <1>2 DEF Sane
  <2> QED
    BY <1>2, <2>1 DEF AddItem
<1>3. CASE Sane(item)
  <2>1. a \in Nat /\ ~(item.price < 0) /\ item.quantity # 0
    BY <1>1, <1>3, ItemFacts DEF Sane
  <2>2. CASE a >= Half
    <3>1. LineOverflows(item)
      BY <1>3, <2>2, GuardExact
    <3>2. ~(total + a < Half)
      BY <1>1, <2>1, <2>2
    <3> QED
      BY <3>1, <3>2 DEF AddItem
  <2>3. CASE a < Half
    <3>1. ~LineOverflows(item) /\ Line(item) = a
      BY <1>3, <2>3, GuardExact
    <3>2. AddItem(total, item) =
            IF Wrap(total + a) < total THEN Error ELSE Wrap(total + a)
      BY <1>1, <2>1, <3>1 DEF AddItem
    <3> HIDE DEF a
    <3>3. CASE total + a < Half
      <4>1. total + a \in Minor
        BY <1>1, <2>1, <3>3 DEF Minor
      <4>2. Wrap(total + a) = total + a /\ ~(total + a < total)
        BY <1>1, <2>1, <4>1, WrapFits
      <4> QED
        BY <1>3, <3>2, <3>3, <4>2 DEF a
    <3>4. CASE ~(total + a < Half)
      <4>1. total + a \in Nat /\ Half <= total + a /\ total + a < 2 * Half
        BY <1>1, <2>1, <2>3, <3>4
      <4>2. Wrap(total + a) = (total + a) - 2 * Half
        BY <4>1, WrapOnce
      <4>3. Wrap(total + a) < total
        BY <1>1, <2>1, <2>3, <4>2
      <4> QED
        BY <3>2, <3>4, <4>3 DEF a
    <3> QED
      BY <3>3, <3>4
  <2> QED
    BY <1>1, <2>1, <2>2, <2>3
<1> QED
  BY <1>2, <1>3

LEMMA ErrorStays ==
  ASSUME NEW item
  PROVE  AddItem(Error, item) = Error
<1>1. Error < 0
  BY DEF Error
<1> QED
  BY <1>1 DEF AddItem

(***************************************************************************)
(* The loops.  A fold over the cart is a run of totals, one per item.      *)
(***************************************************************************)
LEMMA AddTypes ==
  ASSUME NEW total \in Int, NEW item \in Item
  PROVE  AddItem(total, item) \in Int /\ AddLogged(total, item) \in Int
<1>1. item.price \in Int /\ item.quantity \in Int /\ Half \in Nat /\ Half > 0
  BY ItemFacts
<1>2. \A n \in Int : Wrap(n) \in Int
  BY <1>1, WrapType DEF Minor
<1>3. Line(item) \in Int /\ Wrap(total + Line(item)) \in Int
  BY <1>1, <1>2 DEF Line
<1>4. Error \in Int
  BY DEF Error
<1> QED
  BY <1>3, <1>4 DEF AddItem, AddLogged

LEMMA AddItemRuns ==
  ASSUME NEW s \in Seq(Item)
  PROVE  \E f : /\ f[0] = 0
                /\ \A n \in 1 .. Len(s) : f[n] = AddItem(f[n - 1], s[n])
                /\ FoldLeft(AddItem, 0, s) = f[Len(s)]
<1> DEFINE N == Len(s)
           Runs(h) == h = [d \in SUBSET (DOMAIN s) |->
                             IF d = {} THEN 0 ELSE AddItem(h[d \ {Max(d)}], s[Max(d)])]
           k == CHOOSE h : Runs(h)
           f == [n \in 0 .. N |-> k[1 .. n]]
           g == [y \in Int \X Item |-> AddItem(y[1], y[2])]
<1>1. N \in Nat /\ DOMAIN s = 1 .. N /\ \A i \in 1 .. N : s[i] \in Item
  OBVIOUS
<1>2. \A x \in Int, e \in Item : g[<<x, e>>] = AddItem(x, e) /\ AddItem(x, e) \in Int
  BY AddTypes
<1>3. g \in [Int \X Item -> Int]
  BY <1>2
<1> HIDE DEF g
<1>4. PICK h \in [SUBSET (1 .. N) -> Int] : FoldOf(h, s, 0, g)
  <2>1. 0 \in Int
    OBVIOUS
  <2> HIDE DEF N, k, f, Runs
  <2> QED
    BY <1>1, <1>3, <2>1, FoldExists
<1>5. ASSUME NEW d \in SUBSET (DOMAIN s), d # {}
      PROVE  g[<<h[d \ {Max(d)}], s[Max(d)]>>] = AddItem(h[d \ {Max(d)}], s[Max(d)])
  <2>1. Max(d) \in 1 .. N /\ d \ {Max(d)} \in SUBSET (1 .. N)
    BY <1>1, <1>5, MaxFacts
  <2> QED
    BY <1>1, <1>2, <1>4, <2>1
<1>6. Runs(h)
  <2>1. h = [d \in SUBSET (DOMAIN s) |->
               IF d = {} THEN 0 ELSE g[<<h[d \ {Max(d)}], s[Max(d)]>>]]
    BY <1>4 DEF FoldOf
  <2> QED
    BY <1>5, <2>1, Zenon
<1>7. Runs(k)
  BY <1>6, Zenon
<1>8. FoldLeft(AddItem, 0, s) = k[DOMAIN s]
  BY DEF FoldLeft, MapThenFoldSet
<1> HIDE DEF k
<1>9. \A d \in SUBSET (1 .. N) :
        k[d] = IF d = {} THEN 0 ELSE AddItem(k[d \ {Max(d)}], s[Max(d)])
  BY <1>1, <1>7
<1>10. f[0] = 0
  <2>1. 1 .. 0 = {} /\ {} \in SUBSET (1 .. N) /\ 0 \in 0 .. N
    BY <1>1
  <2>2. k[{}] = 0
    BY <1>9, <2>1
  <2>3. f[0] = k[1 .. 0]
    BY <2>1
  <2> QED
    BY <2>1, <2>2, <2>3, Zenon
<1>11. ASSUME NEW n \in 1 .. N PROVE f[n] = AddItem(f[n - 1], s[n])
  <2>1. 1 .. n # {} /\ Max(1 .. n) = n /\ (1 .. n) \ {Max(1 .. n)} = 1 .. (n - 1)
    BY LastPosition
  <2>2. 1 .. n \in SUBSET (1 .. N) /\ n - 1 \in 0 .. N /\ n \in 0 .. N
    BY <1>1
  <2>3. f[n] = k[1 .. n] /\ f[n - 1] = k[1 .. (n - 1)]
    BY <2>2
  <2> QED
    BY <1>9, <2>1, <2>2, <2>3
<1>12. f[N] = FoldLeft(AddItem, 0, s)
  BY <1>1, <1>8
<1> QED
  BY <1>10, <1>11, <1>12

LEMMA AddLoggedRuns ==
  ASSUME NEW s \in Seq(Item)
  PROVE  \E f : /\ f[0] = 0
                /\ \A n \in 1 .. Len(s) : f[n] = AddLogged(f[n - 1], s[n])
                /\ LoggedTotal(s) = f[Len(s)]
<1> DEFINE N == Len(s)
           Runs(h) == h = [d \in SUBSET (DOMAIN s) |->
                             IF d = {} THEN 0 ELSE AddLogged(h[d \ {Max(d)}], s[Max(d)])]
           k == CHOOSE h : Runs(h)
           f == [n \in 0 .. N |-> k[1 .. n]]
           g == [y \in Int \X Item |-> AddLogged(y[1], y[2])]
<1>1. N \in Nat /\ DOMAIN s = 1 .. N /\ \A i \in 1 .. N : s[i] \in Item
  OBVIOUS
<1>2. \A x \in Int, e \in Item : g[<<x, e>>] = AddLogged(x, e) /\ AddLogged(x, e) \in Int
  BY AddTypes
<1>3. g \in [Int \X Item -> Int]
  BY <1>2
<1> HIDE DEF g
<1>4. PICK h \in [SUBSET (1 .. N) -> Int] : FoldOf(h, s, 0, g)
  <2>1. 0 \in Int
    OBVIOUS
  <2> HIDE DEF N, k, f, Runs
  <2> QED
    BY <1>1, <1>3, <2>1, FoldExists
<1>5. ASSUME NEW d \in SUBSET (DOMAIN s), d # {}
      PROVE  g[<<h[d \ {Max(d)}], s[Max(d)]>>] = AddLogged(h[d \ {Max(d)}], s[Max(d)])
  <2>1. Max(d) \in 1 .. N /\ d \ {Max(d)} \in SUBSET (1 .. N)
    BY <1>1, <1>5, MaxFacts
  <2> QED
    BY <1>1, <1>2, <1>4, <2>1
<1>6. Runs(h)
  <2>1. h = [d \in SUBSET (DOMAIN s) |->
               IF d = {} THEN 0 ELSE g[<<h[d \ {Max(d)}], s[Max(d)]>>]]
    BY <1>4 DEF FoldOf
  <2> QED
    BY <1>5, <2>1, Zenon
<1>7. Runs(k)
  BY <1>6, Zenon
<1>8. LoggedTotal(s) = k[DOMAIN s]
  BY DEF LoggedTotal, FoldLeft, MapThenFoldSet
<1> HIDE DEF k
<1>9. \A d \in SUBSET (1 .. N) :
        k[d] = IF d = {} THEN 0 ELSE AddLogged(k[d \ {Max(d)}], s[Max(d)])
  BY <1>1, <1>7
<1>10. f[0] = 0
  <2>1. 1 .. 0 = {} /\ {} \in SUBSET (1 .. N) /\ 0 \in 0 .. N
    BY <1>1
  <2>2. k[{}] = 0
    BY <1>9, <2>1
  <2>3. f[0] = k[1 .. 0]
    BY <2>1
  <2> QED
    BY <2>1, <2>2, <2>3, Zenon
<1>11. ASSUME NEW n \in 1 .. N PROVE f[n] = AddLogged(f[n - 1], s[n])
  <2>1. 1 .. n # {} /\ Max(1 .. n) = n /\ (1 .. n) \ {Max(1 .. n)} = 1 .. (n - 1)
    BY LastPosition
  <2>2. 1 .. n \in SUBSET (1 .. N) /\ n - 1 \in 0 .. N /\ n \in 0 .. N
    BY <1>1
  <2>3. f[n] = k[1 .. n] /\ f[n - 1] = k[1 .. (n - 1)]
    BY <2>2
  <2> QED
    BY <1>9, <2>1, <2>2, <2>3
<1>12. f[N] = LoggedTotal(s)
  BY <1>1, <1>8
<1> QED
  BY <1>10, <1>11, <1>12

LEMMA ExactRuns ==
  ASSUME NEW s \in Seq(Item)
  PROVE  \E f : /\ f[0] = 0
                /\ \A n \in 1 .. Len(s) : f[n] = f[n - 1] + s[n].price * s[n].quantity
                /\ ExactSum(s) = f[Len(s)]
<1> DEFINE N == Len(s)
           Runs(h) == h = [d \in SUBSET (DOMAIN s) |->
                             IF d = {} THEN 0 ELSE h[d \ {Max(d)}] + s[Max(d)].price * s[Max(d)].quantity]
           k == CHOOSE h : Runs(h)
           f == [n \in 0 .. N |-> k[1 .. n]]
           g == [y \in Int \X Item |-> y[1] + y[2].price * y[2].quantity]
<1>1. N \in Nat /\ DOMAIN s = 1 .. N /\ \A i \in 1 .. N : s[i] \in Item
  OBVIOUS
<1>2. \A x \in Int, e \in Item : g[<<x, e>>] = x + e.price * e.quantity /\ x + e.price * e.quantity \in Int
  BY ItemFacts
<1>3. g \in [Int \X Item -> Int]
  BY <1>2
<1> HIDE DEF g
<1>4. PICK h \in [SUBSET (1 .. N) -> Int] : FoldOf(h, s, 0, g)
  <2>1. 0 \in Int
    OBVIOUS
  <2> HIDE DEF N, k, f, Runs
  <2> QED
    BY <1>1, <1>3, <2>1, FoldExists
<1>5. ASSUME NEW d \in SUBSET (DOMAIN s), d # {}
      PROVE  g[<<h[d \ {Max(d)}], s[Max(d)]>>] = h[d \ {Max(d)}] + s[Max(d)].price * s[Max(d)].quantity
  <2>1. Max(d) \in 1 .. N /\ d \ {Max(d)} \in SUBSET (1 .. N)
    BY <1>1, <1>5, MaxFacts
  <2> QED
    BY <1>1, <1>2, <1>4, <2>1
<1>6. Runs(h)
  <2>1. h = [d \in SUBSET (DOMAIN s) |->
               IF d = {} THEN 0 ELSE g[<<h[d \ {Max(d)}], s[Max(d)]>>]]
    BY <1>4 DEF FoldOf
  <2> QED
    BY <1>5, <2>1, Zenon
<1>7. Runs(k)
  BY <1>6, Zenon
<1>8. ExactSum(s) = k[DOMAIN s]
  BY DEF ExactSum, FoldLeft, MapThenFoldSet
<1> HIDE DEF k
<1>9. \A d \in SUBSET (1 .. N) :
        k[d] = IF d = {} THEN 0 ELSE k[d \ {Max(d)}] + s[Max(d)].price * s[Max(d)].quantity
  BY <1>1, <1>7
<1>10. f[0] = 0
  <2>1. 1 .. 0 = {} /\ {} \in SUBSET (1 .. N) /\ 0 \in 0 .. N
    BY <1>1
  <2>2. k[{}] = 0
    BY <1>9, <2>1
  <2>3. f[0] = k[1 .. 0]
    BY <2>1
  <2> QED
    BY <2>1, <2>2, <2>3, Zenon
<1>11. ASSUME NEW n \in 1 .. N PROVE f[n] = f[n - 1] + s[n].price * s[n].quantity
  <2>1. 1 .. n # {} /\ Max(1 .. n) = n /\ (1 .. n) \ {Max(1 .. n)} = 1 .. (n - 1)
    BY LastPosition
  <2>2. 1 .. n \in SUBSET (1 .. N) /\ n - 1 \in 0 .. N /\ n \in 0 .. N
    BY <1>1
  <2>3. f[n] = k[1 .. n] /\ f[n - 1] = k[1 .. (n - 1)]
    BY <2>2
  <2> QED
    BY <1>9, <2>1, <2>2, <2>3
<1>12. f[N] = ExactSum(s)
  BY <1>1, <1>8
<1> QED
  BY <1>10, <1>11, <1>12

(***************************************************************************)
(* Along the loop the total is the exact sum as long as every item met is  *)
(* sane and the sum fits, and an error from then on; and the gateway's     *)
(* unguarded sum is the same while there is no error.                      *)
(***************************************************************************)
SaneTo(s, n) == \A i \in 1 .. n : Sane(s[i])
Along(s, x, n) == IF SaneTo(s, n) /\ x < Half THEN x ELSE Error
Step(s, n, x, a, l) ==
  /\ x \in Int
  /\ SaneTo(s, n) => x \in Nat
  /\ a = Along(s, x, n)
  /\ a # Error => l = a

LEMMA FirstStep ==
  ASSUME NEW s, Half > 0
  PROVE  Step(s, 0, 0, 0, 0)
<1>1. SaneTo(s, 0)
  BY DEF SaneTo
<1>2. Half \in Nat
  BY CartAssumption
<1> QED
  BY <1>1, <1>2 DEF Step, Along

LEMMA NextStep ==
  ASSUME NEW s \in Seq(Item), NEW n \in 1 .. Len(s), NEW x, NEW a, NEW l,
         Step(s, n - 1, x, a, l)
  PROVE  Step(s, n, x + s[n].price * s[n].quantity, AddItem(a, s[n]), AddLogged(l, s[n]))
<1> DEFINE item == s[n]
           y == x + item.price * item.quantity
<1>1. item \in Item /\ x \in Int
  BY DEF Step
<1>2. y \in Int /\ y = x + Amount(item) /\ Half \in Nat /\ Half > 0
  BY <1>1, ItemFacts DEF Amount
<1>3. SaneTo(s, n) <=> SaneTo(s, n - 1) /\ Sane(item)
  <2>1. \A i \in 1 .. n : i \in 1 .. (n - 1) \/ i = n
    OBVIOUS
  <2>2. 1 .. (n - 1) \subseteq 1 .. n /\ n \in 1 .. n
    OBVIOUS
  <2> QED
    BY <2>1, <2>2 DEF SaneTo
<1>4. SaneTo(s, n) => x \in Nat /\ y \in Nat /\ x <= y
  <2>1. ASSUME SaneTo(s, n) PROVE x \in Nat /\ Amount(item) \in Nat
    BY <1>1, <1>3, <2>1, ItemFacts DEF Step, Sane
  <2> QED
    BY <1>2, <2>1
<1> HIDE DEF item, y
<1>5. CASE SaneTo(s, n - 1) /\ x < Half
  <2>1. x \in Nat /\ a = x /\ x \in 0 .. (Half - 1) /\ a # Error
    BY <1>2, <1>5 DEF Step, Along, Error
  <2>2. l = x
    BY <2>1 DEF Step
  <2>3. AddItem(a, item) = IF Sane(item) /\ y < Half THEN y ELSE Error
    BY <1>1, <1>2, <2>1, AddExact
  <2>4. AddItem(a, item) = Along(s, y, n)
    BY <1>3, <1>5, <2>3 DEF Along
  <2>5. ASSUME AddItem(a, item) # Error PROVE AddLogged(l, item) = AddItem(a, item)
    <3>1. Sane(item) /\ y < Half /\ AddItem(a, item) = y
      BY <2>3, <2>5
    <3>2. y \in Nat /\ x <= y
      BY <1>3, <1>4, <1>5, <3>1
    <3>3. Amount(item) \in Nat /\ Amount(item) < Half
      BY <1>1, <1>2, <2>1, <3>1, <3>2, ItemFacts DEF Sane
    <3>4. Line(item) = Amount(item)
      BY <1>1, <3>1, <3>3, GuardExact
    <3>5. y \in Minor
      BY <1>2, <3>1, <3>2 DEF Minor
    <3>6. AddLogged(l, item) = Wrap(y)
      BY <1>2, <2>2, <3>4 DEF AddLogged
    <3> QED
      BY <3>1, <3>5, <3>6, WrapFits
  <2> QED
    BY <1>2, <1>4, <2>4, <2>5 DEF Step, item, y
<1>6. CASE ~(SaneTo(s, n - 1) /\ x < Half)
  <2>1. a = Error
    BY <1>6 DEF Step, Along
  <2>2. AddItem(a, item) = Error
    BY <2>1, ErrorStays
  <2>3. ~(SaneTo(s, n) /\ y < Half)
    BY <1>1, <1>2, <1>3, <1>4, <1>6
  <2> QED
    BY <1>2, <1>4, <2>2, <2>3 DEF Step, Along, item, y
<1> QED
  BY <1>5, <1>6

\* The three loops at the end of a cart.
AllSane(s) == \A i \in DOMAIN s : Sane(s[i])

LEMMA Totals ==
  ASSUME NEW s \in Seq(Item), s # <<>>
  PROVE  /\ Half \in Nat /\ ExactSum(s) \in Int
         /\ FoldLeft(AddItem, 0, s) =
              IF AllSane(s) /\ ExactSum(s) < Half THEN ExactSum(s) ELSE Error
         /\ FoldLeft(AddItem, 0, s) # Error => LoggedTotal(s) = FoldLeft(AddItem, 0, s)
<1> DEFINE N == Len(s)
<1>1. N \in Nat /\ DOMAIN s = 1 .. N /\ 1 \in 1 .. N /\ s[1] \in Item
  OBVIOUS
<1>2. Half \in Nat /\ Half > 0
  BY <1>1, ItemFacts
<1>3. PICK a : /\ a[0] = 0 /\ \A n \in 1 .. N : a[n] = AddItem(a[n - 1], s[n])
               /\ FoldLeft(AddItem, 0, s) = a[N]
  BY AddItemRuns
<1>4. PICK l : /\ l[0] = 0 /\ \A n \in 1 .. N : l[n] = AddLogged(l[n - 1], s[n])
               /\ LoggedTotal(s) = l[N]
  BY AddLoggedRuns
<1>5. PICK x : /\ x[0] = 0
               /\ \A n \in 1 .. N : x[n] = x[n - 1] + s[n].price * s[n].quantity
               /\ ExactSum(s) = x[N]
  BY ExactRuns
<1> DEFINE P == {n \in 0 .. N : Step(s, n, x[n], a[n], l[n])}
<1>6. 0 \in P
  BY <1>1, <1>2, <1>3, <1>4, <1>5, FirstStep
<1>7. ASSUME NEW n \in 1 .. N, n - 1 \in P PROVE n \in P
  <2>1. Step(s, n - 1, x[n - 1], a[n - 1], l[n - 1]) /\ n \in 0 .. N
    BY <1>7
  <2>2. Step(s, n, x[n - 1] + s[n].price * s[n].quantity,
             AddItem(a[n - 1], s[n]), AddLogged(l[n - 1], s[n]))
    BY <2>1, NextStep
  <2> QED
    BY <1>3, <1>4, <1>5, <2>1, <2>2
<1>8. N \in P
  <2> HIDE DEF P, N
  <2>1. \A n \in 0 .. N : n \in P
    BY <1>1, <1>6, <1>7, Climb
  <2> QED
    BY <1>1, <2>1
<1>9. Step(s, N, ExactSum(s), FoldLeft(AddItem, 0, s), LoggedTotal(s))
  BY <1>3, <1>4, <1>5, <1>8
<1>10. SaneTo(s, N) <=> AllSane(s)
  BY <1>1 DEF SaneTo, AllSane
<1> QED
  BY <1>2, <1>9, <1>10 DEF Step, Along

\* cartTotal and the charge store's copy return the exact sum or refuse, rightly.
LEMMA TotalIs ==
  ASSUME NEW s \in Seq(Item)
  PROVE  /\ WalletTotal(s) = Reference(s) /\ ChargeTotal(s) = Reference(s)
         /\ WalletTotal(s) # Error => LoggedTotal(s) = WalletTotal(s)
<1>1. CASE s # <<>>
  <2> DEFINE t == FoldLeft(AddItem, 0, s)
             e == ExactSum(s)
  <2>1. /\ Half \in Nat /\ e \in Int /\ t = IF AllSane(s) /\ e < Half THEN e ELSE Error
        /\ t # Error => LoggedTotal(s) = t
    BY <1>1, Totals
  <2>2. WalletTotal(s) = Positive(t) /\ ChargeTotal(s) = Positive(t)
    BY <1>1 DEF WalletTotal, ChargeTotal
  <2>3. Valid(s) <=> AllSane(s) /\ e \in 1 .. (Half - 1)
    BY DEF Valid, AllSane, Sane
  <2>4. Reference(s) = IF Valid(s) THEN e ELSE Error
    BY DEF Reference
  <2> HIDE DEF t, e
  <2>5. Positive(t) = IF t > 0 THEN t ELSE Error
    BY DEF Positive
  <2>6. Positive(t) = Reference(s)
    BY <2>1, <2>3, <2>4, <2>5 DEF Error
  <2>7. Positive(t) # Error => t # Error /\ Positive(t) = t
    BY <2>5 DEF Error
  <2> QED
    BY <2>1, <2>2, <2>6, <2>7
<1>2. CASE s = <<>>
  <2>1. WalletTotal(s) = Error /\ ChargeTotal(s) = Error
    BY <1>2 DEF WalletTotal, ChargeTotal
  <2>2. ExactSum(s) = 0
    <3>1. PICK x : x[0] = 0 /\ ExactSum(s) = x[Len(s)]
      BY ExactRuns
    <3> QED
      BY <1>2, <3>1
  <2>3. ~Valid(s)
    BY <2>2 DEF Valid
  <2> QED
    BY <2>1, <2>3 DEF Reference
<1> QED
  BY <1>1, <1>2

AllPriced(s) == \A i \in DOMAIN s : s[i].price > 0 /\ s[i].quantity > 0

LEMMA PositiveSum ==
  ASSUME NEW s \in Seq(Item), s # <<>>, AllPriced(s)
  PROVE  ExactSum(s) > 0 /\ AllSane(s)
<1> DEFINE N == Len(s)
<1>1. N \in Nat /\ N # 0 /\ N \in 0 .. N /\ 0 \in 0 .. N /\ DOMAIN s = 1 .. N
  OBVIOUS
<1>2. PICK x : /\ x[0] = 0
               /\ \A n \in 1 .. N : x[n] = x[n - 1] + s[n].price * s[n].quantity
               /\ ExactSum(s) = x[N]
  BY ExactRuns
<1> DEFINE P == {n \in 0 .. N : x[n] \in Nat /\ (n > 0 => x[n] > 0)}
<1>3. 0 \in P
  BY <1>1, <1>2
<1>4. ASSUME NEW n \in 1 .. N, n - 1 \in P PROVE n \in P
  <2>1. /\ s[n] \in Item /\ s[n].price > 0 /\ s[n].quantity > 0
        /\ x[n] = x[n - 1] + s[n].price * s[n].quantity
        /\ x[n - 1] \in Nat /\ n \in 0 .. N
    BY <1>1, <1>2, <1>4 DEF AllPriced
  <2>2. s[n].price \in Nat /\ s[n].quantity \in Nat
    BY <2>1, ItemFacts
  <2>3. s[n].price * s[n].quantity \in Nat /\ s[n].price * s[n].quantity > 0
    BY <2>1, <2>2
  <2>4. x[n] \in Nat /\ x[n] > 0
    <3> DEFINE m == s[n].price * s[n].quantity
    <3>1. m \in Nat /\ m > 0 /\ x[n] = x[n - 1] + m
      BY <2>1, <2>3
    <3> HIDE DEF m
    <3> QED
      BY <2>1, <3>1
  <2> QED
    BY <2>1, <2>4
<1>5. N \in P
  <2> HIDE DEF P, N
  <2>1. \A n \in 0 .. N : n \in P
    BY <1>1, <1>3, <1>4, Climb
  <2> QED
    BY <1>1, <2>1
<1>6. ExactSum(s) > 0
  BY <1>1, <1>2, <1>5
<1>7. AllSane(s)
  <2>1. ASSUME NEW i \in DOMAIN s PROVE Sane(s[i])
    <3>1. s[i] \in Item /\ s[i].price > 0 /\ s[i].quantity > 0
      BY <1>1, <2>1 DEF AllPriced
    <3>2. s[i].price \in Int
      BY <3>1, ItemFacts
    <3> QED
      BY <3>1, <3>2 DEF Sane
  <2> QED
    BY <2>1 DEF AllSane
<1> QED
  BY <1>6, <1>7

(***************************************************************************)
(* The catalog and the carts filled from it.                               *)
(***************************************************************************)
Apart(p, x) == p.merchant # x.merchant \/ p.barcode # x.barcode

CatalogOK ==
  /\ products \subseteq Product
  /\ \A p \in products : p.price > 0
  /\ \A p, x \in products : p # x => Apart(p, x)

ScanInv ==
  /\ cart \in Seq(Item)
  /\ CatalogOK
  /\ scanned => AllPriced(cart)

LEMMA AppendPriced ==
  ASSUME NEW s \in Seq(Item), NEW item \in Item,
         AllPriced(s), item.price > 0, item.quantity > 0
  PROVE  AllPriced(Append(s, item))
<1>1. ASSUME NEW i \in DOMAIN Append(s, item)
      PROVE  \/ i \in DOMAIN s /\ Append(s, item)[i] = s[i]
             \/ Append(s, item)[i] = item
  OBVIOUS
<1> QED
  BY <1>1 DEF AllPriced

\* The two invariants of the catalog and of the cart, for every catalog, every cart
\* length and every interleaving of listing, delisting and scanning.
THEOREM ScanInvariant == ScanSpec => []ScanInv
<1>1. ScanInit => ScanInv
  <2> SUFFICES ASSUME ScanInit PROVE ScanInv
    OBVIOUS
  <2>1. PICK p \in Product : p.price > 0 /\ products = {p}
    BY DEF ScanInit
  <2>2. cart = <<>>
    BY DEF ScanInit, Init
  <2>3. CatalogOK
    BY <2>1 DEF CatalogOK
  <2>4. cart \in Seq(Item) /\ AllPriced(cart)
    BY <2>2 DEF AllPriced
  <2> QED
    BY <2>3, <2>4 DEF ScanInv
<1>2. ScanInv /\ [ScanNext]_scan => ScanInv'
  <2> SUFFICES ASSUME ScanInv, [ScanNext]_scan PROVE ScanInv'
    OBVIOUS
  <2>1. ASSUME NEW p \in Product, ProductCreate(p) PROVE ScanInv'
    <3>1. /\ p.price > 0 /\ products' = products \cup {p}
          /\ \A x \in products : Apart(x, p) /\ Apart(p, x)
      BY <2>1 DEF ProductCreate, Priced, BarcodeFree, Apart
    <3>2. CatalogOK'
      BY <3>1 DEF ScanInv, CatalogOK
    <3> QED
      BY <2>1, <3>2 DEF ScanInv, ProductCreate
  <2>2. ASSUME NEW p \in Product, ProductDelete(p) PROVE ScanInv'
    <3>1. CatalogOK'
      BY <2>2 DEF ScanInv, CatalogOK, ProductDelete
    <3> QED
      BY <2>2, <3>1 DEF ScanInv, ProductDelete
  <2>3. ASSUME NEW barcode \in Barcode, Scan(barcode) PROVE ScanInv'
    <3>1. PICK p \in ByBarcode(barcode), item \in Item :
            item.price = p.price /\ item.quantity > 0 /\ cart' = Append(cart, item)
      BY <2>3 DEF Scan
    <3>2. p \in products /\ item.price > 0
      BY <3>1 DEF ByBarcode, ScanInv, CatalogOK
    <3>3. cart' \in Seq(Item) /\ (scanned => AllPriced(cart'))
      BY <3>1, <3>2, AppendPriced DEF ScanInv
    <3>4. CatalogOK'
      BY <2>3 DEF Scan, ScanInv, CatalogOK
    <3> QED
      BY <2>3, <3>3, <3>4 DEF ScanInv, Scan
  <2>4. CASE Enter
    <3>1. cart' \in Seq(Item)
      BY <2>4 DEF Enter, Next, ScanInv
    <3>2. CatalogOK'
      BY <2>4 DEF Enter, ScanInv, CatalogOK
    <3> QED
      BY <2>4, <3>1, <3>2 DEF Enter, ScanInv
  <2>5. CASE UNCHANGED scan
    BY <2>5 DEF scan, ScanInv, CatalogOK
  <2> QED
    BY <2>1, <2>2, <2>3, <2>4, <2>5 DEF ScanNext
<1> QED
  BY <1>1, <1>2, PTL DEF ScanSpec

\* The overflow guards of cartTotal and of charges.Create, at any width of price and
\* quantity: they let no wrong total pass and refuse no cart whose total fits.
THEOREM TotalsAreExact == ScanSpec => []TotalsExact
<1>1. ScanInv => TotalsExact
  BY TotalIs DEF ScanInv, TotalsExact
<1> QED
  BY <1>1, ScanInvariant, PTL

\* settle: the unguarded sum of the ledger entry is the amount the wallet debited.
THEOREM TheLoggedIsDebited == ScanSpec => []LoggedIsDebited
<1>1. ScanInv => LoggedIsDebited
  BY TotalIs DEF ScanInv, LoggedIsDebited
<1> QED
  BY <1>1, ScanInvariant, PTL

\* productCreate's price check is enough: a cart of scanned products is refused only
\* because its sum does not fit, whatever was delisted or repriced since.
THEOREM ScannedIsPayable == ScanSpec => []ScannedCartPayable
<1>1. ScanInv => ScannedCartPayable
  <2> SUFFICES ASSUME ScanInv, scanned, cart # <<>>, WalletTotal(cart) = Error
               PROVE  ExactSum(cart) >= Half
    BY DEF ScannedCartPayable
  <2>1. cart \in Seq(Item) /\ AllPriced(cart)
    BY DEF ScanInv
  <2>2. ExactSum(cart) > 0 /\ AllSane(cart)
    BY <2>1, PositiveSum
  <2>3. ExactSum(cart) \in Int /\ Half \in Nat
    BY <2>1, Totals
  <2>4. Reference(cart) = Error
    BY <2>1, TotalIs
  <2>5. ~Valid(cart)
    BY <2>2, <2>3, <2>4 DEF Reference, Error
  <2> QED
    BY <2>2, <2>3, <2>5 DEF Valid, AllSane, Sane
<1> QED
  BY <1>1, ScanInvariant, PTL

\* ByBarcode: only two merchants who list the same barcode make the answer depend on
\* the order of the map, in every catalog.
THEOREM ScanIsUnambiguous == ScanSpec => []ScanUnambiguous
<1>1. ScanInv => ScanUnambiguous
  BY DEF ScanInv, CatalogOK, ScanUnambiguous, ByBarcode, Apart
<1> QED
  BY <1>1, ScanInvariant, PTL

===============================================================================
