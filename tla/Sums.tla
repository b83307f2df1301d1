---------------------------------- MODULE Sums ----------------------------------
(***************************************************************************)
(* What the provers need to know of folds: SumFunctionOnSet over a finite  *)
(* set is defined, and terms can be taken out, added and changed; a left   *)
(* fold over a sequence is defined and goes from element to element.  Both *)
(* recurse over subsets in an order of their own, so existence and         *)
(* independence of that order are proved first, by taking a smallest       *)
(* counterexample where one would use induction.                           *)
(***************************************************************************)
EXTENDS Integers, Sequences, FiniteSetsExt, FiniteSetTheorems, WellFoundedInduction, TLAPS

LEMMA LeastNat ==
  ASSUME NEW T, T \subseteq Nat, T # {}
  PROVE  \E n \in T : \A m \in T : n <= m
<1>1. PICK n \in T : \A m \in T : ~(<<m, n>> \in OpToRel(<, Nat))
  BY NatLessThanWellFounded, WFMin
<1>2. \A m \in T : ~(m < n)
  BY <1>1 DEF OpToRel
<1> QED
  BY <1>2

Run(n, p, b, g, A) ==
  p \in [0 .. n -> A] /\ p[0] = b /\ \A i \in 0 .. (n - 1) : p[i + 1] = g[<<i, p[i]>>]

LEMMA RunsAgree ==
  ASSUME NEW A, NEW b, NEW g, NEW n \in Nat, NEW m \in Nat, NEW p, NEW q,
         Run(n, p, b, g, A), Run(m, q, b, g, A), NEW i \in 0 .. n, i <= m
  PROVE  p[i] = q[i]
<1> DEFINE T == {j \in 0 .. n : j <= m /\ p[j] # q[j]}
<1>1. SUFFICES ASSUME T # {} PROVE FALSE
  OBVIOUS
<1>2. PICK k \in T : \A j \in T : k <= j
  <2>1. T \subseteq Nat
    OBVIOUS
  <2> HIDE DEF T
  <2> QED
    BY <1>1, <2>1, LeastNat
<1>3. k # 0
  BY <1>2 DEF Run
<1>4. /\ k - 1 \in 0 .. (n - 1) /\ k - 1 \in 0 .. (m - 1)
      /\ k - 1 \notin T /\ (k - 1) + 1 = k
  BY <1>2, <1>3
<1>5. p[k - 1] = q[k - 1]
  BY <1>4
<1>6. p[k] = g[<<k - 1, p[k - 1]>>] /\ q[k] = g[<<k - 1, q[k - 1]>>]
  BY <1>4 DEF Run
<1> QED
  BY <1>2, <1>5, <1>6

Iterates(f, b, g) == f[0] = b /\ \A n \in Nat : f[n + 1] = g[<<n, f[n]>>]

LEMMA NatRecursion ==
  ASSUME NEW A, NEW b \in A, NEW g \in [Nat \X A -> A]
  PROVE  \E f \in [Nat -> A] : Iterates(f, b, g)
<1>1. \A n \in Nat : \E p : Run(n, p, b, g, A)
  <2> DEFINE T == {n \in Nat : ~\E p : Run(n, p, b, g, A)}
  <2>1. SUFFICES ASSUME T # {} PROVE FALSE
    OBVIOUS
  <2>2. PICK k \in T : \A j \in T : k <= j
    BY <2>1, LeastNat
  <2>3. CASE k = 0
    <3> DEFINE p == [i \in 0 .. 0 |-> b]
    <3>1. Run(0, p, b, g, A)
      BY DEF Run
    <3> QED
      BY <2>2, <2>3, <3>1
  <2>4. CASE k # 0
    <3>1. k - 1 \in Nat /\ k - 1 \notin T /\ k \in Nat
      BY <2>2, <2>4
    <3>2. PICK q : Run(k - 1, q, b, g, A)
      BY <3>1
    <3> DEFINE p == [i \in 0 .. k |-> IF i = k THEN g[<<k - 1, q[k - 1]>>] ELSE q[i]]
    <3>3. q[k - 1] \in A
      BY <3>1, <3>2 DEF Run
    <3>4. g[<<k - 1, q[k - 1]>>] \in A
      BY <3>1, <3>3
    <3>5. p \in [0 .. k -> A]
      BY <3>1, <3>2, <3>4 DEF Run
    <3>6. p[0] = b
      BY <2>4, <3>1, <3>2 DEF Run
    <3>7. ASSUME NEW i \in 0 .. (k - 1) PROVE p[i + 1] = g[<<i, p[i]>>]
      <4>1. CASE i = k - 1
        BY <3>1, <4>1
      <4>2. CASE i # k - 1
        <5>1. i \in 0 .. ((k - 1) - 1) /\ i + 1 \in 0 .. k /\ i + 1 # k /\ i # k
          BY <3>1, <4>2
        <5>2. q[i + 1] = g[<<i, q[i]>>]
          BY <3>2, <5>1 DEF Run
        <5>3. p[i + 1] = q[i + 1] /\ p[i] = q[i]
          BY <5>1
        <5> QED
          BY <5>2, <5>3
      <4> QED
        BY <4>1, <4>2
    <3>8. Run(k, p, b, g, A)
      BY <3>5, <3>6, <3>7 DEF Run
    <3> QED
      BY <2>2, <3>8
  <2> QED
    BY <2>3, <2>4
<1> DEFINE P(n) == CHOOSE p : Run(n, p, b, g, A)
           f == [n \in Nat |-> P(n)[n]]
<1>2. ASSUME NEW n \in Nat PROVE Run(n, P(n), b, g, A)
  BY <1>1
<1> HIDE DEF P
<1>3. f \in [Nat -> A] /\ f[0] = b
  <2>1. ASSUME NEW n \in Nat PROVE P(n)[n] \in A
    BY <1>2 DEF Run
  <2>2. P(0)[0] = b
    BY <1>2 DEF Run
  <2> QED
    BY <2>1, <2>2
<1>4. ASSUME NEW n \in Nat PROVE f[n + 1] = g[<<n, f[n]>>]
  <2>1. n + 1 \in Nat /\ n \in 0 .. ((n + 1) - 1) /\ n \in 0 .. n /\ n <= n + 1
    OBVIOUS
  <2>2. P(n + 1)[n + 1] = g[<<n, P(n + 1)[n]>>]
    BY <1>2, <2>1 DEF Run
  <2>3. P(n)[n] = P(n + 1)[n]
    BY <1>2, <2>1, RunsAgree
  <2> QED
    BY <2>1, <2>2, <2>3
<1> QED
  BY <1>3, <1>4 DEF Iterates

Descends(h, S, b, c, g) ==
  /\ h[{}] = b
  /\ \A s \in SUBSET S : s # {} => h[s] = g[<<s, h[s \ {c[s]}]>>]

LEMMA SetRecursion ==
  ASSUME NEW S, IsFiniteSet(S), NEW A, NEW b \in A, NEW c,
         \A s \in SUBSET S : s # {} => c[s] \in s,
         NEW g \in [(SUBSET S) \X A -> A]
  PROVE  \E h \in [SUBSET S -> A] : Descends(h, S, b, c, g)
<1> DEFINE B == [SUBSET S -> A]
           b0 == [s \in SUBSET S |-> b]
           step(p) == [s \in SUBSET S |-> IF s = {} THEN b ELSE g[<<s, p[s \ {c[s]}]>>]]
           g0 == [x \in Nat \X B |-> step(x[2])]
<1>1. b0 \in B
  OBVIOUS
<1>2. ASSUME NEW p \in B PROVE step(p) \in B
  <2>1. ASSUME NEW s \in SUBSET S PROVE p[s \ {c[s]}] \in A
    OBVIOUS
  <2>2. ASSUME NEW s \in SUBSET S PROVE g[<<s, p[s \ {c[s]}]>>] \in A
    BY <2>1
  <2> QED
    BY <2>2
<1>3. ASSUME NEW n \in Nat, NEW p \in B PROVE g0[<<n, p>>] = step(p)
  OBVIOUS
<1>4. g0 \in [Nat \X B -> B]
  <2> HIDE DEF step, B
  <2> QED
    BY <1>2
<1> HIDE DEF g0
<1>5. PICK f \in [Nat -> B] : Iterates(f, b0, g0)
  <2> HIDE DEF B, b0, step
  <2> QED
    BY <1>1, <1>4, NatRecursion
<1>6. ASSUME NEW n \in Nat PROVE f[n + 1] = step(f[n])
  <2> HIDE DEF B, step
  <2> QED
    BY <1>3, <1>5 DEF Iterates
<1> DEFINE h == [s \in SUBSET S |-> f[Cardinality(s)][s]]
<1>7. ASSUME NEW s \in SUBSET S PROVE IsFiniteSet(s) /\ Cardinality(s) \in Nat
  BY FS_Subset, FS_CardinalityType
<1>8. h \in [SUBSET S -> A]
  BY <1>5, <1>7
<1>9. h[{}] = b
  BY <1>5, FS_EmptySet DEF Iterates
<1>10. ASSUME NEW s \in SUBSET S, s # {} PROVE h[s] = g[<<s, h[s \ {c[s]}]>>]
  <2> DEFINE n == Cardinality(s) - 1
  <2>1. c[s] \in s /\ Cardinality(s) # 0
    BY <1>7, <1>10, FS_EmptySet
  <2>2. n \in Nat /\ n + 1 = Cardinality(s)
    BY <1>7, <2>1
  <2>3. Cardinality(s \ {c[s]}) = n
    BY <1>7, <2>1, FS_RemoveElement
  <2>4. h[s] = step(f[n])[s]
    BY <1>6, <2>2
  <2>5. step(f[n])[s] = g[<<s, f[n][s \ {c[s]}]>>]
    BY <1>10
  <2>6. f[n][s \ {c[s]}] = h[s \ {c[s]}]
    BY <2>3
  <2> QED
    BY <2>4, <2>5, <2>6
<1> QED
  BY <1>8, <1>9, <1>10 DEF Descends

Pick(s) == CHOOSE x \in s : TRUE
SumRun(h, f, S) ==
  h = [s \in SUBSET S |-> IF s = {} THEN 0 ELSE f[Pick(s)] + h[s \ {Pick(s)}]]

LEMMA PickIn == ASSUME NEW s, s # {} PROVE Pick(s) \in s
BY DEF Pick

LEMMA SumRunExists ==
  ASSUME NEW S, IsFiniteSet(S), NEW f, \A x \in S : f[x] \in Int
  PROVE  \E h \in [SUBSET S -> Int] : SumRun(h, f, S)
<1> DEFINE c == [s \in SUBSET S |-> Pick(s)]
           g == [y \in (SUBSET S) \X Int |->
                   IF y[1] = {} THEN 0 ELSE f[Pick(y[1])] + y[2]]
<1>1. \A s \in SUBSET S : s # {} => c[s] \in s
  BY PickIn
<1>2. g \in [(SUBSET S) \X Int -> Int]
  <2>1. ASSUME NEW y \in (SUBSET S) \X Int
        PROVE  (IF y[1] = {} THEN 0 ELSE f[Pick(y[1])] + y[2]) \in Int
    <3>1. y[1] \in SUBSET S /\ y[2] \in Int
      OBVIOUS
    <3>2. CASE y[1] # {}
      <4>1. Pick(y[1]) \in S
        BY <3>1, <3>2, PickIn
      <4> QED
        BY <3>1, <3>2, <4>1
    <3> QED
      BY <3>2
  <2> QED
    BY <2>1
<1>3. ASSUME NEW s \in SUBSET S, s # {}, NEW n \in Int
      PROVE  g[<<s, n>>] = f[Pick(s)] + n
  BY <1>3
<1>4. ASSUME NEW s \in SUBSET S PROVE c[s] = Pick(s)
  OBVIOUS
<1> HIDE DEF c, g
<1>5. PICK h \in [SUBSET S -> Int] : Descends(h, S, 0, c, g)
  <2>1. 0 \in Int
    OBVIOUS
  <2> QED
    BY <1>1, <1>2, <2>1, SetRecursion
<1>6. ASSUME NEW s \in SUBSET S
      PROVE  h[s] = IF s = {} THEN 0 ELSE f[Pick(s)] + h[s \ {Pick(s)}]
  <2>1. CASE s = {}
    BY <1>5, <2>1 DEF Descends
  <2>2. CASE s # {}
    <3>1. s \ {Pick(s)} \in SUBSET S
      OBVIOUS
    <3>2. h[s] = g[<<s, h[s \ {Pick(s)}]>>]
      BY <1>4, <1>5, <2>2 DEF Descends
    <3>3. h[s \ {Pick(s)}] \in Int
      BY <1>5, <3>1
    <3>4. g[<<s, h[s \ {Pick(s)}]>>] = f[Pick(s)] + h[s \ {Pick(s)}]
      BY <1>3, <2>2, <3>3
    <3> QED
      BY <2>2, <3>2, <3>4
  <2> QED
    BY <2>1, <2>2
<1>7. h = [s \in SUBSET S |-> h[s]]
  BY <1>5
<1>8. SumRun(h, f, S)
  BY <1>6, <1>7 DEF SumRun
<1> QED
  BY <1>5, <1>8

LEMMA SumRunFacts ==
  ASSUME NEW S, NEW f, NEW h, SumRun(h, f, S)
  PROVE  \A s \in SUBSET S : h[s] = IF s = {} THEN 0 ELSE f[Pick(s)] + h[s \ {Pick(s)}]
BY DEF SumRun

LEMMA SumIsRun ==
  ASSUME NEW S, IsFiniteSet(S), NEW f, \A x \in S : f[x] \in Int
  PROVE  \E h : SumRun(h, f, S) /\ h[S] = SumFunctionOnSet(f, S)
<1> DEFINE k == CHOOSE h : SumRun(h, f, S)
<1>1. SumRun(k, f, S)
  BY SumRunExists
<1>2. SumFunctionOnSet(f, S) = k[S]
  BY DEF SumFunctionOnSet, FoldFunctionOnSet, MapThenFoldSet, SumRun, Pick
<1> QED
  BY <1>1, <1>2

LEMMA SumRunsAgree ==
  ASSUME NEW S, NEW T, NEW f, NEW e, NEW h, NEW k,
         SumRun(h, f, S), SumRun(k, e, T),
         NEW U \in SUBSET (S \cap T), IsFiniteSet(U), \A x \in U : f[x] = e[x]
  PROVE  h[U] = k[U]
<1> DEFINE W == {s \in SUBSET U : h[s] # k[s]}
           N == {Cardinality(s) : s \in W}
<1>1. SUFFICES ASSUME W # {} PROVE FALSE
  OBVIOUS
<1>2. \A s \in SUBSET U : IsFiniteSet(s) /\ Cardinality(s) \in Nat
  BY FS_Subset, FS_CardinalityType
<1>3. PICK n \in N : \A m \in N : n <= m
  <2>1. N \subseteq Nat /\ N # {}
    BY <1>1, <1>2
  <2> HIDE DEF N
  <2> QED
    BY <2>1, LeastNat
<1>4. PICK s \in W : Cardinality(s) = n
  BY <1>3
<1>5. s # {}
  <2>1. h[{}] = 0 /\ k[{}] = 0
    BY SumRunFacts
  <2> QED
    BY <1>4, <2>1
<1> DEFINE x == Pick(s)
           s1 == s \ {x}
<1>6. x \in s /\ x \in U
  BY <1>4, <1>5, PickIn
<1> HIDE DEF x
<1>7. s1 \in SUBSET U /\ Cardinality(s1) = n - 1 /\ n \in Nat
  BY <1>2, <1>4, <1>6, FS_RemoveElement
<1>8. h[s1] = k[s1]
  <2>1. Cardinality(s1) \notin N
    BY <1>3, <1>7
  <2> QED
    BY <1>7, <2>1
<1>9. h[s] = f[x] + h[s1] /\ k[s] = e[x] + k[s1]
  BY <1>4, <1>5, SumRunFacts DEF x
<1> QED
  BY <1>4, <1>6, <1>8, <1>9

Integers(f, S) == IsFiniteSet(S) /\ \A x \in S : f[x] \in Int

\* The run for S computes the sum of every subset of S.
LEMMA SumOfSubset ==
  ASSUME NEW S, NEW f, Integers(f, S), NEW h, SumRun(h, f, S), NEW U \in SUBSET S
  PROVE  h[U] = SumFunctionOnSet(f, U)
<1>1. IsFiniteSet(U) /\ \A x \in U : f[x] \in Int
  BY FS_Subset DEF Integers
<1>2. PICK k : SumRun(k, f, U) /\ k[U] = SumFunctionOnSet(f, U)
  BY <1>1, SumIsRun
<1>3. h[U] = k[U]
  <2>1. U \in SUBSET (S \cap U)
    OBVIOUS
  <2> QED
    BY <1>1, <1>2, <2>1, SumRunsAgree
<1> QED
  BY <1>2, <1>3

LEMMA SumEmpty == \A f : SumFunctionOnSet(f, {}) = 0
<1>1. ASSUME NEW f PROVE SumFunctionOnSet(f, {}) = 0
  <2>1. PICK h : SumRun(h, f, {}) /\ h[{}] = SumFunctionOnSet(f, {})
    BY FS_EmptySet, SumIsRun
  <2> QED
    BY <2>1, SumRunFacts
<1> QED
  BY <1>1

LEMMA SumType ==
  ASSUME NEW S, NEW f, Integers(f, S)
  PROVE  SumFunctionOnSet(f, S) \in Int
<1>1. PICK h \in [SUBSET S -> Int] : SumRun(h, f, S)
  BY SumRunExists DEF Integers
<1>2. S \in SUBSET S
  OBVIOUS
<1>3. h[S] = SumFunctionOnSet(f, S)
  BY <1>1, <1>2, SumOfSubset
<1> QED
  BY <1>1, <1>2, <1>3

Agree(f, e, S) == \A x \in S : f[x] = e[x]

LEMMA SumSame ==
  ASSUME NEW S, NEW f, NEW e, Integers(f, S), Agree(f, e, S)
  PROVE  SumFunctionOnSet(f, S) = SumFunctionOnSet(e, S)
<1>1. PICK h : SumRun(h, f, S) /\ h[S] = SumFunctionOnSet(f, S)
  BY SumIsRun DEF Integers
<1>2. IsFiniteSet(S) /\ \A x \in S : e[x] \in Int /\ f[x] = e[x]
  BY DEF Integers, Agree
<1>3. PICK k : SumRun(k, e, S) /\ k[S] = SumFunctionOnSet(e, S)
  BY <1>2, SumIsRun
<1>4. S \in SUBSET (S \cap S)
  OBVIOUS
<1>5. h[S] = k[S]
  BY <1>1, <1>2, <1>3, <1>4, SumRunsAgree
<1> QED
  BY <1>1, <1>3, <1>5

\* Any element of S can be taken out first.
LEMMA SumRemove ==
  ASSUME NEW S, NEW f, Integers(f, S), NEW x \in S
  PROVE  SumFunctionOnSet(f, S) = f[x] + SumFunctionOnSet(f, S \ {x})
<1>1. PICK h \in [SUBSET S -> Int] : SumRun(h, f, S)
  BY SumRunExists DEF Integers
<1>2. IsFiniteSet(S) /\ \A y \in S : f[y] \in Int
  BY DEF Integers
<1> DEFINE Good(s) == \A y \in s : h[s] = f[y] + h[s \ {y}]
           W == {s \in SUBSET S : ~Good(s)}
           N == {Cardinality(s) : s \in W}
<1>3. W = {}
  <2>1. SUFFICES ASSUME W # {} PROVE FALSE
    OBVIOUS
  <2>2. \A s \in SUBSET S : IsFiniteSet(s) /\ Cardinality(s) \in Nat
    BY <1>2, FS_Subset, FS_CardinalityType
  <2>3. PICK n \in N : \A m \in N : n <= m
    <3>1. N \subseteq Nat /\ N # {}
      BY <2>1, <2>2
    <3> HIDE DEF N
    <3> QED
      BY <3>1, LeastNat
  <2>4. PICK s \in W : Cardinality(s) = n
    BY <2>3
  <2>5. PICK y \in s : h[s] # f[y] + h[s \ {y}]
    BY <2>4
  <2> DEFINE z == Pick(s)
  <2>6. z \in s /\ h[s] = f[z] + h[s \ {z}]
    BY <1>1, <2>4, <2>5, PickIn, SumRunFacts
  <2> HIDE DEF z
  <2>7. y # z /\ y \in S /\ z \in S
    BY <2>4, <2>5, <2>6
  <2>8. ASSUME NEW v \in s
        PROVE  s \ {v} \in SUBSET S /\ Good(s \ {v})
    <3>1. s \ {v} \in SUBSET S /\ Cardinality(s \ {v}) = n - 1 /\ n \in Nat
      BY <2>2, <2>4, <2>8, FS_RemoveElement
    <3>2. Cardinality(s \ {v}) \notin N
      BY <2>3, <3>1
    <3> QED
      BY <3>1, <3>2
  <2> DEFINE both == (s \ {z}) \ {y}
  <2>9. h[s \ {z}] = f[y] + h[both]
    BY <2>5, <2>6, <2>7, <2>8
  <2>10. h[s \ {y}] = f[z] + h[both]
    <3>1. (s \ {y}) \ {z} = both
      OBVIOUS
    <3> HIDE DEF both
    <3> QED
      BY <2>5, <2>6, <2>7, <2>8, <3>1
  <2>11. h[both] \in Int /\ f[y] \in Int /\ f[z] \in Int
    BY <1>1, <1>2, <2>4, <2>7
  <2> HIDE DEF both
  <2>12. h[s] = f[y] + h[s \ {y}]
    BY <2>6, <2>9, <2>10, <2>11
  <2> QED
    BY <2>5, <2>12
<1>4. S \in SUBSET S /\ S \ {x} \in SUBSET S
  OBVIOUS
<1>5. h[S] = f[x] + h[S \ {x}]
  BY <1>3, <1>4
<1>6. h[S] = SumFunctionOnSet(f, S) /\ h[S \ {x}] = SumFunctionOnSet(f, S \ {x})
  BY <1>1, <1>4, SumOfSubset
<1> QED
  BY <1>5, <1>6

LEMMA SumAdd ==
  ASSUME NEW S, NEW f, Integers(f, S), NEW x, x \notin S, f[x] \in Int
  PROVE  /\ Integers(f, S \cup {x})
         /\ SumFunctionOnSet(f, S \cup {x}) = f[x] + SumFunctionOnSet(f, S)
<1>1. Integers(f, S \cup {x})
  BY FS_AddElement DEF Integers
<1>2. x \in S \cup {x} /\ (S \cup {x}) \ {x} = S
  OBVIOUS
<1>3. SumFunctionOnSet(f, S \cup {x}) = f[x] + SumFunctionOnSet(f, (S \cup {x}) \ {x})
  BY <1>1, <1>2, SumRemove
<1> QED
  BY <1>1, <1>2, <1>3

\* f changes at x only.
LEMMA SumChange ==
  ASSUME NEW S, NEW f, NEW e, Integers(f, S), NEW x \in S, e[x] \in Int,
         Agree(f, e, S \ {x})
  PROVE  /\ Integers(e, S)
         /\ SumFunctionOnSet(e, S) = SumFunctionOnSet(f, S) + (e[x] - f[x])
<1>1. Integers(e, S)
  BY DEF Integers, Agree
<1>2. Integers(f, S \ {x}) /\ f[x] \in Int
  BY FS_RemoveElement DEF Integers
<1>3. /\ SumFunctionOnSet(f, S) = f[x] + SumFunctionOnSet(f, S \ {x})
      /\ SumFunctionOnSet(e, S) = e[x] + SumFunctionOnSet(e, S \ {x})
  BY <1>1, SumRemove
<1>4. SumFunctionOnSet(f, S \ {x}) = SumFunctionOnSet(e, S \ {x})
  BY <1>2, SumSame
<1>5. SumFunctionOnSet(f, S \ {x}) \in Int
  BY <1>2, SumType
<1> QED
  BY <1>1, <1>2, <1>3, <1>4, <1>5

\* Adding n to one value of a function adds n to its sum.
LEMMA SumExcept ==
  ASSUME NEW S, NEW f, DOMAIN f = S, Integers(f, S), NEW x \in S, NEW n \in Int
  PROVE  SumFunctionOnSet([f EXCEPT ![x] = @ + n], S) = SumFunctionOnSet(f, S) + n
<1> DEFINE e == [f EXCEPT ![x] = @ + n]
<1>1. f[x] \in Int /\ e[x] = f[x] + n /\ \A y \in S \ {x} : e[y] = f[y]
  BY DEF Integers
<1> HIDE DEF e
<1>2. e[x] \in Int /\ n = e[x] - f[x] /\ Agree(f, e, S \ {x})
  BY <1>1 DEF Agree
<1>3. SumFunctionOnSet(e, S) = SumFunctionOnSet(f, S) + (e[x] - f[x])
  BY <1>2, SumChange
<1>4. SumFunctionOnSet(e, S) = SumFunctionOnSet(f, S) + n
  BY <1>2, <1>3
<1> QED
  BY <1>4 DEF e

\* A sum of naturals is at least each of its terms; of zeros it is zero.
LEMMA SumNat ==
  ASSUME NEW S, NEW f, IsFiniteSet(S), \A x \in S : f[x] \in Nat
  PROVE  /\ SumFunctionOnSet(f, S) \in Nat
         /\ \A x \in S : f[x] <= SumFunctionOnSet(f, S)
<1> DEFINE W == {s \in SUBSET S : ~(SumFunctionOnSet(f, s) \in Nat)}
           N == {Cardinality(s) : s \in W}
<1>1. ASSUME NEW s \in SUBSET S
      PROVE  IsFiniteSet(s) /\ Cardinality(s) \in Nat /\ Integers(f, s)
  BY FS_Subset, FS_CardinalityType DEF Integers
<1>2. W = {}
  <2>1. SUFFICES ASSUME W # {} PROVE FALSE
    OBVIOUS
  <2>2. PICK n \in N : \A m \in N : n <= m
    <3>1. N \subseteq Nat /\ N # {}
      BY <1>1, <2>1
    <3> HIDE DEF N
    <3> QED
      BY <3>1, LeastNat
  <2>3. PICK s \in W : Cardinality(s) = n
    BY <2>2
  <2>4. PICK x \in s : TRUE
    BY <2>3, SumEmpty
  <2>5. s \in SUBSET S /\ s \ {x} \in SUBSET S /\ f[x] \in Nat
    BY <2>3, <2>4
  <2>6. Cardinality(s \ {x}) = n - 1 /\ n \in Nat
    BY <1>1, <2>3, <2>4, <2>5, FS_RemoveElement
  <2>7. SumFunctionOnSet(f, s \ {x}) \in Nat
    <3>1. Cardinality(s \ {x}) \notin N
      BY <2>2, <2>6
    <3> QED
      BY <2>5, <3>1
  <2>8. SumFunctionOnSet(f, s) = f[x] + SumFunctionOnSet(f, s \ {x})
    BY <1>1, <2>4, <2>5, SumRemove
  <2> QED
    BY <2>3, <2>5, <2>7, <2>8
<1>3. ASSUME NEW x \in S PROVE f[x] <= SumFunctionOnSet(f, S)
  <2>1. SumFunctionOnSet(f, S) = f[x] + SumFunctionOnSet(f, S \ {x})
    BY <1>1, SumRemove
  <2>2. SumFunctionOnSet(f, S \ {x}) \in Nat
    BY <1>2
  <2> QED
    BY <2>1, <2>2
<1> QED
  BY <1>2, <1>3

LEMMA SumZero ==
  ASSUME NEW S, NEW f, IsFiniteSet(S), \A x \in S : f[x] = 0
  PROVE  SumFunctionOnSet(f, S) = 0
<1> DEFINE W == {s \in SUBSET S : SumFunctionOnSet(f, s) # 0}
           N == {Cardinality(s) : s \in W}
<1>1. ASSUME NEW s \in SUBSET S
      PROVE  IsFiniteSet(s) /\ Cardinality(s) \in Nat /\ Integers(f, s)
  BY FS_Subset, FS_CardinalityType DEF Integers
<1>2. W = {}
  <2>1. SUFFICES ASSUME W # {} PROVE FALSE
    OBVIOUS
  <2>2. PICK n \in N : \A m \in N : n <= m
    <3>1. N \subseteq Nat /\ N # {}
      BY <1>1, <2>1
    <3> HIDE DEF N
    <3> QED
      BY <3>1, LeastNat
  <2>3. PICK s \in W : Cardinality(s) = n
    BY <2>2
  <2>4. PICK x \in s : TRUE
    BY <2>3, SumEmpty
  <2>5. s \in SUBSET S /\ s \ {x} \in SUBSET S /\ f[x] = 0
    BY <2>3, <2>4
  <2>6. Cardinality(s \ {x}) = n - 1 /\ n \in Nat
    BY <1>1, <2>3, <2>4, <2>5, FS_RemoveElement
  <2>7. SumFunctionOnSet(f, s \ {x}) = 0
    <3>1. Cardinality(s \ {x}) \notin N
      BY <2>2, <2>6
    <3> QED
      BY <2>5, <3>1
  <2>8. SumFunctionOnSet(f, s) = f[x] + SumFunctionOnSet(f, s \ {x})
    BY <1>1, <2>4, <2>5, SumRemove
  <2> QED
    BY <2>3, <2>5, <2>7, <2>8
<1> QED
  BY <1>2

(***************************************************************************)
(* Left folds.  FoldLeft recurses over sets of positions of a sequence, of *)
(* which the last is taken first.                                          *)
(***************************************************************************)
\* Induction: a set of numbers that contains 0 and with each number the next.
LEMMA Climb ==
  ASSUME NEW N \in Nat, NEW P, 0 \in P, \A n \in 1 .. N : n - 1 \in P => n \in P
  PROVE  \A n \in 0 .. N : n \in P
<1> DEFINE T == {n \in 0 .. N : n \notin P}
<1>1. SUFFICES ASSUME T # {} PROVE FALSE
  OBVIOUS
<1>2. PICK n \in T : \A m \in T : n <= m
  <2>1. T \subseteq Nat
    OBVIOUS
  <2> HIDE DEF T
  <2> QED
    BY <1>1, <2>1, LeastNat
<1>3. n # 0
  BY <1>2
<1>4. n \in 1 .. N /\ n - 1 \in 0 .. N /\ ~(n <= n - 1)
  BY <1>2, <1>3
<1>5. n - 1 \in P
  BY <1>2, <1>4
<1> QED
  BY <1>2, <1>4, <1>5

LEMMA MaxFacts ==
  ASSUME NEW n \in Nat, NEW d \in SUBSET (1 .. n), d # {}
  PROVE  Max(d) \in d /\ \A x \in d : Max(d) >= x
<1> DEFINE T == {n - x : x \in d}
<1>1. T \subseteq Nat /\ T # {}
  <2>1. \A x \in d : n - x \in Nat
    OBVIOUS
  <2> QED
    BY <2>1
<1> HIDE DEF T
<1>2. PICK m \in T : \A k \in T : m <= k
  BY <1>1, LeastNat
<1>3. PICK x \in d : m = n - x
  BY <1>2 DEF T
<1>4. \A y \in d : x >= y
  <2> SUFFICES ASSUME NEW y \in d PROVE x >= y
    OBVIOUS
  <2>1. n - y \in T
    BY DEF T
  <2>2. n - x <= n - y
    BY <1>2, <1>3, <2>1
  <2>3. x \in Nat /\ y \in Nat
    OBVIOUS
  <2> QED
    BY <2>2, <2>3
<1> QED
  BY <1>4 DEF Max

\* The last of the first n positions, and those before it.
LEMMA LastPosition ==
  ASSUME NEW n \in Nat, n > 0
  PROVE  1 .. n # {} /\ Max(1 .. n) = n /\ (1 .. n) \ {Max(1 .. n)} = 1 .. (n - 1)
<1>1. n \in 1 .. n /\ 1 .. n \in SUBSET (1 .. n)
  OBVIOUS
<1>2. Max(1 .. n) \in 1 .. n /\ Max(1 .. n) >= n
  BY <1>1, MaxFacts
<1> QED
  BY <1>1, <1>2

\* The fold of g over the elements of s at a set of positions.
FoldOf(h, s, b, g) ==
  h = [d \in SUBSET (DOMAIN s) |->
         IF d = {} THEN b ELSE g[<<h[d \ {Max(d)}], s[Max(d)]>>]]

LEMMA FoldExists ==
  ASSUME NEW N \in Nat, NEW s, DOMAIN s = 1 .. N, NEW E, \A i \in 1 .. N : s[i] \in E,
         NEW A, NEW b \in A, NEW g \in [A \X E -> A]
  PROVE  \E h \in [SUBSET (1 .. N) -> A] : FoldOf(h, s, b, g)
<1> DEFINE D == 1 .. N
           c == [d \in SUBSET D |-> Max(d)]
           k == [y \in (SUBSET D) \X A |-> IF y[1] = {} THEN b ELSE g[<<y[2], s[Max(y[1])]>>]]
<1>1. IsFiniteSet(D)
  BY FS_Interval
<1>2. \A d \in SUBSET D : d # {} => Max(d) \in d
  BY MaxFacts
<1>3. \A d \in SUBSET D : d # {} => c[d] \in d
  BY <1>2
<1>4. ASSUME NEW d \in SUBSET D, d # {}, NEW x \in A
      PROVE  k[<<d, x>>] = g[<<x, s[Max(d)]>>] /\ g[<<x, s[Max(d)]>>] \in A
  <2>1. s[Max(d)] \in E
    BY <1>2, <1>4
  <2> QED
    BY <1>4, <2>1
<1>5. ASSUME NEW x \in A PROVE k[<<{}, x>>] = b
  OBVIOUS
<1>6. k \in [(SUBSET D) \X A -> A]
  <2>1. ASSUME NEW y \in (SUBSET D) \X A
        PROVE  (IF y[1] = {} THEN b ELSE g[<<y[2], s[Max(y[1])]>>]) \in A
    <3>1. y[1] \in SUBSET D /\ y[2] \in A
      OBVIOUS
    <3> QED
      BY <1>4, <3>1
  <2> QED
    BY <2>1
<1>7. \A d \in SUBSET D : c[d] = Max(d)
  OBVIOUS
<1> HIDE DEF c, k
<1>8. PICK h \in [SUBSET D -> A] : Descends(h, D, b, c, k)
  <2> HIDE DEF D
  <2> QED
    BY <1>1, <1>3, <1>6, SetRecursion
<1>9. ASSUME NEW d \in SUBSET D
      PROVE  h[d] = IF d = {} THEN b ELSE g[<<h[d \ {Max(d)}], s[Max(d)]>>]
  <2>1. CASE d = {}
    BY <1>8, <2>1 DEF Descends
  <2>2. CASE d # {}
    <3>1. d \ {Max(d)} \in SUBSET D
      OBVIOUS
    <3>2. h[d] = k[<<d, h[d \ {Max(d)}]>>]
      BY <1>7, <1>8, <2>2 DEF Descends
    <3>3. h[d \ {Max(d)}] \in A
      BY <1>8, <3>1
    <3> QED
      BY <1>4, <2>2, <3>2, <3>3
  <2> QED
    BY <2>1, <2>2
<1>10. h = [d \in SUBSET D |-> h[d]]
  BY <1>8
<1>11. FoldOf(h, s, b, g)
  BY <1>9, <1>10 DEF FoldOf
<1> QED
  BY <1>8, <1>11

=================================================================================
