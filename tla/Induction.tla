------------------------------ MODULE Induction ------------------------------
(***************************************************************************)
(* Induction over the naturals, stated of a set instead of a predicate, so *)
(* that a first-order prover can use it; what it says of a function        *)
(* defined by recursion over the prefixes of a sequence, the form FoldLeft *)
(* has; and the least and the greatest element of a set of naturals.       *)
(***************************************************************************)
EXTENDS Integers, SequencesExt, FiniteSetTheorems, TLAPS

\* The naturals are well ordered: n is below m as 1..n is a strict subset of
\* 1..m, and strict inclusion is well founded on finite sets.
LEMMA LeastNumber ==
  ASSUME NEW T, T \subseteq Nat, T # {}
  PROVE  \E x \in T : \A y \in T : x <= y
<1> DEFINE Below(n) == 1..n
           U == {Below(n) : n \in T}
<1>1. \A n \in Nat : Below(n) \in FiniteSubsetsOf(Nat)
  BY FS_Interval DEF FiniteSubsetsOf
<1>2. U \subseteq FiniteSubsetsOf(Nat) /\ U # {}
  BY <1>1
<1>3. PICK u \in U : \A v \in U : ~ (<<v, u>> \in StrictSubsetOrdering(Nat))
  <2> HIDE DEF U
  <2> QED BY <1>2, WFMin, FS_StrictSubsetOrderingWellFounded
<1>4. PICK x \in T : u = Below(x)
  OBVIOUS
<1>5. ASSUME NEW y \in T, y < x PROVE FALSE
  <2>1. Below(y) \subseteq Below(x) /\ x \in Below(x) /\ x \notin Below(y)
    BY <1>5
  <2>2. Below(y) \in SUBSET Nat /\ Below(x) \in SUBSET Nat
    OBVIOUS
  <2>3. <<Below(y), Below(x)>> \in StrictSubsetOrdering(Nat)
    <3> HIDE DEF Below
    <3> QED BY <2>1, <2>2 DEF StrictSubsetOrdering
  <2> QED BY <1>3, <1>4, <2>3
<1> QED BY <1>5

\* A set that holds 0 and the successor of each of its naturals holds them all.
LEMMA NatSet ==
  ASSUME NEW S, 0 \in S, \A n \in Nat : n \in S => n + 1 \in S
  PROVE  Nat \subseteq S
<1> DEFINE T == Nat \ S
<1> SUFFICES ASSUME T # {} PROVE FALSE
  OBVIOUS
<1>1. PICK x \in T : \A y \in T : x <= y
  <2>1. T \subseteq Nat
    OBVIOUS
  <2> HIDE DEF T
  <2> QED BY <2>1, LeastNumber
<1>2. x # 0 /\ x - 1 \in Nat /\ x - 1 + 1 = x
  OBVIOUS
<1>3. x - 1 \in T
  BY <1>2
<1> QED BY <1>1, <1>2, <1>3

\* Min picks the least element of a set of naturals.
LEMMA MinIsLeast ==
  ASSUME NEW T, T \subseteq Nat, T # {}
  PROVE  Min(T) \in T /\ \A y \in T : Min(T) <= y
BY LeastNumber DEF Min

\* Max picks the greatest of a set of numbers up to n, 0 included.
LEMMA MaxOfNumbers ==
  ASSUME NEW n \in Nat, NEW T, T \subseteq 0..n, T # {}
  PROVE  Max(T) \in T /\ \A y \in T : Max(T) >= y
<1> DEFINE Mirror == {m \in Nat : n - m \in T}
<1>1. PICK x \in T : TRUE
  OBVIOUS
<1>2. n - x \in Mirror
  <2>1. n - x \in Nat /\ n - (n - x) = x
    BY <1>1
  <2> QED BY <2>1
<1>3. PICK m \in Mirror : \A y \in Mirror : m <= y
  <2>1. Mirror \subseteq Nat /\ Mirror # {}
    BY <1>2
  <2> HIDE DEF Mirror
  <2> QED BY <2>1, LeastNumber
<1>4. n - m \in T /\ m \in Nat
  OBVIOUS
<1>5. ASSUME NEW y \in T PROVE n - m >= y
  <2>1. y \in 0..n /\ n - y \in Nat /\ n - (n - y) = y
    BY <1>5
  <2>2. n - y \in Mirror
    BY <2>1
  <2>3. m <= n - y
    BY <1>3, <2>2
  <2> QED BY <2>1, <2>3, <1>4
<1> QED BY <1>4, <1>5 DEF Max

LEMMA MaxIsGreatest ==
  ASSUME NEW n \in Nat, NEW T, T \subseteq 1..n, T # {}
  PROVE  Max(T) \in T /\ \A y \in T : Max(T) >= y
<1>1. T \subseteq 0..n
  OBVIOUS
<1> QED BY <1>1, MaxOfNumbers

\* The greatest element of a prefix is its last, and without it the prefix is one
\* shorter.
LEMMA MaxOfPrefix ==
  ASSUME NEW k \in Nat
  PROVE  Max(1..(k + 1)) = k + 1 /\ (1..(k + 1)) \ {k + 1} = 1..k
<1>1. Max(1..(k + 1)) \in 1..(k + 1) /\ \A y \in 1..(k + 1) : Max(1..(k + 1)) >= y
  <2>1. 1..(k + 1) # {} /\ k + 1 \in Nat
    BY SMT
  <2> QED BY <2>1, MaxIsGreatest
<1>2. k + 1 \in 1..(k + 1)
  BY SMT
<1> QED BY <1>1, <1>2

\* There is a function that folds T over the subsets of 1..n from their greatest
\* element down: what MapThenFoldSet chooses.
Folds(g, n, base, T) ==
  g = [s \in SUBSET (1..n) |-> IF s = {} THEN base ELSE T[<<g[s \ {Max(s)}], Max(s)>>]]

LEMMA FoldExists ==
  ASSUME NEW n \in Nat, NEW A, NEW base \in A, NEW T \in [A \X (1..n) -> A]
  PROVE  \E g \in [SUBSET (1..n) -> A] : Folds(g, n, base, T)
<1> DEFINE Has(k) == \E g \in [SUBSET (1..k) -> A] : Folds(g, k, base, T)
           K == {k \in Nat : k <= n => Has(k)}
<1>1. 0 \in K
  <2> DEFINE g == [s \in SUBSET (1..0) |-> base]
  <2>1. 1..0 = {}
    OBVIOUS
  <2>2. g \in [SUBSET (1..0) -> A]
    OBVIOUS
  <2>3. Folds(g, 0, base, T)
    BY <2>1 DEF Folds
  <2> QED BY <2>2, <2>3
<1>2. ASSUME NEW k \in Nat, Has(k), k + 1 <= n PROVE Has(k + 1)
  <2>1. PICK g \in [SUBSET (1..k) -> A] : Folds(g, k, base, T)
    BY <1>2
  <2> DEFINE D == SUBSET (1..(k + 1))
             h == [s \in D |-> IF k + 1 \in s THEN T[<<g[s \ {k + 1}], k + 1>>] ELSE g[s]]
  <2>2. ASSUME NEW s \in D, k + 1 \in s
        PROVE  s \ {k + 1} \in SUBSET (1..k) /\ Max(s) = k + 1
    <3>1. s \ {k + 1} \in SUBSET (1..k)
      BY <2>2 DEF D
    <3>2. Max(s) \in s /\ \A y \in s : Max(s) >= y
      <4>1. k + 1 \in Nat
        OBVIOUS
      <4> QED BY <2>2, <4>1, MaxIsGreatest
    <3>3. Max(s) = k + 1
      <4>1. Max(s) \in 1..(k + 1) /\ Max(s) >= k + 1
        BY <2>2, <3>2
      <4> QED BY <4>1
    <3> QED BY <3>1, <3>3
  <2>3. ASSUME NEW s \in D, k + 1 \notin s
        PROVE  s \in SUBSET (1..k) /\ s \ {Max(s)} \in SUBSET (1..k)
    <3>1. s \subseteq 1..k
      <4>1. ASSUME NEW x \in s PROVE x \in 1..k
        <5>1. x \in 1..(k + 1) /\ x # k + 1
          BY <2>3
        <5> QED BY <5>1
      <4> QED BY <4>1
    <3> QED BY <3>1
  <2>4. h \in [D -> A]
    <3>1. ASSUME NEW s \in D PROVE h[s] \in A
      <4>1. CASE k + 1 \in s
        <5>1. <<g[s \ {k + 1}], k + 1>> \in A \X (1..n)
          BY <1>2, <2>2, <4>1
        <5> QED BY <4>1, <5>1
      <4>2. CASE k + 1 \notin s
        BY <4>2, <2>3
      <4> QED BY <4>1, <4>2
    <3> QED BY <3>1
  <2>5. ASSUME NEW s \in D
        PROVE  h[s] = IF s = {} THEN base ELSE T[<<h[s \ {Max(s)}], Max(s)>>]
    <3>1. CASE k + 1 \in s
      <4>1. s \ {k + 1} \in D /\ k + 1 \notin s \ {k + 1} /\ s # {}
        BY <3>1
      <4>2. h[s \ {k + 1}] = g[s \ {k + 1}]
        BY <4>1
      <4> QED BY <3>1, <2>2, <4>1, <4>2
    <3>2. CASE k + 1 \notin s
      <4>1. s \ {Max(s)} \in D /\ k + 1 \notin s \ {Max(s)}
        BY <3>2
      <4>2. h[s] = g[s] /\ h[s \ {Max(s)}] = g[s \ {Max(s)}]
        BY <4>1, <3>2
      <4>3. g[s] = IF s = {} THEN base ELSE T[<<g[s \ {Max(s)}], Max(s)>>]
        BY <2>1, <2>3, <3>2 DEF Folds
      <4> QED BY <4>2, <4>3
    <3> QED BY <3>1, <3>2
  <2>6. Folds(h, k + 1, base, T)
    <3>1. h = [s \in D |-> h[s]]
      OBVIOUS
    <3> HIDE DEF h
    <3> QED BY <2>5, <3>1 DEF Folds
  <2> QED BY <2>4, <2>6
<1>3. Nat \subseteq K
  <2> HIDE DEF Has
  <2>1. \A k \in Nat : k \in K => k + 1 \in K
    BY <1>2
  <2> HIDE DEF K
  <2> QED BY <1>1, <2>1, NatSet
<1>4. Has(n)
  <2> HIDE DEF Has
  <2> QED BY <1>3
<1> QED BY <1>4
\* Repeating T: the function from how often to what it comes to exists.
Repeats(f, base, T) == f[0] = base /\ \A k \in Nat : f[k + 1] = T[f[k]]

LEMMA RepeatExists ==
  ASSUME NEW A, NEW base \in A, NEW T \in [A -> A]
  PROVE  \E f \in [Nat -> A] : Repeats(f, base, T)
<1> DEFINE Upto(g, n) == /\ g \in [0..n -> A] /\ g[0] = base
                         /\ \A i \in 0..(n - 1) : g[i + 1] = T[g[i]]
           K == {n \in Nat : \E g : Upto(g, n)}
<1>1. 0 \in K
  <2> DEFINE g == [i \in 0..0 |-> base]
  <2>1. Upto(g, 0)
    OBVIOUS
  <2> HIDE DEF g, Upto
  <2> QED BY <2>1
<1>2. ASSUME NEW n \in Nat, n \in K PROVE n + 1 \in K
  <2>1. PICK g : Upto(g, n)
    BY <1>2
  <2> DEFINE h == [i \in 0..(n + 1) |-> IF i = n + 1 THEN T[g[n]] ELSE g[i]]
  <2>2. h \in [0..(n + 1) -> A] /\ h[0] = base
    BY <2>1
  <2>3. ASSUME NEW i \in 0..n PROVE h[i + 1] = T[h[i]]
    <3>1. h[i] = g[i] /\ i + 1 \in 0..(n + 1)
      OBVIOUS
    <3>2. CASE i = n
      BY <3>1, <3>2
    <3>3. CASE i # n
      <4>1. i \in 0..(n - 1) /\ h[i + 1] = g[i + 1]
        BY <3>3
      <4> QED BY <2>1, <3>1, <4>1
    <3> QED BY <3>2, <3>3
  <2>4. n + 1 - 1 = n /\ n + 1 \in Nat
    OBVIOUS
  <2> HIDE DEF h
  <2>5. Upto(h, n + 1)
    BY <2>2, <2>3, <2>4
  <2> HIDE DEF Upto
  <2> QED BY <2>4, <2>5
<1>3. Nat \subseteq K
  <2> HIDE DEF K
  <2> QED BY <1>1, <1>2, NatSet
<1>4. ASSUME NEW n \in Nat, NEW m \in Nat, m <= n, NEW g, Upto(g, n), NEW h, Upto(h, m)
      PROVE  g[m] = h[m]
  <2> DEFINE E == {i \in Nat : i <= m => g[i] = h[i]}
  <2>1. 0 \in E
    BY <1>4
  <2>2. ASSUME NEW i \in Nat, i \in E PROVE i + 1 \in E
    <3>1. i + 1 <= m => i \in 0..(n - 1) /\ i \in 0..(m - 1) /\ i <= m
      BY <1>4
    <3> QED BY <1>4, <2>2, <3>1
  <2>3. Nat \subseteq E
    <3> HIDE DEF E
    <3> QED BY <2>1, <2>2, NatSet
  <2> QED BY <2>3
<1> DEFINE pick(n) == CHOOSE g : Upto(g, n)
           f == [n \in Nat |-> pick(n)[n]]
<1>5. ASSUME NEW n \in Nat PROVE Upto(pick(n), n)
  <2>1. \E g : Upto(g, n)
    BY <1>3
  <2> HIDE DEF Upto
  <2> QED BY <2>1
<1>6. ASSUME NEW n \in Nat PROVE f[n] \in A
  <2> HIDE DEF pick
  <2>1. pick(n)[n] \in A
    BY <1>5
  <2> QED BY <2>1
<1>7. f[0] = base
  <2> HIDE DEF pick
  <2>1. pick(0)[0] = base
    BY <1>5
  <2> QED BY <2>1
<1>8. ASSUME NEW k \in Nat PROVE f[k + 1] = T[f[k]]
  <2> HIDE DEF pick
  <2>1. k + 1 \in Nat /\ k <= k + 1 /\ k \in 0..(k + 1 - 1)
    OBVIOUS
  <2>2. Upto(pick(k + 1), k + 1) /\ Upto(pick(k), k)
    BY <1>5, <2>1
  <2>3. pick(k + 1)[k] = pick(k)[k]
    <3> HIDE DEF Upto
    <3> QED BY <1>4, <2>1, <2>2
  <2>4. pick(k + 1)[k + 1] = T[pick(k + 1)[k]]
    BY <2>1, <2>2
  <2> QED BY <2>1, <2>3, <2>4
<1>9. f \in [Nat -> A]
  <2> HIDE DEF pick
  <2>1. \A n \in Nat : pick(n)[n] \in A
    BY <1>6
  <2> QED BY <2>1
<1> HIDE DEF f
<1> QED BY <1>7, <1>8, <1>9 DEF Repeats

\* Recursion over the naturals by what is below: where T looks no further than
\* at the values below a number, a function that is its own image under T exists.
LooksBelow(T) ==
  \A f, g \in [Nat -> Nat] : \A c \in Nat :
    (\A d \in Nat : d < c => f[d] = g[d]) => T[f][c] = T[g][c]

LEMMA FixedPointExists ==
  ASSUME NEW T \in [[Nat -> Nat] -> [Nat -> Nat]], LooksBelow(T)
  PROVE  \E f \in [Nat -> Nat] : f = T[f]
<1> DEFINE A == [Nat -> Nat]
           base == [c \in Nat |-> 0]
<1>1. PICK h \in [Nat -> A] : Repeats(h, base, T)
  <2>1. base \in A /\ T \in [A -> A]
    OBVIOUS
  <2> HIDE DEF A, base
  <2> QED BY <2>1, RepeatExists
<1> HIDE DEF A
<1>2. ASSUME NEW k \in Nat PROVE k + 1 \in Nat /\ h[k] \in A /\ h[k + 1] = T[h[k]]
  <2> HIDE DEF base
  <2>1. h[k] \in A /\ k + 1 \in Nat
    BY <1>1
  <2>2. h[k + 1] = T[h[k]]
    BY <1>1 DEF Repeats
  <2> QED BY <2>1, <2>2
<1> DEFINE K == {k \in Nat : \A d \in Nat : d < k => h[k][d] = h[k + 1][d]}
<1>3. 0 \in K
  OBVIOUS
<1>4. ASSUME NEW k \in Nat, k \in K PROVE k + 1 \in K
  <2> SUFFICES ASSUME NEW d \in Nat, d < k + 1 PROVE h[k + 1][d] = h[k + 1 + 1][d]
    BY <1>2
  <2>1. \A e \in Nat : e < d => h[k][e] = h[k + 1][e]
    BY <1>4
  <2>2. T[h[k]][d] = T[h[k + 1]][d]
    BY <1>2, <2>1 DEF LooksBelow, A
  <2> QED BY <1>2, <2>2
<1>5. Nat \subseteq K
  <2> HIDE DEF K
  <2> QED BY <1>3, <1>4, NatSet
<1> DEFINE f == [c \in Nat |-> h[c + 1][c]]
<1>6. f \in [Nat -> Nat]
  BY <1>2 DEF A
<1>7. \A c \in Nat : f[c] = h[c + 1][c]
  OBVIOUS
<1> HIDE DEF f
<1> DEFINE E == {k \in Nat : \A d \in Nat : d < k => h[k][d] = f[d]}
<1>8. 0 \in E
  OBVIOUS
<1>9. ASSUME NEW k \in Nat, k \in E PROVE k + 1 \in E
  <2> SUFFICES ASSUME NEW d \in Nat, d < k + 1 PROVE h[k + 1][d] = f[d]
    BY <1>2
  <2>1. CASE d = k
    BY <1>7, <2>1
  <2>2. CASE d # k
    <3>1. d < k
      BY <2>2
    <3>2. h[k][d] = h[k + 1][d]
      BY <1>5, <3>1
    <3> QED BY <1>9, <3>1, <3>2
  <2> QED BY <2>1, <2>2
<1>10. Nat \subseteq E
  <2> HIDE DEF E
  <2> QED BY <1>8, <1>9, NatSet
<1>11. ASSUME NEW c \in Nat PROVE f[c] = T[f][c]
  <2>1. \A d \in Nat : d < c => h[c][d] = f[d]
    BY <1>10
  <2>2. h[c] \in [Nat -> Nat]
    BY <1>2 DEF A
  <2>3. T[h[c]][c] = T[f][c]
    BY <1>6, <2>1, <2>2 DEF LooksBelow
  <2> QED BY <1>2, <1>7, <2>3
<1>12. T[f] \in [Nat -> Nat]
  BY <1>6
<1> QED BY <1>6, <1>11, <1>12

\* The values below a number have a bound.
LEMMA BoundBelow ==
  ASSUME NEW f \in [Nat -> Nat], NEW k \in Nat
  PROVE  \E b \in Nat : \A d \in Nat : d < k => f[d] <= b
<1> DEFINE K == {j \in Nat : \E b \in Nat : \A d \in Nat : d < j => f[d] <= b}
<1>1. 0 \in K
  OBVIOUS
<1>2. ASSUME NEW j \in Nat, j \in K PROVE j + 1 \in K
  <2>1. PICK b \in Nat : \A d \in Nat : d < j => f[d] <= b
    BY <1>2
  <2>2. b + f[j] \in Nat /\ f[j] \in Nat
    OBVIOUS
  <2>3. ASSUME NEW d \in Nat, d < j + 1 PROVE f[d] <= b + f[j]
    <3>1. CASE d = j
      BY <2>2, <3>1
    <3>2. CASE d # j
      <4>1. d < j /\ f[d] \in Nat
        BY <2>3, <3>2
      <4> QED BY <2>1, <2>2, <4>1
    <3> QED BY <3>1, <3>2
  <2> QED BY <2>2, <2>3
<1>3. Nat \subseteq K
  <2> HIDE DEF K
  <2> QED BY <1>1, <1>2, NatSet
<1> QED BY <1>3
=============================================================================
