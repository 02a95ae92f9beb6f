-------------------------- MODULE Components_proofs --------------------------
(***************************************************************************)
(* Components, for graphs of any size: the algorithm finds the strongly    *)
(* connected components, each whole, each once and after all it depends    *)
(* on, and the layers read off them order the dependencies.                *)
(*                                                                         *)
(* The invariant has two halves.  Core speaks of nodes: which have a       *)
(* frame (Gray), which targets a node has looked at (Seen), what its       *)
(* number, its low and its marks mean, and what a component found is.      *)
(* StackIs, WorkIs and RootIs say how the sequences hold it.  A step of    *)
(* the algorithm is first shown to be one of four steps over nodes         *)
(* (Entered, LookedBack, LeftOpen, LeftFound), and these to keep Core.     *)
(*                                                                         *)
(* Reaches is reachability as the least closed set, which needs no         *)
(* counting; ReachedIs shows it to be what Condensation counts out.        *)
(***************************************************************************)
EXTENDS Components, Induction

-----------------------------------------------------------------------------
\* Reachability, as the sets nothing leads out of.
Closed(a, S) == \A n \in S : a[n] \subseteq S
Reaches(a, n) == {m \in DOMAIN a : \A S \in SUBSET DOMAIN a : n \in S /\ Closed(a, S) => m \in S}

IsGraph(a) == \A n \in DOMAIN a : a[n] \in SUBSET DOMAIN a

LEMMA ReachesSelf == ASSUME NEW a, NEW n \in DOMAIN a PROVE n \in Reaches(a, n)
BY DEF Reaches

LEMMA ReachesMore ==
  ASSUME NEW a, IsGraph(a), NEW n \in DOMAIN a, NEW m \in Reaches(a, n), NEW k \in a[m]
  PROVE  k \in Reaches(a, n)
BY DEF Reaches, Closed, IsGraph

LEMMA ReachesLeast ==
  ASSUME NEW a, NEW n \in DOMAIN a, NEW S \in SUBSET DOMAIN a, n \in S, Closed(a, S)
  PROVE  Reaches(a, n) \subseteq S
BY DEF Reaches

LEMMA ReachesOn ==
  ASSUME NEW a, NEW n \in DOMAIN a, NEW m \in Reaches(a, n), NEW k \in Reaches(a, m)
  PROVE  k \in Reaches(a, n)
BY DEF Reaches

LEMMA ReachesNext ==
  ASSUME NEW a, IsGraph(a), NEW n \in DOMAIN a, NEW k \in a[n]
  PROVE  k \in Reaches(a, n)
BY ReachesSelf, ReachesMore

\* What ReachedIn comes to: it is defined for every number of steps.
LEMMA ReachedInIs ==
  ASSUME IsGraph(adj)
  PROVE  /\ Promise!ReachedIn \in [Nat -> [Node -> SUBSET Node]]
         /\ \A n \in Node : Promise!ReachedIn[0][n] = {n}
         /\ \A k \in Nat, n \in Node :
              Promise!ReachedIn[k + 1][n] = Promise!Successors(Promise!ReachedIn[k][n])
<1> DEFINE A == [Node -> SUBSET Node]
           Succ(S) == S \cup UNION {adj[n] : n \in S}
           base == [n \in Node |-> {n}]
           T == [r \in A |-> [n \in Node |-> Succ(r[n])]]
           Is(f) == f = [k \in Nat |->
                     [n \in Node |-> IF k = 0 THEN {n} ELSE Succ(f[k - 1][n])]]
<1>1. base \in A
  OBVIOUS
<1>2. \A S \in SUBSET Node : Succ(S) \in SUBSET Node
  BY DEF IsGraph, Node
<1>3. T \in [A -> A]
  <2> HIDE DEF Succ
  <2> QED BY <1>2
<1>4. PICK f \in [Nat -> A] : Repeats(f, base, T)
  <2> HIDE DEF T, A, base
  <2> QED BY <1>1, <1>3, RepeatExists
<1>5. ASSUME NEW k \in Nat
      PROVE  f[k] = [n \in Node |-> IF k = 0 THEN {n} ELSE Succ(f[k - 1][n])]
  <2> HIDE DEF Succ
  <2>1. CASE k = 0
    BY <1>4, <2>1 DEF Repeats
  <2>2. CASE k # 0
    <3>1. k - 1 \in Nat /\ k - 1 + 1 = k
      BY <2>2
    <3>2. f[k] = T[f[k - 1]] /\ f[k - 1] \in A
      BY <1>4, <3>1 DEF Repeats
    <3>3. f[k] = [n \in Node |-> Succ(f[k - 1][n])]
      BY <3>2
    <3> QED BY <2>2, <3>3
  <2> QED BY <2>1, <2>2
<1>6. Is(f)
  <2>1. f = [k \in Nat |-> f[k]]
    OBVIOUS
  <2> HIDE DEF Succ
  <2> QED BY <1>5, <2>1
<1> DEFINE g == CHOOSE h : Is(h)
<1>7. Is(g)
  <2> HIDE DEF Is
  <2> QED BY <1>6
<1>8. Promise!ReachedIn = g
  BY DEF Promise!ReachedIn, Promise!Successors, Promise!Node, Node
<1> HIDE DEF g
<1>9. \A k \in Nat : g[k] = [n \in Node |-> IF k = 0 THEN {n} ELSE Succ(g[k - 1][n])]
  <2> HIDE DEF Succ
  <2> QED BY <1>7
<1>10. (\A n \in Node : g[0][n] = {n}) /\ \A k \in Nat, n \in Node : g[k + 1][n] = Succ(g[k][n])
  <2> HIDE DEF Succ
  <2>1. \A k \in Nat : k + 1 # 0 /\ k + 1 - 1 = k /\ k + 1 \in Nat
    OBVIOUS
  <2>2. 0 \in Nat /\ g[0] = [n \in Node |-> {n}]
    <3>1. g[0] = [n \in Node |-> IF 0 = 0 THEN {n} ELSE Succ(g[0 - 1][n])]
      BY <1>9
    <3> QED BY <3>1
  <2>3. ASSUME NEW k \in Nat PROVE g[k + 1] = [n \in Node |-> Succ(g[k][n])]
    <3>1. g[k + 1] = [n \in Node |-> IF k + 1 = 0 THEN {n} ELSE Succ(g[k + 1 - 1][n])]
      BY <1>9, <2>1
    <3> QED BY <2>1, <3>1
  <2> QED BY <2>2, <2>3
<1> DEFINE K == {k \in Nat : g[k] \in A}
<1>11. 0 \in K
  <2>1. g[0] = [n \in Node |-> IF 0 = 0 THEN {n} ELSE Succ(g[0 - 1][n])]
    <3> HIDE DEF Succ
    <3> QED BY <1>9
  <2>2. g[0] = [n \in Node |-> {n}]
    BY <2>1
  <2> QED BY <2>2
<1>12. ASSUME NEW k \in Nat, k \in K PROVE k + 1 \in K
  <2>1. k + 1 \in Nat /\ k + 1 # 0 /\ k + 1 - 1 = k
    OBVIOUS
  <2> HIDE DEF Succ
  <2>2. g[k + 1] = [n \in Node |-> Succ(g[k][n])]
    <3>1. g[k + 1] = [n \in Node |-> IF k + 1 = 0 THEN {n} ELSE Succ(g[k + 1 - 1][n])]
      BY <1>9, <2>1
    <3> QED BY <2>1, <3>1
  <2> QED BY <1>2, <1>12, <2>1, <2>2
<1>13. Nat \subseteq K
  <2> HIDE DEF K
  <2> QED BY <1>11, <1>12, NatSet
<1>14. g \in [Nat -> A]
  <2>1. g = [k \in Nat |-> g[k]]
    <3> HIDE DEF Succ
    <3> QED BY <1>7
  <2> QED BY <1>13, <2>1
<1> QED BY <1>8, <1>10, <1>14 DEF Promise!Successors

\* As many turns as there are nodes reach everything there is to reach: a turn
\* that is not the last adds a node.
LEMMA ReachedIs ==
  ASSUME IsGraph(adj), NEW N \in Nat, Node = 1..N
  PROVE  \A n \in Node : Promise!Reached[n] = Reaches(adj, n)
<1> SUFFICES ASSUME NEW n \in Node PROVE Promise!Reached[n] = Reaches(adj, n)
  OBVIOUS
<1> DEFINE R(k) == Promise!ReachedIn[k][n]
<1>1. /\ R(0) = {n}
      /\ \A k \in Nat : R(k) \in SUBSET Node /\ R(k + 1) = R(k) \cup UNION {adj[m] : m \in R(k)}
  <2>1. \A k \in Nat : Promise!ReachedIn[k] \in [Node -> SUBSET Node]
    BY ReachedInIs
  <2> QED BY ReachedInIs, <2>1 DEF Promise!Successors
<1>2. IsFiniteSet(Node) /\ Cardinality(Node) = N
  BY FS_Interval
<1>3. Promise!Reached[n] = R(N)
  <2>1. Promise!Node = Node
    BY DEF Promise!Node, Node
  <2>2. Promise!Reached = Promise!ReachedIn[Cardinality(Promise!Node)]
    BY DEF Promise!Reached, Promise!Cardinality, Cardinality
  <2> QED BY <1>2, <2>1, <2>2
<1> HIDE DEF R
<1> DEFINE K == {k \in Nat : R(k) \subseteq Reaches(adj, n)}
<1>4. 0 \in K
  BY <1>1, ReachesSelf DEF Node
<1>5. ASSUME NEW k \in Nat, k \in K PROVE k + 1 \in K
  <2>1. ASSUME NEW m \in R(k), NEW x \in adj[m] PROVE x \in Reaches(adj, n)
    BY <1>5, <2>1, ReachesMore DEF Node
  <2> QED BY <1>1, <1>5, <2>1
<1>6. R(N) \subseteq Reaches(adj, n)
  <2>1. Nat \subseteq K
    <3> HIDE DEF K
    <3> QED BY <1>4, <1>5, NatSet
  <2> QED BY <2>1
<1> DEFINE C == {k \in Nat : n \in R(k) /\ (Cardinality(R(k)) >= k + 1 \/ Closed(adj, R(k)))}
<1>7. 0 \in C
  <2>1. R(0) = {n} /\ Cardinality({n}) = 1
    BY <1>1, FS_Singleton
  <2>2. Cardinality({n}) >= 0 + 1
    BY <2>1
  <2> QED BY <2>1, <2>2
<1>8. ASSUME NEW k \in Nat, k \in C PROVE k + 1 \in C
  <2>1. R(k) \subseteq R(k + 1) /\ R(k + 1) \subseteq Node
    BY <1>1
  <2>2. CASE Closed(adj, R(k))
    <3>1. R(k + 1) = R(k)
      <4>1. R(k + 1) = R(k) \cup UNION {adj[m] : m \in R(k)}
        BY <1>1
      <4>2. \A m \in R(k) : adj[m] \subseteq R(k)
        BY <2>2 DEF Closed
      <4> QED BY <4>1, <4>2
    <3> QED BY <1>8, <2>2, <3>1
  <2>3. CASE ~ Closed(adj, R(k)) /\ Cardinality(R(k)) >= k + 1
    <3>1. R(k + 1) # R(k)
      BY <1>1, <2>3 DEF Closed
    <3>2. IsFiniteSet(R(k + 1)) /\ IsFiniteSet(R(k))
      BY <1>2, <2>1, FS_Subset
    <3>3. Cardinality(R(k)) <= Cardinality(R(k + 1)) /\ Cardinality(R(k)) # Cardinality(R(k + 1))
      <4>1. R(k) \in SUBSET R(k + 1)
        BY <2>1
      <4> QED BY <3>1, <3>2, <4>1, FS_Subset
    <3>4. Cardinality(R(k)) \in Nat /\ Cardinality(R(k + 1)) \in Nat
      BY <3>2, FS_CardinalityType
    <3>5. Cardinality(R(k + 1)) >= k + 1 + 1
      BY <2>3, <3>3, <3>4
    <3> QED BY <1>8, <2>1, <3>5
  <2> QED BY <1>8, <2>2, <2>3
<1>9. n \in R(N) /\ Closed(adj, R(N))
  <2>1. N \in C
    <3>1. Nat \subseteq C
      <4> HIDE DEF C
      <4> QED BY <1>7, <1>8, NatSet
    <3> QED BY <3>1
  <2>2. IsFiniteSet(R(N)) /\ Cardinality(R(N)) <= N
    BY <1>1, <1>2, FS_Subset
  <2>3. Cardinality(R(N)) \in Nat
    BY <2>2, FS_CardinalityType
  <2> QED BY <2>1, <2>2, <2>3
<1> QED
  <2>1. Reaches(adj, n) \subseteq R(N)
    BY <1>1, <1>9, ReachesLeast DEF Node
  <2> QED BY <1>3, <1>6, <2>1

-----------------------------------------------------------------------------
\* The invariant, in terms of the nodes that have a frame and of the targets a
\* node has looked at: what the numbers and the marks of the nodes mean.
Gray == {work[i].node : i \in DOMAIN work}
Seen(x, y) == y \in adj[x] /\ \A i \in DOMAIN work : work[i].node = x => y \notin work[i].left

\* The frame that answers for a node of the stack: its own, or the next one below.
Owner(v, x) == /\ v \in Gray /\ onStack[x] /\ index[v] <= index[x]
               /\ \A u \in Gray : index[u] <= index[x] => index[u] <= index[v]
Newest(v) == v \in Gray /\ \A u \in Gray : index[u] <= index[v]
Scc(n) == {m \in Reaches(adj, n) : n \in Reaches(adj, m)}

Shaped == /\ IsGraph(adj)
          /\ index \in [Node -> Nat] /\ low \in [Node -> Nat] /\ comp \in [Node -> Nat]
          /\ onStack \in [Node -> BOOLEAN]
          /\ next \in Nat \ {0}
          /\ Gray \subseteq Node /\ \A v \in Gray : onStack[v]
          /\ components \in Seq(SUBSET Node)
Marked == /\ \A n \in Node : index[n] < next
          /\ \A n \in Node : index[n] # 0 <=> (onStack[n] \/ comp[n] # 0)
          /\ \A n \in Node : ~(onStack[n] /\ comp[n] # 0)
          /\ \A m, n \in Node : index[m] = index[n] /\ index[m] # 0 => m = n
SeenMarked == \A x, y \in Node : index[x] # 0 /\ Seen(x, y) => index[y] # 0

\* A frame reaches all above it; all on the stack reach a frame below it.
GoesUp == \A v \in Gray : \A x \in Node :
            onStack[x] /\ index[v] <= index[x] => x \in Reaches(adj, v)
ComesDown == \A x \in Node : onStack[x] =>
               \E v \in Gray : index[v] <= index[x] /\ v \in Reaches(adj, x)

\* low of a frame is the number of a node it reaches, and none of what it answers
\* for has looked at a node of the stack with a lower number.
LowIsReached == \A v \in Gray :
                  /\ low[v] <= index[v]
                  /\ \E z \in Node : onStack[z] /\ index[z] = low[v] /\ z \in Reaches(adj, v)
LowCovers == \A v, x, y \in Node :
               Owner(v, x) /\ Seen(x, y) /\ onStack[y] => low[v] <= index[y]

\* What has been found: whole components, each with its targets before it.
FoundWhole ==
  /\ \A n \in Node : comp[n] # 0 => comp[n] \in DOMAIN components
  /\ \A i \in DOMAIN components : \A n \in Node : n \in components[i] <=> comp[n] = i
  /\ \A i \in DOMAIN components : \E n \in Node : comp[n] = i /\ components[i] = Scc(n)
  /\ \A n, m \in Node : comp[n] # 0 /\ m \in adj[n] => comp[m] # 0 /\ comp[m] <= comp[n]

Core == /\ Shaped /\ Marked /\ SeenMarked /\ GoesUp /\ ComesDown
        /\ LowIsReached /\ LowCovers /\ FoundWhole

\* The steps, as the invariant sees them.
Entered(w) ==
  /\ index[w] = 0
  /\ index' = [index EXCEPT ![w] = next] /\ next' = next + 1
  /\ onStack' = [onStack EXCEPT ![w] = TRUE]
  /\ low' = [low EXCEPT ![w] = next]
  /\ UNCHANGED <<adj, comp, components>>
  /\ Gray' = Gray \cup {w}
  /\ Gray = {} \/ \E v \in Gray : Newest(v) /\ w \in adj[v]
  /\ \A y \in Node : ~ Seen(w, y)'
  /\ \A x, y \in Node : Seen(x, y)' => Seen(x, y) \/ (y = w /\ Newest(x))

LEMMA EnteredKeeps ==
  ASSUME Core, NEW w \in Node, Entered(w)
  PROVE  Core'
<1> USE DEF Core
<1>1. Node' = Node /\ adj' = adj
  BY DEF Entered, Node
<1>2. /\ index'[w] = next /\ onStack'[w] /\ low'[w] = next
      /\ \A x \in Node : x # w => index'[x] = index[x] /\ low'[x] = low[x] /\ onStack'[x] = onStack[x]
      /\ comp' = comp /\ components' = components /\ next' = next + 1
  BY DEF Entered, Shaped
<1>3. /\ ~ onStack[w] /\ comp[w] = 0 /\ w \notin Gray
      /\ next \in Nat /\ next # 0
      /\ \A x \in Node : index[x] \in Nat /\ index[x] < next
  BY DEF Entered, Shaped, Marked
<1>4. Shaped'
  BY <1>1, <1>2, <1>3 DEF Entered, Shaped
<1>5. Marked'
  <2>1. ASSUME NEW n \in Node
        PROVE  /\ index'[n] < next'
               /\ index'[n] # 0 <=> (onStack'[n] \/ comp'[n] # 0)
               /\ ~ (onStack'[n] /\ comp'[n] # 0)
    <3>1. CASE n = w
      BY <1>2, <1>3, <3>1
    <3>2. CASE n # w
      BY <1>2, <1>3, <3>2 DEF Marked
    <3> QED BY <3>1, <3>2
  <2>2. ASSUME NEW m \in Node, NEW n \in Node, index'[m] = index'[n], index'[m] # 0
        PROVE  m = n
    BY <1>2, <1>3, <2>2 DEF Marked
  <2> QED BY <1>1, <2>1, <2>2 DEF Marked
<1>6. SeenMarked'
  <2> SUFFICES ASSUME NEW x \in Node, NEW y \in Node, index'[x] # 0, Seen(x, y)'
               PROVE  index'[y] # 0
    BY <1>1 DEF SeenMarked
  <2>1. Seen(x, y) \/ (y = w /\ Newest(x))
    BY DEF Entered
  <2>2. x # w
    BY DEF Entered
  <2> QED BY <1>2, <1>3, <2>1, <2>2 DEF SeenMarked
<1>7. GoesUp'
  <2> SUFFICES ASSUME NEW v \in Gray', NEW x \in Node, onStack'[x], index'[v] <= index'[x]
               PROVE  x \in Reaches(adj, v)
    BY <1>1 DEF GoesUp
  <2>1. v \in Node /\ (v \in Gray \/ v = w)
    BY <1>4, <1>1 DEF Entered, Shaped
  <2>2. CASE v = w
    <3>1. x = w
      BY <1>2, <1>3, <2>2
    <3> QED BY <2>2, <3>1, ReachesSelf DEF Node
  <2>3. CASE v # w /\ x = w
    <3>1. PICK u \in Gray : Newest(u) /\ w \in adj[u]
      BY <2>1, <2>3 DEF Entered
    <3>2. u \in Reaches(adj, v)
      BY <2>1, <2>3, <3>1 DEF Newest, GoesUp, Shaped
    <3> QED BY <2>1, <2>3, <3>1, <3>2, ReachesMore DEF Shaped, Node
  <2>4. CASE v # w /\ x # w
    BY <1>2, <2>1, <2>4 DEF GoesUp
  <2> QED BY <2>2, <2>3, <2>4
<1>8. ComesDown'
  <2> SUFFICES ASSUME NEW x \in Node, onStack'[x]
               PROVE  \E v \in Gray' : index'[v] <= index'[x] /\ v \in Reaches(adj, x)
    BY <1>1 DEF ComesDown
  <2>1. CASE x = w
    <3>1. w \in Gray' /\ w \in Reaches(adj, w) /\ index'[w] <= index'[w]
      BY <1>2, <1>3, ReachesSelf DEF Entered, Node
    <3> QED BY <2>1, <3>1
  <2>2. CASE x # w
    <3>1. PICK v \in Gray : index[v] <= index[x] /\ v \in Reaches(adj, x)
      BY <1>2, <2>2 DEF ComesDown
    <3>2. v \in Gray' /\ v # w /\ v \in Node
      BY <1>3 DEF Entered, Shaped
    <3> QED BY <1>2, <2>2, <3>1, <3>2
  <2> QED BY <2>1, <2>2
<1>9. LowIsReached'
  <2> SUFFICES ASSUME NEW v \in Gray'
               PROVE  /\ low'[v] <= index'[v]
                      /\ \E z \in Node : onStack'[z] /\ index'[z] = low'[v] /\ z \in Reaches(adj, v)
    BY <1>1 DEF LowIsReached
  <2>1. v \in Node /\ (v \in Gray \/ v = w)
    BY <1>4, <1>1 DEF Entered, Shaped
  <2>2. CASE v = w
    <3>1. w \in Reaches(adj, w)
      BY ReachesSelf DEF Node
    <3> QED BY <1>2, <1>3, <2>2, <3>1
  <2>3. CASE v # w
    <3>1. PICK z \in Node : onStack[z] /\ index[z] = low[v] /\ z \in Reaches(adj, v)
      BY <2>1, <2>3 DEF LowIsReached
    <3>2. z # w
      BY <1>3, <3>1
    <3>3. low[v] <= index[v]
      BY <2>1, <2>3 DEF LowIsReached
    <3> QED BY <1>2, <2>1, <2>3, <3>1, <3>2, <3>3
  <2> QED BY <2>2, <2>3
<1>10. LowCovers'
  <2> SUFFICES ASSUME NEW v \in Node, NEW x \in Node, NEW y \in Node,
                      Owner(v, x)', Seen(x, y)', onStack'[y]
               PROVE  low'[v] <= index'[y]
    BY <1>1 DEF LowCovers
  <2>1. x # w /\ (Seen(x, y) \/ (y = w /\ Newest(x)))
    BY DEF Entered
  <2>2. v # w /\ v \in Gray
    BY <1>2, <1>3, <2>1 DEF Owner, Entered
  <2>3. Owner(v, x)
    <3>1. \A u \in Gray : u \in Gray' /\ u # w /\ u \in Node
      BY <1>3 DEF Entered, Shaped
    <3> QED BY <1>2, <2>1, <2>2, <3>1 DEF Owner
  <2>4. CASE y = w
    <3>1. low[v] <= index[v] /\ low[v] \in Nat
      BY <2>2 DEF LowIsReached, Shaped
    <3> QED BY <1>2, <1>3, <2>2, <2>4, <3>1
  <2>5. CASE y # w
    BY <1>2, <2>1, <2>2, <2>3, <2>5 DEF LowCovers
  <2> QED BY <2>4, <2>5
<1>11. FoundWhole'
  BY <1>1, <1>2 DEF FoundWhole, Scc
<1> QED BY <1>4, <1>5, <1>6, <1>7, <1>8, <1>9, <1>10, <1>11

\* A target numbered before.
LookedBack(v, w) ==
  /\ Newest(v) /\ w \in adj[v] /\ index[w] # 0
  /\ low' = [low EXCEPT ![v] = IF onStack[w] THEN Min2(@, index[w]) ELSE @]
  /\ UNCHANGED <<adj, index, next, onStack, comp, components>>
  /\ Gray' = Gray
  /\ \A x, y \in Node : Seen(x, y)' => Seen(x, y) \/ (x = v /\ y = w)

LEMMA LookedBackKeeps ==
  ASSUME Core, NEW v \in Node, NEW w \in Node, LookedBack(v, w)
  PROVE  Core'
<1> USE DEF Core
<1>1. /\ Node' = Node /\ adj' = adj /\ index' = index /\ next' = next /\ onStack' = onStack
      /\ comp' = comp /\ components' = components /\ Gray' = Gray
  BY DEF LookedBack, Node
<1>2. /\ v \in Gray /\ index[v] \in Nat /\ index[w] \in Nat /\ low[v] \in Nat
      /\ \A x \in Node : low'[x] \in Nat /\ low'[x] <= low[x] /\ (x # v => low'[x] = low[x])
      /\ low'[v] = low[v] \/ (onStack[w] /\ low'[v] = index[w])
      /\ onStack[w] => low'[v] <= index[w]
  BY DEF LookedBack, Newest, Shaped, Min2
<1>3. low' \in [Node -> Nat]
  BY DEF LookedBack, Shaped, Min2
<1>4. Shaped' /\ Marked'
  BY <1>1, <1>3 DEF Shaped, Marked
<1>5. SeenMarked'
  BY <1>1 DEF SeenMarked, LookedBack
<1>6. GoesUp' /\ ComesDown'
  BY <1>1 DEF GoesUp, ComesDown
<1>7. LowIsReached'
  <2> SUFFICES ASSUME NEW u \in Gray
               PROVE  /\ low'[u] <= index[u]
                      /\ \E z \in Node : onStack[z] /\ index[z] = low'[u] /\ z \in Reaches(adj, u)
    BY <1>1 DEF LowIsReached
  <2>1. u \in Node /\ low[u] <= index[u] /\ low[u] \in Nat /\ index[u] \in Nat
    BY DEF LowIsReached, Shaped
  <2>2. CASE low'[u] = low[u]
    BY <2>1, <2>2 DEF LowIsReached
  <2>3. CASE low'[u] # low[u]
    <3>1. u = v /\ onStack[w] /\ low'[v] = index[w]
      BY <1>2, <2>1, <2>3
    <3>2. w \in Reaches(adj, v)
      BY ReachesNext DEF LookedBack, Shaped, Node
    <3> QED BY <1>2, <2>1, <3>1, <3>2
  <2> QED BY <2>2, <2>3
<1>8. LowCovers'
  <2> SUFFICES ASSUME NEW u \in Node, NEW x \in Node, NEW y \in Node,
                      Owner(u, x), Seen(x, y)', onStack[y]
               PROVE  low'[u] <= index[y]
    <3>1. \A u, x \in Node : Owner(u, x)' <=> Owner(u, x)
      BY <1>1 DEF Owner
    <3> QED BY <1>1, <3>1 DEF LowCovers
  <2>1. CASE Seen(x, y)
    <3>1. low[u] <= index[y] /\ low[u] \in Nat /\ index[y] \in Nat
      BY <2>1 DEF LowCovers, Shaped
    <3> QED BY <1>2, <3>1
  <2>2. CASE x = v /\ y = w
    <3>1. u = v
      <4>1. index[v] <= index[u] /\ index[u] <= index[v] /\ onStack[v]
        BY <1>2, <2>2 DEF Owner, LookedBack, Newest, Shaped
      <4> QED BY <4>1, <1>2 DEF Marked, Shaped
    <3> QED BY <1>2, <2>2, <3>1
  <2> QED BY <2>1, <2>2 DEF LookedBack
<1>9. FoundWhole'
  BY <1>1 DEF FoundWhole, Scc
<1> QED BY <1>4, <1>5, <1>6, <1>7, <1>8, <1>9

\* The last frame goes, and the one below hears how far up it reached.
Left(v) ==
  /\ Newest(v) /\ \A y \in adj[v] : Seen(v, y)
  /\ Gray' = Gray \ {v}
  /\ \/ Gray' = {} /\ low' = low
     \/ \E b \in Gray' : /\ \A u \in Gray' : index[u] <= index[b]
                         /\ low' = [low EXCEPT ![b] = Min2(@, low[v])]
  /\ \A x, y \in Node : Seen(x, y)' => Seen(x, y)
  /\ UNCHANGED <<adj, index, next>>

\* No component is rooted at it.
LeftOpen(v) == Left(v) /\ low[v] # index[v] /\ UNCHANGED <<onStack, comp, components>>

LEMMA LeftOpenKeeps ==
  ASSUME Core, NEW v \in Node, LeftOpen(v)
  PROVE  Core'
<1> USE DEF Core
<1>1. /\ Node' = Node /\ adj' = adj /\ index' = index /\ next' = next /\ onStack' = onStack
      /\ comp' = comp /\ components' = components /\ Gray' = Gray \ {v} /\ Left(v)
  BY DEF LeftOpen, Left, Node
<1>2. /\ v \in Gray /\ onStack[v]
      /\ \A n \in Node : index[n] \in Nat /\ low[n] \in Nat
      /\ \A u \in Gray : u \in Node /\ index[u] <= index[v] /\ low[u] <= index[u]
  BY DEF Left, Newest, Shaped, LowIsReached, LeftOpen
<1>3. \A u \in Gray : index[v] <= index[u] => u = v
  BY <1>2 DEF Marked
\* It reaches a frame further down.
<1>4. PICK z \in Node : onStack[z] /\ index[z] = low[v] /\ z \in Reaches(adj, v)
  BY <1>2 DEF LowIsReached
<1>5. index[z] < index[v]
  BY <1>2, <1>4 DEF LeftOpen
<1>6. PICK g \in Gray : index[g] <= index[z] /\ g \in Reaches(adj, z)
  BY <1>4 DEF ComesDown
<1>7. g \in Gray' /\ index[g] < index[v] /\ g \in Reaches(adj, v)
  <2>1. g # v /\ index[g] < index[v]
    BY <1>2, <1>5, <1>6
  <2>2. g \in Reaches(adj, v)
    BY <1>4, <1>6, ReachesOn DEF Node
  <2> QED BY <1>1, <2>1, <2>2
<1>8. PICK b \in Gray' : /\ \A u \in Gray' : index[u] <= index[b]
                         /\ low' = [low EXCEPT ![b] = Min2(@, low[v])]
  BY <1>7, <1>1 DEF Left
<1>9. /\ b \in Gray /\ b \in Node /\ b # v /\ index[b] < index[v]
      /\ low'[b] <= low[b] /\ low'[b] <= low[v] /\ (low'[b] = low[b] \/ low'[b] = low[v])
      /\ \A x \in Node : x # b => low'[x] = low[x]
      /\ low' \in [Node -> Nat]
  <2>1. b \in Gray /\ b \in Node /\ b # v
    BY <1>1, <1>2, <1>8
  <2>2. index[b] < index[v]
    BY <1>2, <1>3, <2>1
  <2> QED BY <1>2, <1>8, <2>1, <2>2 DEF Min2, Shaped
<1>10. Shaped' /\ Marked'
  BY <1>1, <1>9 DEF Shaped, Marked
<1>11. SeenMarked'
  BY <1>1 DEF SeenMarked, Left
<1>12. GoesUp'
  BY <1>1 DEF GoesUp
<1>13. ComesDown'
  <2> SUFFICES ASSUME NEW x \in Node, onStack[x]
               PROVE  \E u \in Gray' : index[u] <= index[x] /\ u \in Reaches(adj, x)
    BY <1>1 DEF ComesDown
  <2>1. PICK u \in Gray : index[u] <= index[x] /\ u \in Reaches(adj, x)
    BY DEF ComesDown
  <2>2. CASE u # v
    BY <1>1, <2>1, <2>2
  <2>3. CASE u = v
    <3>1. g \in Reaches(adj, x)
      BY <1>7, <2>1, <2>3, ReachesOn DEF Node
    <3>2. index[g] <= index[x]
      BY <1>2, <1>6, <1>7, <2>1, <2>3
    <3> QED BY <1>7, <3>1, <3>2
  <2> QED BY <2>2, <2>3
<1>14. LowIsReached'
  <2> SUFFICES ASSUME NEW u \in Gray'
               PROVE  /\ low'[u] <= index[u]
                      /\ \E y \in Node : onStack[y] /\ index[y] = low'[u] /\ y \in Reaches(adj, u)
    BY <1>1 DEF LowIsReached
  <2>1. u \in Gray /\ u \in Node
    BY <1>1, <1>2
  <2>2. CASE low'[u] = low[u]
    BY <2>1, <2>2 DEF LowIsReached
  <2>3. CASE low'[u] # low[u]
    <3>1. u = b /\ low'[b] = low[v]
      BY <1>9, <2>1, <2>3
    <3>2. v \in Reaches(adj, b)
      BY <1>2, <1>9 DEF GoesUp
    <3>3. z \in Reaches(adj, b)
      BY <1>4, <1>9, <3>2, ReachesOn DEF Node
    <3>4. low'[b] <= index[b]
      BY <1>2, <1>9
    <3> QED BY <1>4, <3>1, <3>3, <3>4
  <2> QED BY <2>2, <2>3
<1>15. LowCovers'
  <2> SUFFICES ASSUME NEW u \in Node, NEW x \in Node, NEW y \in Node,
                      Owner(u, x)', Seen(x, y), onStack[y]
               PROVE  low'[u] <= index[y]
    BY <1>1 DEF LowCovers, Left
  <2>1. /\ u \in Gray' /\ u \in Gray /\ onStack[x] /\ index[u] <= index[x]
        /\ \A t \in Gray' : index[t] <= index[x] => index[t] <= index[u]
    BY <1>1 DEF Owner
  <2>2. CASE Owner(u, x)
    <3>1. low[u] <= index[y]
      BY <2>2 DEF LowCovers
    <3>2. low'[u] <= low[u]
      BY <1>2, <1>9
    <3>3. low'[u] \in Nat
      BY <1>9
    <3> QED BY <1>2, <3>1, <3>2, <3>3
  <2>3. CASE ~ Owner(u, x)
    <3>1. index[v] <= index[x] /\ ~ (index[v] <= index[u])
      BY <1>1, <2>1, <2>3 DEF Owner
    <3>2. Owner(v, x)
      BY <1>2, <2>1, <3>1 DEF Owner
    <3>3. low[v] <= index[y]
      BY <3>2 DEF LowCovers
    <3>4. u = b
      <4>1. index[b] <= index[x]
        BY <1>2, <1>9, <3>1
      <4>2. index[b] <= index[u] /\ index[u] <= index[b]
        BY <1>8, <2>1, <4>1
      <4>3. index[u] = index[b]
        BY <1>2, <1>9, <4>2
      <4>4. index[u] # 0
        BY <2>1 DEF Shaped, Marked
      <4> QED BY <1>9, <4>3, <4>4 DEF Marked
    <3>5. low'[u] \in Nat
      BY <1>9
    <3> QED BY <1>2, <1>9, <3>3, <3>4, <3>5
  <2> QED BY <2>2, <2>3
<1>16. FoundWhole'
  BY <1>1 DEF FoundWhole, Scc
<1> QED BY <1>10, <1>11, <1>12, <1>13, <1>14, <1>15, <1>16

\* It is the root of a component: what the stack has from it on.
From(v) == {n \in Node : onStack[n] /\ index[v] <= index[n]}
LeftFound(v) ==
  /\ Left(v) /\ low[v] = index[v]
  /\ components' = Append(components, From(v))
  /\ comp' = [n \in Node |-> IF n \in From(v) THEN Len(components) + 1 ELSE comp[n]]
  /\ onStack' = [n \in Node |-> onStack[n] /\ n \notin From(v)]

LEMMA FinishedSeen ==
  ASSUME NEW x, x \notin Gray, NEW y \in adj[x]
  PROVE  Seen(x, y)
BY DEF Seen, Gray

\* What is above a root has only itself and what was found before as targets.
LEMMA FromTargets ==
  ASSUME Core, NEW v \in Node, LeftFound(v), NEW x \in From(v), NEW y \in adj[x]
  PROVE  y \in Node /\ (y \in From(v) \/ comp[y] # 0)
<1> USE DEF Core
<1>1. /\ v \in Gray /\ onStack[v] /\ low[v] = index[v] /\ index[v] \in Nat
      /\ \A u \in Gray : u \in Node /\ index[u] <= index[v]
      /\ x \in Node /\ onStack[x] /\ index[v] <= index[x] /\ index[x] \in Nat
  BY DEF LeftFound, Left, Newest, Shaped, From
<1>2. y \in Node
  BY <1>1 DEF Shaped, IsGraph, Node
<1>3. Seen(x, y)
  <2>1. CASE x \notin Gray
    BY <2>1, FinishedSeen
  <2>2. CASE x \in Gray
    <3>1. index[x] = index[v] /\ index[x] # 0
      BY <1>1, <2>2 DEF Marked
    <3>2. x = v
      BY <1>1, <3>1 DEF Marked
    <3> QED BY <3>2 DEF LeftFound, Left
  <2> QED BY <2>1, <2>2
<1>4. index[x] # 0
  BY <1>1 DEF Marked
<1>5. index[y] # 0
  BY <1>1, <1>2, <1>3, <1>4 DEF SeenMarked
<1>6. Owner(v, x)
  BY <1>1 DEF Owner
<1>7. onStack[y] => index[v] <= index[y]
  BY <1>1, <1>2, <1>3, <1>6 DEF LowCovers
<1> QED BY <1>2, <1>5, <1>7 DEF Marked, From

LEMMA FromIsScc ==
  ASSUME Core, NEW v \in Node, LeftFound(v)
  PROVE  From(v) = Scc(v) /\ v \in From(v)
<1> USE DEF Core
<1>1. /\ v \in Gray /\ onStack[v] /\ index[v] \in Nat /\ comp[v] = 0
      /\ \A u \in Gray : u \in Node /\ index[u] <= index[v] /\ index[u] \in Nat
  BY DEF LeftFound, Left, Newest, Shaped, Marked
<1>2. v \in From(v)
  BY <1>1 DEF From
<1> DEFINE Past == {n \in Node : comp[n] # 0}
<1>3. Closed(adj, Past) /\ Past \in SUBSET Node
  BY DEF Closed, FoundWhole, Shaped, IsGraph, Node
<1>4. Closed(adj, From(v) \cup Past)
  <2> SUFFICES ASSUME NEW x \in From(v) \cup Past, NEW y \in adj[x] PROVE y \in From(v) \cup Past
    BY DEF Closed
  <2>1. CASE x \in From(v)
    BY <2>1, FromTargets
  <2>2. CASE x \in Past
    BY <1>3, <2>2 DEF Closed
  <2> QED BY <2>1, <2>2
<1>5. Reaches(adj, v) \subseteq From(v) \cup Past
  <2>1. From(v) \cup Past \in SUBSET DOMAIN adj /\ v \in DOMAIN adj
    BY DEF From, Node
  <2> HIDE DEF Past
  <2> QED BY <1>2, <1>4, <2>1, ReachesLeast
<1>6. ASSUME NEW m \in Past PROVE v \notin Reaches(adj, m)
  <2>1. Reaches(adj, m) \subseteq Past
    <3>1. Past \in SUBSET DOMAIN adj /\ m \in DOMAIN adj
      BY DEF Node
    <3> HIDE DEF Past
    <3> QED BY <1>3, <3>1, ReachesLeast
  <2> QED BY <1>1, <2>1
<1>7. Scc(v) \subseteq From(v)
  BY <1>5, <1>6 DEF Scc
<1>8. ASSUME NEW x \in From(v) PROVE x \in Scc(v)
  <2>1. x \in Node /\ onStack[x] /\ index[v] <= index[x]
    BY DEF From
  <2>2. x \in Reaches(adj, v)
    BY <1>1, <2>1 DEF GoesUp
  <2>3. PICK g \in Gray : index[g] <= index[x] /\ g \in Reaches(adj, x)
    BY <2>1 DEF ComesDown
  <2>4. v \in Reaches(adj, g)
    BY <1>1 DEF GoesUp
  <2>5. v \in Reaches(adj, x)
    BY <2>1, <2>3, <2>4, ReachesOn DEF Node
  <2> QED BY <2>2, <2>5 DEF Scc
<1> QED BY <1>2, <1>7, <1>8

LEMMA SccOfMember ==
  ASSUME NEW n \in Node, NEW m \in Scc(n)
  PROVE  m \in Node /\ n \in Node /\ Scc(m) = Scc(n)
<1>1. m \in Node /\ m \in Reaches(adj, n) /\ n \in Reaches(adj, m)
  BY DEF Scc, Reaches, Node
<1>2. \A k : k \in Reaches(adj, n) <=> k \in Reaches(adj, m)
  BY <1>1, ReachesOn DEF Node
<1>3. \A k \in Reaches(adj, n) : k \in Node
  BY DEF Reaches, Node
<1>4. \A k \in Node : n \in Reaches(adj, k) <=> m \in Reaches(adj, k)
  BY <1>1, ReachesOn DEF Node
<1> QED BY <1>1, <1>2, <1>3, <1>4 DEF Scc

LEMMA LeftFoundKeeps ==
  ASSUME Core, NEW v \in Node, LeftFound(v)
  PROVE  Core'
<1> USE DEF Core
<1>1. /\ Node' = Node /\ adj' = adj /\ index' = index /\ next' = next /\ Gray' = Gray \ {v}
      /\ Left(v)
  BY DEF LeftFound, Left, Node
<1>2. /\ v \in Gray /\ onStack[v]
      /\ \A n \in Node : index[n] \in Nat /\ low[n] \in Nat /\ comp[n] \in Nat
      /\ \A u \in Gray : u \in Node /\ index[u] <= index[v] /\ low[u] <= index[u]
  BY DEF Left, Newest, Shaped, LowIsReached, LeftFound
<1>3. \A u \in Gray' : index[u] < index[v] /\ u \in Gray /\ u \in Node
  BY <1>1, <1>2 DEF Marked
<1>4. \A n \in Node : /\ onStack'[n] => onStack[n] /\ index[n] < index[v]
                      /\ onStack[n] /\ index[n] < index[v] => onStack'[n]
  <2> SUFFICES ASSUME NEW n \in Node
               PROVE  /\ onStack'[n] => onStack[n] /\ index[n] < index[v]
                      /\ onStack[n] /\ index[n] < index[v] => onStack'[n]
    OBVIOUS
  <2>1. onStack'[n] <=> onStack[n] /\ n \notin From(v)
    BY DEF LeftFound
  <2>2. n \in From(v) <=> onStack[n] /\ index[v] <= index[n]
    BY DEF From
  <2>3. index[v] <= index[n] <=> ~ (index[n] < index[v])
    BY <1>2
  <2> QED BY <2>1, <2>2, <2>3
<1>5. \A u \in Gray' : low'[u] = low[u]
  <2>1. CASE low' = low
    BY <2>1
  <2>2. CASE low' # low
    <3>1. PICK b \in Gray' : low' = [low EXCEPT ![b] = Min2(@, low[v])]
      BY <1>1, <2>2 DEF Left
    <3>2. low[b] < low[v] /\ low[b] \in Nat /\ low[v] \in Nat
      BY <1>2, <1>3 DEF LeftFound
    <3>3. Min2(low[b], low[v]) = low[b]
      BY <3>2 DEF Min2
    <3> QED BY <1>3, <3>1, <3>3 DEF Shaped
  <2> QED BY <2>1, <2>2
<1>6. /\ From(v) \subseteq Node /\ From(v) = Scc(v) /\ v \in From(v)
      /\ \A n \in From(v) : comp[n] = 0
  BY FromIsScc DEF From, Marked
<1> DEFINE c == Len(components) + 1
<1>7. /\ c \in Nat \ {0} /\ DOMAIN components = 1..(c - 1) /\ DOMAIN components' = 1..c
      /\ components'[c] = From(v)
      /\ \A i \in 1..(c - 1) : components'[i] = components[i]
      /\ components' \in Seq(SUBSET Node)
  <2>1. components \in Seq(SUBSET Node) /\ From(v) \in SUBSET Node
    BY <1>6 DEF Shaped
  <2> QED BY <2>1 DEF LeftFound
<1>8. \A n \in Node : /\ n \in From(v) => comp'[n] = c
                      /\ n \notin From(v) => comp'[n] = comp[n]
  BY DEF LeftFound
<1>9. low' \in [Node -> Nat]
  <2>1. CASE low' = low
    BY <2>1 DEF Shaped
  <2>2. CASE low' # low
    BY <1>1, <1>2, <2>2 DEF Left, Shaped, Min2
  <2> QED BY <2>1, <2>2
<1>10. comp' \in [Node -> Nat] /\ onStack' \in [Node -> BOOLEAN]
  BY <1>2, <1>7 DEF LeftFound, Shaped
<1> HIDE DEF c
<1>11. Shaped'
  BY <1>1, <1>2, <1>3, <1>4, <1>7, <1>9, <1>10 DEF Shaped
<1>12. Marked'
  <2>1. ASSUME NEW n \in Node
        PROVE  /\ index'[n] # 0 <=> (onStack'[n] \/ comp'[n] # 0)
               /\ ~ (onStack'[n] /\ comp'[n] # 0)
    <3>1. CASE n \in From(v)
      BY <1>1, <1>2, <1>4, <1>7, <1>8, <3>1 DEF From, Marked
    <3>2. CASE n \notin From(v)
      BY <1>1, <1>2, <1>4, <1>8, <3>2 DEF From, Marked
    <3> QED BY <3>1, <3>2
  <2> QED BY <1>1, <2>1 DEF Marked
<1>13. SeenMarked'
  BY <1>1 DEF SeenMarked, Left
<1>14. GoesUp'
  BY <1>1, <1>3, <1>4 DEF GoesUp
<1>15. ComesDown'
  <2> SUFFICES ASSUME NEW x \in Node, onStack'[x]
               PROVE  \E u \in Gray' : index[u] <= index[x] /\ u \in Reaches(adj, x)
    BY <1>1 DEF ComesDown
  <2>1. onStack[x] /\ index[x] < index[v]
    BY <1>4
  <2>2. PICK u \in Gray : index[u] <= index[x] /\ u \in Reaches(adj, x)
    BY <2>1 DEF ComesDown
  <2>3. u # v
    BY <1>2, <2>1, <2>2
  <2> QED BY <1>1, <2>2, <2>3
<1>16. LowIsReached'
  <2> SUFFICES ASSUME NEW u \in Gray'
               PROVE  /\ low'[u] <= index[u]
                      /\ \E y \in Node : onStack'[y] /\ index[y] = low'[u] /\ y \in Reaches(adj, u)
    BY <1>1 DEF LowIsReached
  <2>1. PICK y \in Node : onStack[y] /\ index[y] = low[u] /\ y \in Reaches(adj, u)
    BY <1>3 DEF LowIsReached
  <2>2. low[u] <= index[u] /\ index[u] < index[v] /\ low[u] \in Nat
    BY <1>2, <1>3
  <2>3. onStack'[y]
    BY <1>2, <1>3, <1>4, <2>1, <2>2
  <2> QED BY <1>5, <2>1, <2>2, <2>3
<1>17. LowCovers'
  <2> SUFFICES ASSUME NEW u \in Node, NEW x \in Node, NEW y \in Node,
                      Owner(u, x)', Seen(x, y), onStack'[y]
               PROVE  low'[u] <= index[y]
    BY <1>1 DEF LowCovers, Left
  <2>1. u \in Gray' /\ onStack'[x]
    BY DEF Owner
  <2>2. onStack[y] /\ onStack[x] /\ index[x] < index[v]
    BY <1>4, <2>1
  <2>3. Owner(u, x)
    BY <1>1, <1>2, <1>3, <2>1, <2>2 DEF Owner
  <2> QED BY <1>5, <2>1, <2>2, <2>3 DEF LowCovers
<1>18. FoundWhole'
  <2>1. ASSUME NEW n \in Node, comp'[n] # 0 PROVE comp'[n] \in DOMAIN components'
    BY <1>7, <1>8, <2>1 DEF FoundWhole
  <2>2. ASSUME NEW i \in DOMAIN components', NEW n \in Node
        PROVE  n \in components'[i] <=> comp'[n] = i
    <3>1. CASE i = c
      <4>1. comp[n] # c
        BY <1>7 DEF FoundWhole
      <4> QED BY <1>7, <1>8, <3>1, <4>1
    <3>2. CASE i # c
      <4>1. i \in DOMAIN components /\ i # 0 /\ components'[i] = components[i]
        BY <1>7, <3>2
      <4> QED BY <1>6, <1>8, <3>2, <4>1 DEF FoundWhole
    <3> QED BY <3>1, <3>2
  <2>3. ASSUME NEW i \in DOMAIN components'
        PROVE  \E n \in Node : comp'[n] = i /\ components'[i] = Scc(n)
    <3>1. CASE i = c
      BY <1>6, <1>7, <1>8, <3>1
    <3>2. CASE i # c
      <4>1. i \in DOMAIN components /\ i # 0 /\ components'[i] = components[i]
        BY <1>7, <3>2
      <4>2. PICK n \in Node : comp[n] = i /\ components[i] = Scc(n)
        BY <4>1 DEF FoundWhole
      <4> QED BY <1>6, <1>8, <4>1, <4>2
    <3> QED BY <3>1, <3>2
  <2>4. ASSUME NEW n \in Node, NEW m \in Node, comp'[n] # 0, m \in adj[n]
        PROVE  comp'[m] # 0 /\ comp'[m] <= comp'[n]
    <3>1. \A k \in Node : comp'[k] = c \/ (comp'[k] = comp[k] /\ (comp[k] # 0 => comp[k] < c))
      BY <1>2, <1>7, <1>8 DEF FoundWhole
    <3>2. comp'[m] # 0
      <4>1. m \in From(v) \/ comp[m] # 0
        BY <1>8, <2>4, FromTargets DEF FoundWhole
      <4> QED BY <1>7, <1>8, <4>1
    <3>3. CASE n \in From(v)
      BY <1>2, <1>7, <1>8, <3>1, <3>2, <3>3
    <3>4. CASE n \notin From(v)
      <4>1. comp[n] # 0 /\ comp[m] # 0 /\ comp[m] <= comp[n]
        BY <1>8, <2>4, <3>4 DEF FoundWhole
      <4> QED BY <1>6, <1>8, <3>2, <3>4, <4>1
    <3> QED BY <3>3, <3>4
  <2>5. \A n : Scc(n)' = Scc(n)
    BY <1>1 DEF Scc
  <2> QED BY <1>1, <2>1, <2>2, <2>3, <2>4, <2>5 DEF FoundWhole
<1> QED BY <1>11, <1>12, <1>13, <1>14, <1>15, <1>16, <1>17, <1>18

-----------------------------------------------------------------------------
\* The invariant of the sequences: both stacks hold the later numbers above the
\* earlier ones, onStack marks what is on the one, and all before root are
\* numbered.
StackIs == /\ stack \in Seq(Node)
           /\ \A n \in Node : onStack[n] <=> \E i \in DOMAIN stack : stack[i] = n
           /\ \A i, j \in DOMAIN stack : i < j => index[stack[j]] < index[stack[i]]
WorkIs == /\ work \in Seq([node : Node, left : SUBSET Node])
          /\ \A i \in DOMAIN work : work[i].left \subseteq adj[work[i].node]
          /\ \A i, j \in DOMAIN work : i < j => index[work[j].node] < index[work[i].node]
RootIs == /\ \E N \in 0..Size : adj \in [1..N -> SUBSET (1..N)] /\ root \in 1..(N + 1)
          /\ \A n \in Node : n < root => index[n] # 0

Inv == Core /\ StackIs /\ WorkIs /\ RootIs

LEMMA Bounds ==
  ASSUME Size \in Nat, RootIs
  PROVE  /\ \E N \in Nat : Node = 1..N /\ N <= Size /\ root \in 1..(N + 1)
                           /\ adj \in [1..N -> SUBSET (1..N)]
         /\ Node \subseteq Nat /\ IsGraph(adj)
<1>1. PICK N \in 0..Size : adj \in [1..N -> SUBSET (1..N)] /\ root \in 1..(N + 1)
  BY DEF RootIs
<1>2. N \in Nat /\ N <= Size /\ Node = 1..N /\ IsGraph(adj)
  BY <1>1 DEF Node, IsGraph
<1> QED BY <1>1, <1>2

LEMMA TypedIs == ASSUME Size \in Nat, Inv PROVE TypeOK
<1>1. PICK N \in 0..Size : adj \in [1..N -> SUBSET (1..N)] /\ root \in 1..(N + 1)
  BY DEF RootIs, Inv
<1>2. root \in Nat /\ next \in Nat
  BY <1>1 DEF Inv, Core, Shaped
<1>3. stack \in Seq(Node) /\ work \in Seq([node : Node, left : SUBSET Node])
  BY DEF Inv, StackIs, WorkIs
<1> QED BY <1>1, <1>2, <1>3 DEF TypeOK, Inv, Core, Shaped

\* A sequence with one more in front.
LEMMA Pushed ==
  ASSUME NEW A, NEW s \in Seq(A), NEW x \in A
  PROVE  /\ <<x>> \o s \in Seq(A)
         /\ (<<x>> \o s)[1] = x
         /\ DOMAIN (<<x>> \o s) = 1..(Len(s) + 1)
         /\ \A i \in DOMAIN (<<x>> \o s) : i # 1 => i - 1 \in DOMAIN s /\ (<<x>> \o s)[i] = s[i - 1]
         /\ \A i \in DOMAIN s : i + 1 \in DOMAIN (<<x>> \o s) /\ (<<x>> \o s)[i + 1] = s[i]
OBVIOUS

LEMMA Popped ==
  ASSUME NEW A, NEW s \in Seq(A), s # <<>>
  PROVE  /\ Tail(s) \in Seq(A)
         /\ \A i \in DOMAIN Tail(s) : i + 1 \in DOMAIN s /\ Tail(s)[i] = s[i + 1]
         /\ \A i \in DOMAIN s : i # 1 => i - 1 \in DOMAIN Tail(s) /\ Tail(s)[i - 1] = s[i]
         /\ 1 \in DOMAIN s
<1>1. Len(s) \in Nat /\ Len(s) > 0 /\ DOMAIN s = 1..Len(s)
  OBVIOUS
<1>2. Tail(s) \in Seq(A) /\ Len(Tail(s)) = Len(s) - 1 /\ \A i \in 1..(Len(s) - 1) : Tail(s)[i] = s[i + 1]
  BY <1>1
<1>3. DOMAIN Tail(s) = 1..(Len(s) - 1)
  BY <1>1, <1>2
<1> QED BY <1>1, <1>2, <1>3

LEMMA ItemOf ==
  ASSUME NEW A, NEW s \in Seq(A), NEW i \in DOMAIN s
  PROVE  s[i] \in A /\ i \in Nat /\ i >= 1
OBVIOUS

LEMMA TopIsLast ==
  ASSUME Core, WorkIs, work # <<>>
  PROVE  Top \in [node : Node, left : SUBSET Node] /\ Top = work[1] /\ 1 \in DOMAIN work
         /\ Newest(Top.node) /\ Top.left \subseteq adj[Top.node] /\ Top.node \in Node
<1> DEFINE F == [node : Node, left : SUBSET Node]
<1>0. work \in Seq(F)
  BY DEF WorkIs
<1> HIDE DEF F
<1>1. 1 \in DOMAIN work /\ work[1] \in F
  BY <1>0, Popped, ItemOf
<1>2. \A i \in DOMAIN work : work[i] \in F /\ i \in Nat /\ i >= 1
  BY <1>0, ItemOf
<1> USE DEF F
<1>3. Top.node \in Node /\ Top.node \in Gray
  BY <1>1 DEF Top, Gray
<1>4. \A u \in Gray : index[u] <= index[Top.node]
  <2> SUFFICES ASSUME NEW i \in DOMAIN work PROVE index[work[i].node] <= index[work[1].node]
    BY DEF Gray, Top
  <2>1. work[i].node \in Node /\ i \in Nat /\ i >= 1
    BY <1>2
  <2>2. index[work[i].node] \in Nat /\ index[work[1].node] \in Nat
    BY <1>1, <2>1 DEF Core, Shaped
  <2>3. CASE i = 1
    BY <2>2, <2>3
  <2>4. CASE i > 1
    <3>1. index[work[i].node] < index[work[1].node]
      BY <1>1, <2>4 DEF WorkIs
    <3> QED BY <2>2, <3>1
  <2> QED BY <2>1, <2>3, <2>4
<1>5. Top.left \subseteq adj[Top.node]
  BY <1>1 DEF WorkIs, Top
<1> QED BY <1>1, <1>3, <1>4, <1>5 DEF Newest, Top

-----------------------------------------------------------------------------
\* A node that is numbered goes on top of the others.
LEMMA EnterStacks ==
  ASSUME Core, StackIs, NEW w \in Node, Enter(w), index[w] = 0, UNCHANGED adj
  PROVE  StackIs'
<1> DEFINE s == <<w>> \o stack
<1>1. /\ s \in Seq(Node) /\ s[1] = w /\ DOMAIN s = 1..(Len(stack) + 1)
      /\ \A i \in DOMAIN s : i # 1 => i - 1 \in DOMAIN stack /\ s[i] = stack[i - 1]
      /\ \A i \in DOMAIN stack : i + 1 \in DOMAIN s /\ s[i + 1] = stack[i]
      /\ 1 \in DOMAIN s /\ DOMAIN stack \subseteq Nat
  <2>1. stack \in Seq(Node)
    BY DEF StackIs
  <2>2. 1 \in 1..(Len(stack) + 1) /\ DOMAIN stack \subseteq Nat
    BY <2>1
  <2> QED BY <2>1, <2>2, Pushed
<1>2. stack' = s /\ Node' = Node
  BY DEF Enter, Node
<1> HIDE DEF s
<1>3. /\ index'[w] = next /\ onStack'[w]
      /\ \A n \in Node : n # w => index'[n] = index[n] /\ onStack'[n] = onStack[n]
      /\ \A n \in Node : index[n] < next /\ index[n] \in Nat
      /\ ~ onStack[w]
  BY DEF Enter, Core, Shaped, Marked
<1>4. \A i \in DOMAIN stack : stack[i] \in Node /\ stack[i] # w
  <2>1. \A i \in DOMAIN stack : stack[i] \in Node
    BY DEF StackIs
  <2> QED BY <1>3, <2>1 DEF StackIs
<1>5. ASSUME NEW n \in Node PROVE onStack'[n] <=> \E i \in DOMAIN s : s[i] = n
  <2>1. CASE n = w
    BY <1>1, <1>3, <2>1
  <2>2. CASE n # w
    <3>1. onStack'[n] <=> \E i \in DOMAIN stack : stack[i] = n
      BY <1>3, <2>2 DEF StackIs
    <3> QED BY <1>1, <2>2, <3>1
  <2> QED BY <2>1, <2>2
<1>6. ASSUME NEW i \in DOMAIN s, NEW j \in DOMAIN s, i < j
      PROVE  index'[s[j]] < index'[s[i]]
  <2>1. i \in Nat /\ j \in Nat /\ i >= 1
    BY <1>1
  <2>2. j # 1 /\ j - 1 \in DOMAIN stack /\ s[j] = stack[j - 1]
    BY <1>1, <1>6, <2>1
  <2>3. CASE i = 1
    BY <1>1, <1>3, <1>4, <2>2, <2>3
  <2>4. CASE i # 1
    <3>1. i - 1 \in DOMAIN stack /\ s[i] = stack[i - 1] /\ i - 1 < j - 1
      BY <1>1, <1>6, <2>1, <2>4
    <3>2. index[stack[j - 1]] < index[stack[i - 1]]
      BY <2>2, <3>1 DEF StackIs
    <3> QED BY <1>3, <1>4, <2>2, <3>1, <3>2
  <2> QED BY <2>3, <2>4
<1> QED BY <1>1, <1>2, <1>5, <1>6 DEF StackIs

LEMMA SameCore ==
  ASSUME Core, UNCHANGED <<adj, index, low, onStack, comp, next, work, components>>
  PROVE  Core'
BY DEF Core, Shaped, Marked, SeenMarked, GoesUp, ComesDown, LowIsReached, LowCovers, FoundWhole,
       Gray, Seen, Owner, Scc, Node

\* Nothing is on the stack between two roots.
LEMMA NothingOpen ==
  ASSUME Core, work = <<>>
  PROVE  Gray = {} /\ \A n \in Node : ~ onStack[n]
<1>1. Gray = {}
  BY DEF Gray
<1> QED BY <1>1 DEF Core, ComesDown

LEMMA RootKeeps == ASSUME Size \in Nat, Inv, Root PROVE Inv'
<1> USE DEF Inv
<1>1. work = <<>> /\ root \in Node /\ root' = root + 1 /\ UNCHANGED <<adj, comp, components>>
  BY DEF Root
<1>2. PICK N \in Nat : Node = 1..N /\ N <= Size /\ root \in 1..(N + 1) /\ adj \in [1..N -> SUBSET (1..N)]
  BY Bounds
<1>3. Node' = Node
  BY <1>1 DEF Node
<1>4. \E M \in 0..Size : adj' \in [1..M -> SUBSET (1..M)] /\ root' \in 1..(M + 1)
  BY <1>1, <1>2
<1>5. CASE index[root] # 0
  <2>1. UNCHANGED <<index, low, next, stack, onStack, work>>
    BY <1>5 DEF Root
  <2>2. Core'
    BY <1>1, <2>1, SameCore
  <2>3. StackIs' /\ WorkIs'
    BY <1>1, <2>1, <1>3 DEF StackIs, WorkIs
  <2>4. \A n \in Node : n < root + 1 => index[n] # 0
    BY <1>2, <1>5 DEF RootIs
  <2> QED BY <1>1, <1>3, <1>4, <2>1, <2>2, <2>3, <2>4 DEF RootIs
<1>6. CASE index[root] = 0
  <2>0. PICK r \in Node : r = root
    BY <1>1
  <2>1. Enter(r) /\ low' = [low EXCEPT ![r] = next] /\ work' = <<Frame(r)>>
    BY <1>6, <2>0 DEF Root
  <2>2. work' \in Seq([node : Node, left : SUBSET Node]) /\ DOMAIN work' = {1} /\ work'[1] = Frame(r)
    BY <1>1, <1>2, <2>1 DEF Frame
  <2>3. Gray = {} /\ Gray' = {r}
    BY <1>1, <2>2, NothingOpen DEF Gray, Frame
  <2>4. \A y \in Node : ~ Seen(r, y)'
    <3>1. 1 \in DOMAIN work' /\ work'[1].node = r /\ work'[1].left = adj[r] /\ adj' = adj
      BY <1>1, <2>2 DEF Frame
    <3> SUFFICES ASSUME NEW y \in Node, Seen(r, y)' PROVE FALSE
      OBVIOUS
    <3>2. y \in adj'[r] /\ y \notin work'[1].left
      BY <3>1 DEF Seen
    <3> QED BY <3>1, <3>2
  <2>5. \A x, y \in Node : Seen(x, y)' => Seen(x, y)
    BY <1>1 DEF Seen
  <2>6. Entered(r)
    BY <1>1, <1>6, <2>0, <2>1, <2>3, <2>4, <2>5 DEF Entered, Enter
  <2>7. Core'
    BY <1>1, <2>6, EnteredKeeps
  <2>8. StackIs'
    BY <1>1, <1>6, <2>0, <2>1, EnterStacks
  <2>9. WorkIs'
    BY <1>1, <1>3, <2>2 DEF WorkIs, Frame
  <2>10. \A n \in Node : n < root + 1 => index'[n] # 0
    <3>1. index'[r] = next /\ \A n \in Node : n # r => index'[n] = index[n]
      BY <1>1, <2>1 DEF Enter, Core, Shaped
    <3>2. next # 0
      BY DEF Core, Shaped
    <3> QED BY <1>2, <2>0, <3>1, <3>2 DEF RootIs
  <2> QED BY <1>1, <1>3, <1>4, <2>7, <2>8, <2>9, <2>10 DEF RootIs
<1> QED BY <1>5, <1>6

-----------------------------------------------------------------------------
\* The target the top frame looks at next, and the frames without it.
Target  == Min(Top.left)
Without == [work EXCEPT ![1].left = @ \ {Target}]

LEMMA TargetIs ==
  ASSUME Size \in Nat, Inv, work # <<>>, Top.left # {}
  PROVE  /\ Target \in Top.left /\ Target \in Node /\ Target \in adj[Top.node]
         /\ Without \in Seq([node : Node, left : SUBSET Node])
         /\ DOMAIN Without = DOMAIN work
         /\ \A i \in DOMAIN work : /\ Without[i].node = work[i].node
                                   /\ Without[i].left = IF i = 1 THEN work[1].left \ {Target}
                                                                 ELSE work[i].left
<1> USE DEF Inv
<1> DEFINE F == [node : Node, left : SUBSET Node]
<1>1. Top \in F /\ Top = work[1] /\ 1 \in DOMAIN work /\ Top.left \subseteq adj[Top.node]
  BY TopIsLast
<1>2. Top.left \subseteq Nat /\ Top.left \subseteq Node
  BY <1>1, Bounds
<1>3. Target \in Top.left
  BY <1>2, MinIsLeast DEF Target
<1>4. work \in Seq(F) /\ DOMAIN work = 1..Len(work) /\ Len(work) \in Nat
  BY DEF WorkIs
<1>5. Without = [i \in DOMAIN work |-> IF i = 1 THEN [work[1] EXCEPT !.left = @ \ {Target}] ELSE work[i]]
  BY <1>1, <1>4 DEF Without
<1>6. [work[1] EXCEPT !.left = @ \ {Target}] \in F
  BY <1>1
<1>7. \A i \in DOMAIN work : work[i] \in F
  <2> HIDE DEF F
  <2> QED BY <1>4, ItemOf
<1>8. Without \in [1..Len(work) -> F]
  BY <1>4, <1>5, <1>6, <1>7
<1>9. Without \in Seq(F)
  BY <1>4, <1>8
<1> QED BY <1>1, <1>2, <1>3, <1>5, <1>6, <1>7, <1>9

LEMMA VisitNewKeeps ==
  ASSUME Size \in Nat, Inv, Visit, index[Target] = 0
  PROVE  Inv'
<1> USE DEF Inv
<1> DEFINE F == [node : Node, left : SUBSET Node]
<1>0. PICK v, w \in Node : v = Top.node /\ w = Target
  BY TopIsLast, TargetIs DEF Visit
<1>1. /\ work # <<>> /\ Top.left # {} /\ UNCHANGED <<adj, comp, root, components>>
      /\ Enter(w) /\ low' = [low EXCEPT ![w] = next] /\ work' = <<Frame(w)>> \o Without
  BY <1>0 DEF Visit, Target, Without
<1>2. /\ w \in Top.left /\ w \in Node /\ w \in adj[v]
      /\ Without \in Seq(F) /\ DOMAIN Without = DOMAIN work
      /\ \A i \in DOMAIN work : /\ Without[i].node = work[i].node
                                /\ Without[i].left = IF i = 1 THEN work[1].left \ {w}
                                                              ELSE work[i].left
  BY <1>0, <1>1, TargetIs
<1>3. Newest(v) /\ v \in Node /\ Top = work[1] /\ 1 \in DOMAIN work
  BY <1>0, <1>1, TopIsLast
<1>4. Node' = Node /\ Frame(w) \in F /\ Frame(w).node = w /\ Frame(w).left = adj[w]
  BY <1>1, <1>2 DEF Node, Frame, Core, Shaped, IsGraph
<1> HIDE DEF F
<1>5. /\ work' \in Seq(F) /\ work'[1] = Frame(w) /\ 1 \in DOMAIN work'
      /\ \A i \in DOMAIN work' : i \in Nat /\ i >= 1
                                 /\ (i # 1 => i - 1 \in DOMAIN work /\ work'[i] = Without[i - 1])
      /\ \A i \in DOMAIN work : i + 1 \in DOMAIN work' /\ work'[i + 1] = Without[i]
  <2> DEFINE s == <<Frame(w)>> \o Without
  <2>1. /\ s \in Seq(F) /\ s[1] = Frame(w) /\ DOMAIN s = 1..(Len(Without) + 1)
        /\ \A i \in DOMAIN s : i # 1 => i - 1 \in DOMAIN Without /\ s[i] = Without[i - 1]
        /\ \A i \in DOMAIN Without : i + 1 \in DOMAIN s /\ s[i + 1] = Without[i]
    BY <1>2, <1>4, Pushed
  <2>2. 1 \in 1..(Len(Without) + 1)
    BY <1>2
  <2>3. work' = s
    BY <1>1
  <2> HIDE DEF s
  <2> QED BY <1>2, <2>1, <2>2, <2>3
<1>6. Gray' = Gray \cup {w}
  <2>1. ASSUME NEW i \in DOMAIN work' PROVE work'[i].node = w \/ work'[i].node \in Gray
    <3>1. CASE i = 1
      BY <1>4, <1>5, <3>1
    <3>2. CASE i # 1
      <4>1. i - 1 \in DOMAIN work /\ work'[i] = Without[i - 1]
        BY <1>5, <3>2
      <4>2. work'[i].node = work[i - 1].node
        BY <1>2, <4>1
      <4> QED BY <4>1, <4>2 DEF Gray
    <3> QED BY <3>1, <3>2
  <2>2. ASSUME NEW i \in DOMAIN work PROVE work'[i + 1].node = work[i].node
    BY <1>2, <1>5
  <2>3. work'[1].node = w
    BY <1>4, <1>5
  <2> QED BY <1>5, <2>1, <2>2, <2>3 DEF Gray
<1>7. \A y \in Node : ~ Seen(w, y)'
  <2> SUFFICES ASSUME NEW y \in Node, Seen(w, y)' PROVE FALSE
    OBVIOUS
  <2>1. work'[1].node = w /\ work'[1].left = adj'[w]
    BY <1>1, <1>4, <1>5
  <2>2. y \in adj'[w] /\ y \notin work'[1].left
    BY <1>5, <2>1 DEF Seen
  <2> QED BY <2>1, <2>2
<1>8. ASSUME NEW x \in Node, NEW y \in Node, Seen(x, y)'
      PROVE  Seen(x, y) \/ (y = w /\ x = v)
  <2>1. y \in adj[x] /\ \A i \in DOMAIN work : work[i].node = x => y \notin Without[i].left
    <3>1. ASSUME NEW i \in DOMAIN work, work[i].node = x PROVE y \notin Without[i].left
      <4>1. i + 1 \in DOMAIN work' /\ work'[i + 1] = Without[i] /\ Without[i].node = x
        BY <1>2, <1>5, <3>1
      <4>2. y \notin work'[i + 1].left
        BY <1>8, <4>1 DEF Seen
      <4> QED BY <4>1, <4>2
    <3> QED BY <1>1, <1>8, <3>1 DEF Seen
  <2>2. CASE Seen(x, y)
    BY <2>2
  <2>3. CASE ~ Seen(x, y)
    <3>1. PICK i \in DOMAIN work : work[i].node = x /\ y \in work[i].left
      BY <2>1, <2>3 DEF Seen
    <3>2. i = 1 /\ y = w
      BY <1>2, <2>1, <3>1
    <3> QED BY <1>0, <1>3, <3>1, <3>2
  <2> QED BY <2>2, <2>3
<1>9. Entered(w)
  <2>1. index[w] = 0
    BY <1>0
  <2>2. \E u \in Gray : Newest(u) /\ w \in adj[u]
    BY <1>2, <1>3 DEF Newest
  <2>3. \A x, y \in Node : Seen(x, y)' => Seen(x, y) \/ (y = w /\ Newest(x))
    BY <1>3, <1>8
  <2> QED BY <1>1, <1>6, <1>7, <2>1, <2>2, <2>3 DEF Entered, Enter
<1>10. Core'
  BY <1>2, <1>9, EnteredKeeps
<1>11. StackIs'
  BY <1>0, <1>1, <1>2, EnterStacks
<1>12. WorkIs'
  <2>1. \A i \in DOMAIN work' : work'[i].left \subseteq adj[work'[i].node]
    <3> SUFFICES ASSUME NEW i \in DOMAIN work' PROVE work'[i].left \subseteq adj[work'[i].node]
      OBVIOUS
    <3>1. CASE i = 1
      BY <1>4, <1>5, <3>1
    <3>2. CASE i # 1
      <4>1. i - 1 \in DOMAIN work /\ work'[i] = Without[i - 1]
        BY <1>5, <3>2
      <4>2. Without[i - 1].left \subseteq work[i - 1].left /\ Without[i - 1].node = work[i - 1].node
        BY <1>2, <4>1
      <4> QED BY <4>1, <4>2 DEF WorkIs
    <3> QED BY <3>1, <3>2
  <2>2. /\ index'[w] = next
        /\ \A n \in Node : n # w => index'[n] = index[n]
        /\ \A n \in Node : index[n] < next
        /\ w \notin Gray
    BY <1>1, <1>2, <1>9 DEF Enter, Core, Shaped, Marked, Entered
  <2>3. \A i, j \in DOMAIN work' : i < j => index'[work'[j].node] < index'[work'[i].node]
    <3> SUFFICES ASSUME NEW i \in DOMAIN work', NEW j \in DOMAIN work', i < j
                 PROVE  index'[work'[j].node] < index'[work'[i].node]
      OBVIOUS
    <3>1. i \in Nat /\ j \in Nat /\ i >= 1 /\ j # 1
      BY <1>5
    <3>2. j - 1 \in DOMAIN work /\ work'[j].node = work[j - 1].node
      BY <1>2, <1>5, <3>1
    <3>3. \A k \in DOMAIN work : work[k].node \in Gray /\ work[k].node \in Node /\ work[k].node # w
      BY <2>2 DEF Gray, Core, Shaped
    <3>4. CASE i = 1
      BY <1>4, <1>5, <2>2, <3>2, <3>3, <3>4
    <3>5. CASE i # 1
      <4>1. i - 1 \in DOMAIN work /\ work'[i].node = work[i - 1].node /\ i - 1 < j - 1
        <5>1. i - 1 \in DOMAIN work /\ work'[i] = Without[i - 1]
          BY <1>5, <3>5
        <5>2. Without[i - 1].node = work[i - 1].node
          BY <1>2, <5>1
        <5>3. i - 1 < j - 1
          BY <3>1
        <5> QED BY <5>1, <5>2, <5>3
      <4>2. index[work[j - 1].node] < index[work[i - 1].node]
        BY <3>2, <4>1 DEF WorkIs
      <4> QED BY <2>2, <3>2, <3>3, <4>1, <4>2
    <3> QED BY <3>4, <3>5
  <2>4. F = [node : Node', left : SUBSET Node']
    BY <1>4 DEF F
  <2> QED BY <1>1, <1>5, <2>1, <2>3, <2>4 DEF WorkIs
<1>13. RootIs'
  <2>1. \A n \in Node : index[n] # 0 => index'[n] # 0
    BY <1>1, <1>2 DEF Enter, Core, Shaped
  <2> QED BY <1>1, <1>4, <2>1 DEF RootIs
<1> QED BY <1>10, <1>11, <1>12, <1>13

LEMMA VisitOldKeeps ==
  ASSUME Size \in Nat, Inv, Visit, index[Target] # 0
  PROVE  Inv'
<1> USE DEF Inv
<1>0. PICK v, w \in Node : v = Top.node /\ w = Target
  BY TopIsLast, TargetIs DEF Visit
<1>1. /\ work # <<>> /\ Top.left # {} /\ UNCHANGED <<adj, comp, root, components>>
      /\ low' = [low EXCEPT ![v] = IF onStack[w] THEN Min2(@, index[w]) ELSE @]
      /\ work' = Without
      /\ UNCHANGED <<index, next, stack, onStack>>
  BY <1>0 DEF Visit, Target, Without
<1>2. /\ w \in Top.left /\ w \in Node /\ w \in adj[v]
      /\ Without \in Seq([node : Node, left : SUBSET Node]) /\ DOMAIN Without = DOMAIN work
      /\ \A i \in DOMAIN work : /\ Without[i].node = work[i].node
                                /\ Without[i].left = IF i = 1 THEN work[1].left \ {w}
                                                              ELSE work[i].left
  BY <1>0, <1>1, TargetIs
<1>3. Newest(v) /\ v \in Node /\ Top = work[1] /\ 1 \in DOMAIN work
  BY <1>0, <1>1, TopIsLast
<1>4. Node' = Node
  BY <1>1 DEF Node
<1>5. Gray' = Gray
  BY <1>1, <1>2 DEF Gray
<1>6. ASSUME NEW x \in Node, NEW y \in Node, Seen(x, y)'
      PROVE  Seen(x, y) \/ (x = v /\ y = w)
  <2>1. y \in adj[x] /\ \A i \in DOMAIN work : work[i].node = x => y \notin Without[i].left
    BY <1>1, <1>2, <1>6 DEF Seen
  <2>2. CASE Seen(x, y)
    BY <2>2
  <2>3. CASE ~ Seen(x, y)
    <3>1. PICK i \in DOMAIN work : work[i].node = x /\ y \in work[i].left
      BY <2>1, <2>3 DEF Seen
    <3>2. i = 1 /\ y = w
      BY <1>2, <2>1, <3>1
    <3> QED BY <1>0, <1>3, <3>1, <3>2
  <2> QED BY <2>2, <2>3
<1>7. LookedBack(v, w)
  BY <1>0, <1>1, <1>2, <1>3, <1>5, <1>6 DEF LookedBack
<1>8. Core'
  BY <1>2, <1>3, <1>7, LookedBackKeeps
<1>9. StackIs' /\ RootIs'
  BY <1>1, <1>4 DEF StackIs, RootIs
<1>10. WorkIs'
  <2>1. \A i \in DOMAIN work : Without[i].left \subseteq adj[Without[i].node]
    BY <1>2 DEF WorkIs
  <2>2. \A i, j \in DOMAIN work : i < j => index[Without[j].node] < index[Without[i].node]
    BY <1>2 DEF WorkIs
  <2> QED BY <1>1, <1>2, <1>4, <2>1, <2>2 DEF WorkIs
<1> QED BY <1>8, <1>9, <1>10

-----------------------------------------------------------------------------
\* The stack down to v, which is what it holds with a number from v's on.
LEMMA AboveIs ==
  ASSUME Core, StackIs, NEW v \in Node, onStack[v]
  PROVE  \E p \in DOMAIN stack :
           /\ p \in Nat /\ p >= 1
           /\ Above(v) = From(v) /\ Cardinality(From(v)) = p
           /\ \A i \in DOMAIN stack : stack[i] \in From(v) <=> i <= p
<1>1. stack \in Seq(Node) /\ DOMAIN stack = 1..Len(stack) /\ Len(stack) \in Nat
  BY DEF StackIs
<1>2. \A i \in DOMAIN stack : /\ stack[i] \in Node /\ i \in Nat /\ i >= 1
                              /\ onStack[stack[i]] /\ index[stack[i]] \in Nat
  <2>1. \A i \in DOMAIN stack : stack[i] \in Node /\ i \in Nat /\ i >= 1
    BY <1>1
  <2> QED BY <2>1 DEF StackIs, Core, Shaped
<1>3. PICK p \in DOMAIN stack : stack[p] = v
  BY DEF StackIs
<1>4. ASSUME NEW i \in DOMAIN stack PROVE stack[i] \in From(v) <=> i <= p
  <2>1. i < p => index[v] < index[stack[i]]
    BY <1>3 DEF StackIs
  <2>2. p < i => index[stack[i]] < index[v]
    BY <1>3 DEF StackIs
  <2>3. i = p => index[v] = index[stack[i]]
    BY <1>3
  <2>4. index[v] <= index[stack[i]] <=> i <= p
    <3>1. i \in Nat /\ p \in Nat /\ index[stack[i]] \in Nat /\ index[v] \in Nat
      BY <1>2, <1>3
    <3> QED BY <2>1, <2>2, <2>3, <3>1
  <2> QED BY <1>2, <2>4 DEF From
<1>5. ASSUME NEW i \in DOMAIN stack, NEW k \in DOMAIN stack, stack[i] = stack[k] PROVE i = k
  <2>1. ~ (i < k) /\ ~ (k < i)
    <3>1. i < k => index[stack[k]] < index[stack[i]]
      BY DEF StackIs
    <3>2. k < i => index[stack[i]] < index[stack[k]]
      BY DEF StackIs
    <3>3. ~ (index[stack[k]] < index[stack[i]]) /\ ~ (index[stack[i]] < index[stack[k]])
      BY <1>2, <1>5
    <3> QED BY <3>1, <3>2, <3>3
  <2> QED BY <1>2, <2>1
<1>6. SelectInSeq(stack, LAMBDA n : n = v) = p
  <2> DEFINE I == {i \in 1..Len(stack) : stack[i] = v}
  <2>1. I = {p}
    BY <1>1, <1>3, <1>5
  <2>2. I \subseteq Nat /\ I # {}
    BY <1>2, <2>1
  <2>3. SelectInSeq(stack, LAMBDA n : n = v) = IF I # {} THEN Min(I) ELSE 0
    BY DEF SelectInSeq
  <2> HIDE DEF I
  <2>4. Min(I) \in I
    BY <2>2, MinIsLeast
  <2> QED BY <2>1, <2>2, <2>3, <2>4
<1>7. Above(v) = {stack[i] : i \in 1..p}
  BY <1>6 DEF Above
<1>8. 1..p \subseteq DOMAIN stack /\ \A i \in DOMAIN stack : i <= p => i \in 1..p
  BY <1>1, <1>2
<1>9. \A n \in From(v) : \E i \in DOMAIN stack : stack[i] = n
  BY DEF From, StackIs
<1>10. From(v) = {stack[i] : i \in 1..p}
  <2>1. \A i \in 1..p : stack[i] \in From(v)
    BY <1>4, <1>8
  <2>2. \A n \in From(v) : \E i \in 1..p : stack[i] = n
    BY <1>4, <1>8, <1>9
  <2> QED BY <2>1, <2>2
<1>11. Cardinality(From(v)) = p
  <2> DEFINE f == [i \in 1..p |-> stack[i]]
  <2>1. f \in [1..p -> From(v)]
    BY <1>10
  <2>2. \A i, k \in 1..p : f[i] = f[k] => i = k
    BY <1>5, <1>8
  <2>3. \A n \in From(v) : \E i \in 1..p : f[i] = n
    BY <1>10
  <2>4. DOMAIN f = 1..p
    OBVIOUS
  <2> HIDE DEF f
  <2>5. f \in Bijection(1..p, From(v))
    BY <2>1, <2>2, <2>3, <2>4 DEF Bijection, Injection, Surjection, IsInjective
  <2>6. IsFiniteSet(1..p) /\ Cardinality(1..p) = p
    <3>1. p \in Nat /\ p >= 1
      BY <1>2
    <3>2. IsFiniteSet(1..p) /\ Cardinality(1..p) = IF 1 > p THEN 0 ELSE p - 1 + 1
      BY <3>1, FS_Interval
    <3> QED BY <3>1, <3>2
  <2> QED BY <2>5, <2>6, FS_Bijection DEF ExistsBijection
<1> QED BY <1>2, <1>4, <1>7, <1>10, <1>11

\* What the frames are without the top one.
LEMMA LeaveIsLeft ==
  ASSUME Inv, Leave, NEW v \in Node, v = Top.node
  PROVE  Left(v) /\ WorkIs'
<1> USE DEF Inv
<1> DEFINE F == [node : Node, left : SUBSET Node]
<1>1. /\ work # <<>> /\ Top.left = {} /\ UNCHANGED <<adj, index, next, root>>
      /\ work' = Tail(work)
      /\ low' = IF work' = <<>> THEN low
                ELSE [low EXCEPT ![work'[1].node] = Min2(@, low[v])]
  BY DEF Leave
<1>2. Top = work[1] /\ 1 \in DOMAIN work /\ Newest(v)
  BY <1>1, TopIsLast
<1>3. work \in Seq(F)
  BY DEF WorkIs
<1> HIDE DEF F
<1>4. /\ work' \in Seq(F)
      /\ \A i \in DOMAIN work' : i + 1 \in DOMAIN work /\ work'[i] = work[i + 1]
      /\ \A i \in DOMAIN work : i # 1 => i - 1 \in DOMAIN work' /\ work'[i - 1] = work[i]
  BY <1>1, <1>3, Popped
<1>5. \A i \in DOMAIN work : /\ i \in Nat /\ i >= 1
                             /\ work[i].node \in Gray /\ work[i].node \in Node
                             /\ index[work[i].node] \in Nat
  <2>1. \A i \in DOMAIN work : i \in Nat /\ i >= 1
    BY <1>3, ItemOf
  <2> QED BY <2>1 DEF Gray, Core, Shaped
<1>6. \A i \in DOMAIN work : i # 1 => work[i].node # v /\ index[work[i].node] < index[v]
  <2> SUFFICES ASSUME NEW i \in DOMAIN work, i # 1
               PROVE  work[i].node # v /\ index[work[i].node] < index[v]
    OBVIOUS
  <2>1. 1 < i
    BY <1>5
  <2>2. index[work[i].node] < index[work[1].node]
    BY <1>2, <2>1 DEF WorkIs
  <2>3. index[work[1].node] = index[v] /\ index[v] \in Nat
    BY <1>2, <1>5
  <2> QED BY <1>5, <2>2, <2>3
<1>7. \A i \in DOMAIN work' : i \in Nat /\ i >= 1 /\ i + 1 # 1
  BY <1>4, ItemOf
<1>8. Gray' = Gray \ {v}
  <2>1. ASSUME NEW i \in DOMAIN work' PROVE work'[i].node \in Gray \ {v}
    <3>1. i + 1 \in DOMAIN work /\ i + 1 # 1 /\ work'[i] = work[i + 1]
      BY <1>4, <1>7
    <3> QED BY <1>5, <1>6, <3>1
  <2>2. ASSUME NEW i \in DOMAIN work, work[i].node # v PROVE work[i].node \in Gray'
    <3>1. i # 1
      BY <1>2, <2>2
    <3>2. i - 1 \in DOMAIN work' /\ work'[i - 1] = work[i]
      BY <1>4, <3>1
    <3> QED BY <3>2 DEF Gray
  <2> QED BY <2>1, <2>2 DEF Gray
<1>9. \A y \in adj[v] : Seen(v, y)
  <2> SUFFICES ASSUME NEW y \in adj[v], NEW i \in DOMAIN work, work[i].node = v
               PROVE  y \notin work[i].left
    BY DEF Seen
  <2>1. i = 1
    BY <1>6
  <2> QED BY <1>1, <1>2, <2>1
<1>10. \A x, y \in Node : Seen(x, y)' => Seen(x, y)
  <2> SUFFICES ASSUME NEW x \in Node, NEW y \in Node, Seen(x, y)' PROVE Seen(x, y)
    OBVIOUS
  <2>1. y \in adj[x]
    BY <1>1 DEF Seen
  <2>2. ASSUME NEW i \in DOMAIN work, work[i].node = x PROVE y \notin work[i].left
    <3>1. CASE i = 1
      BY <1>1, <1>2, <3>1
    <3>2. CASE i # 1
      <4>1. i - 1 \in DOMAIN work' /\ work'[i - 1] = work[i]
        BY <1>4, <3>2
      <4> QED BY <2>2, <4>1 DEF Seen
    <3> QED BY <3>1, <3>2
  <2> QED BY <2>1, <2>2 DEF Seen
<1>11. \/ Gray' = {} /\ low' = low
       \/ \E b \in Gray' : /\ \A u \in Gray' : index[u] <= index[b]
                           /\ low' = [low EXCEPT ![b] = Min2(@, low[v])]
  <2>1. CASE work' = <<>>
    <3>1. DOMAIN work' = {}
      BY <2>1
    <3>2. Gray' = {}
      BY <3>1 DEF Gray
    <3> QED BY <1>1, <2>1, <3>2
  <2>2. CASE work' # <<>>
    <3> DEFINE b == work'[1].node
    <3>1. 1 \in DOMAIN work'
      BY <1>4, <2>2, Popped
    <3>2. b \in Gray'
      BY <3>1 DEF Gray
    <3>3. ASSUME NEW i \in DOMAIN work' PROVE index[work'[i].node] <= index[b]
      <4>1. 1 + 1 \in DOMAIN work /\ i + 1 \in DOMAIN work
        BY <1>4, <3>1
      <4>2. work'[1] = work[1 + 1] /\ work'[i] = work[i + 1]
        BY <1>4, <3>1
      <4>3. i # 1 => 1 + 1 < i + 1
        BY <1>7
      <4>4. i # 1 => index[work[i + 1].node] < index[work[1 + 1].node]
        BY <4>1, <4>3 DEF WorkIs
      <4>5. index[work'[i].node] \in Nat /\ index[b] \in Nat
        BY <1>5, <4>1, <4>2
      <4> HIDE DEF b
      <4>6. CASE i = 1
        BY <4>5, <4>6 DEF b
      <4>7. CASE i # 1
        BY <4>2, <4>4, <4>5, <4>7 DEF b
      <4> QED BY <4>6, <4>7
    <3>4. \A u \in Gray' : index[u] <= index[b]
      BY <3>3 DEF Gray
    <3>5. low' = [low EXCEPT ![b] = Min2(@, low[v])]
      BY <1>1, <2>2
    <3> HIDE DEF b
    <3> QED BY <3>2, <3>4, <3>5
  <2> QED BY <2>1, <2>2
<1>12. Left(v)
  BY <1>1, <1>2, <1>8, <1>9, <1>10, <1>11 DEF Left
<1>13. WorkIs'
  <2>1. \A i \in DOMAIN work' : work'[i].left \subseteq adj[work'[i].node]
    BY <1>4 DEF WorkIs
  <2>2. \A i, j \in DOMAIN work' : i < j => index[work'[j].node] < index[work'[i].node]
    <3> SUFFICES ASSUME NEW i \in DOMAIN work', NEW j \in DOMAIN work', i < j
                 PROVE  index[work'[j].node] < index[work'[i].node]
      OBVIOUS
    <3>1. i + 1 < j + 1
      BY <1>7
    <3>2. index[work[j + 1].node] < index[work[i + 1].node]
      BY <1>4, <3>1 DEF WorkIs
    <3> QED BY <1>4, <3>2
  <2>3. F = [node : Node', left : SUBSET Node']
    BY <1>1 DEF F, Node
  <2> QED BY <1>1, <1>4, <2>1, <2>2, <2>3 DEF WorkIs
<1> QED BY <1>12, <1>13

\* What a found component leaves on the stack.
LEMMA FoundStacks ==
  ASSUME Core, StackIs, NEW v \in Node, LeftFound(v),
         stack' = SubSeq(stack, Cardinality(From(v)) + 1, Len(stack))
  PROVE  StackIs'
<1>1. onStack[v] /\ index' = index /\ adj' = adj /\ Node' = Node
  BY DEF LeftFound, Left, Newest, Core, Shaped, Node
<1>2. PICK p \in DOMAIN stack :
           /\ p \in Nat /\ p >= 1
           /\ Above(v) = From(v) /\ Cardinality(From(v)) = p
           /\ \A i \in DOMAIN stack : stack[i] \in From(v) <=> i <= p
  BY <1>1, AboveIs
<1>3. stack \in Seq(Node) /\ DOMAIN stack = 1..Len(stack) /\ Len(stack) \in Nat /\ p <= Len(stack)
  BY DEF StackIs
<1>4. /\ stack' \in Seq(Node) /\ DOMAIN stack' = 1..(Len(stack) - p)
      /\ \A i \in DOMAIN stack' : stack'[i] = stack[i + p]
  <2> DEFINE s == SubSeq(stack, p + 1, Len(stack))
  <2>1. s \in Seq(Node) /\ Len(s) = Len(stack) - p /\ \A i \in 1..(Len(stack) - p) : s[i] = stack[i + p]
    BY <1>2, <1>3
  <2>2. DOMAIN s = 1..(Len(stack) - p)
    BY <2>1
  <2>3. stack' = s
    BY <1>2
  <2> HIDE DEF s
  <2> QED BY <2>1, <2>2, <2>3
<1>5. \A i \in DOMAIN stack' : i \in Nat /\ i >= 1 /\ i + p \in DOMAIN stack /\ ~ (i + p <= p)
  BY <1>2, <1>3, <1>4
<1>6. \A n \in Node : onStack'[n] <=> onStack[n] /\ n \notin From(v)
  BY DEF LeftFound
<1>7. ASSUME NEW n \in Node PROVE onStack'[n] <=> \E i \in DOMAIN stack' : stack'[i] = n
  <2>1. ASSUME onStack'[n] PROVE \E i \in DOMAIN stack' : stack'[i] = n
    <3>1. PICK i \in DOMAIN stack : stack[i] = n
      BY <1>6, <2>1 DEF StackIs
    <3>2. ~ (i <= p)
      BY <1>2, <1>6, <2>1, <3>1
    <3>3. i - p \in DOMAIN stack' /\ i - p + p = i
      BY <1>2, <1>3, <1>4, <3>2
    <3>4. stack'[i - p] = stack[i]
      BY <1>4, <3>3
    <3> QED BY <3>1, <3>3, <3>4
  <2>2. ASSUME NEW i \in DOMAIN stack', stack'[i] = n PROVE onStack'[n]
    <3>1. stack[i + p] = n /\ i + p \in DOMAIN stack
      BY <1>4, <1>5, <2>2
    <3>2. onStack[n] /\ n \notin From(v)
      BY <1>2, <1>5, <3>1 DEF StackIs
    <3> QED BY <1>6, <3>2
  <2> QED BY <2>1, <2>2
<1>8. ASSUME NEW i \in DOMAIN stack', NEW k \in DOMAIN stack', i < k
      PROVE  index[stack'[k]] < index[stack'[i]]
  <2>1. i + p < k + p
    BY <1>2, <1>5, <1>8
  <2>2. index[stack[k + p]] < index[stack[i + p]]
    BY <1>5, <2>1 DEF StackIs
  <2> QED BY <1>4, <2>2
<1> QED BY <1>1, <1>4, <1>7, <1>8 DEF StackIs

\* Leave, as the invariant sees it.
LEMMA LeaveIs ==
  ASSUME Inv, Leave, NEW v \in Node, v = Top.node
  PROVE  \/ /\ LeftFound(v) /\ stack' = SubSeq(stack, Cardinality(From(v)) + 1, Len(stack))
         \/ LeftOpen(v) /\ UNCHANGED stack
<1> USE DEF Inv
<1>1. Left(v)
  BY LeaveIsLeft
<1>2. onStack[v]
  BY <1>1 DEF Left, Newest, Core, Shaped
<1>3. Above(v) = From(v)
  BY <1>2, AboveIs
<1>4. CASE low[v] = index[v]
  <2>1. /\ components' = Append(components, Above(v))
        /\ comp' = [n \in Node |-> IF n \in Above(v) THEN Len(components) + 1 ELSE comp[n]]
        /\ onStack' = [n \in Node |-> onStack[n] /\ n \notin Above(v)]
        /\ stack' = SubSeq(stack, Cardinality(Above(v)) + 1, Len(stack))
    BY <1>4 DEF Leave
  <2> QED BY <1>1, <1>3, <1>4, <2>1 DEF LeftFound
<1>5. CASE low[v] # index[v]
  <2>1. UNCHANGED <<components, comp, onStack, stack>>
    BY <1>5 DEF Leave
  <2> QED BY <1>1, <1>5, <2>1 DEF LeftOpen
<1> QED BY <1>4, <1>5

LEMMA LeaveKeeps == ASSUME Size \in Nat, Inv, Leave PROVE Inv'
<1> USE DEF Inv
<1>1. PICK v \in Node : v = Top.node
  BY TopIsLast DEF Leave
<1>2. UNCHANGED <<adj, index, next, root>> /\ Node' = Node
  BY DEF Leave, Node
<1>3. Left(v) /\ WorkIs'
  BY <1>1, LeaveIsLeft
<1>4. RootIs'
  BY <1>2 DEF RootIs
<1>5. CASE LeftFound(v) /\ stack' = SubSeq(stack, Cardinality(From(v)) + 1, Len(stack))
  <2>1. Core'
    BY <1>5, LeftFoundKeeps
  <2>2. StackIs'
    BY <1>5, FoundStacks
  <2> QED BY <1>3, <1>4, <2>1, <2>2
<1>6. CASE LeftOpen(v) /\ UNCHANGED stack
  <2>1. Core'
    BY <1>6, LeftOpenKeeps
  <2>2. StackIs'
    BY <1>2, <1>6 DEF StackIs, LeftOpen
  <2> QED BY <1>3, <1>4, <2>1, <2>2
<1> QED BY <1>1, <1>5, <1>6, LeaveIs

-----------------------------------------------------------------------------
\* Nothing numbered, nothing stacked, nothing found.
Blank == /\ index = [n \in Node |-> 0] /\ low = index /\ comp = index
         /\ onStack = [n \in Node |-> FALSE]
         /\ stack = <<>> /\ work = <<>> /\ components = <<>>
         /\ next = 1 /\ root = 1

LEMMA BlankIsInv ==
  ASSUME Blank, NEW N \in 0..Size, Size \in Nat, adj \in [1..N -> SUBSET (1..N)]
  PROVE  Inv
<1>1. Node = 1..N /\ IsGraph(adj)
  BY DEF Node, IsGraph
<1>2. Gray = {} /\ DOMAIN work = {} /\ DOMAIN stack = {} /\ DOMAIN components = {}
  BY DEF Blank, Gray
<1>3. \A n \in Node : index[n] = 0 /\ low[n] = 0 /\ comp[n] = 0 /\ onStack[n] = FALSE
  BY DEF Blank
<1>4. Shaped
  BY <1>1, <1>2 DEF Blank, Shaped
<1>5. Marked /\ SeenMarked
  BY <1>3 DEF Blank, Marked, SeenMarked
<1>6. GoesUp /\ ComesDown /\ LowIsReached /\ LowCovers
  BY <1>2, <1>3 DEF GoesUp, ComesDown, LowIsReached, LowCovers
<1>7. FoundWhole
  BY <1>2, <1>3 DEF FoundWhole
<1>8. StackIs
  <2>1. stack \in Seq(Node)
    BY DEF Blank
  <2> QED BY <1>2, <1>3, <2>1 DEF StackIs
<1>9. WorkIs
  <2>1. work \in Seq([node : Node, left : SUBSET Node])
    BY DEF Blank
  <2> QED BY <1>2, <2>1 DEF WorkIs
<1>10. RootIs
  <2>1. root = 1 /\ 1 \in 1..(N + 1)
    BY DEF Blank
  <2>2. \A n \in Node : ~ (n < 1)
    BY <1>1
  <2> QED BY <2>1, <2>2 DEF RootIs
<1> QED BY <1>4, <1>5, <1>6, <1>7, <1>8, <1>9, <1>10 DEF Inv, Core

LEMMA InitIsInv == ASSUME Size \in Nat, Init PROVE Inv
<1>1. adj \in [1..0 -> SUBSET (1..0)] /\ 0 \in 0..Size
  <2>1. adj = [n \in 1..0 |-> {}]
    BY DEF Init
  <2> QED BY <2>1
<1>2. Node = {}
  BY DEF Init, Node
<1>3. Blank
  <2>1. <<>> = [n \in Node |-> 0] /\ <<>> = [n \in Node |-> FALSE]
    BY <1>2
  <2> QED BY <2>1 DEF Init, Blank
<1> QED BY <1>1, <1>3, BlankIsInv

BlankGraph == Blank /\ \E N \in 0..Size : adj \in [1..N -> SUBSET (1..N)]

LEMMA BlankNext == ASSUME Size \in Nat PROVE BlankGraph' => Inv'
<1>1. BlankGraph => Inv
  BY BlankIsInv DEF BlankGraph
<1> QED BY <1>1, PTL

LEMMA GivenIsInv ==
  ASSUME Size \in Nat, NEW n \in 0..Size, NEW a \in [1..n -> SUBSET (1..n)], Given(a)
  PROVE  Inv'
<1>1. adj' \in [1..n -> SUBSET (1..n)] /\ Node' = DOMAIN a
  BY DEF Given, Node
<1>2. Blank'
  BY <1>1 DEF Given, Blank
<1> QED BY <1>1, <1>2, BlankNext DEF BlankGraph

LEMMA StutterKeeps == ASSUME Inv, UNCHANGED vars PROVE Inv'
<1>1. Core'
  BY SameCore DEF vars, Inv
<1> QED BY <1>1 DEF vars, Inv, StackIs, WorkIs, RootIs, Node

LEMMA NextKeeps == ASSUME Size \in Nat, Inv, [Next]_vars PROVE Inv'
<1>1. CASE Visit
  BY <1>1, VisitNewKeeps, VisitOldKeeps
<1> QED BY <1>1, RootKeeps, LeaveKeeps, GivenIsInv, StutterKeeps DEF Next, Turn

THEOREM AlwaysInv == ASSUME Size \in Nat PROVE Spec => []Inv
<1>1. Init => Inv
  BY InitIsInv
<1>2. Inv /\ [Next]_vars => Inv'
  BY NextKeeps
<1> QED BY <1>1, <1>2, PTL DEF Spec

\* Every variable keeps its type: the numbers, the marks, the two stacks and
\* the components, whatever graphs are handed in one after another.
THEOREM TypeCorrect == ASSUME Size \in Nat PROVE Spec => []TypeOK
<1>1. Inv => TypeOK
  BY TypedIs
<1> QED BY <1>1, AlwaysInv, PTL

-----------------------------------------------------------------------------
\* The components the promise speaks of are the ones the invariant does.
LEMMA ComponentsAre ==
  ASSUME Size \in Nat, Inv
  PROVE  Promise!Components = {Scc(n) : n \in Node}
<1> USE DEF Inv
<1>1. PICK N \in Nat : Node = 1..N
  BY Bounds
<1>2. \A n \in Node : Promise!Reached[n] = Reaches(adj, n)
  BY <1>1, ReachedIs, Bounds
<1>3. \A n \in Node : \A m \in Reaches(adj, n) : m \in Node
  BY DEF Reaches, Node
<1>4. \A n \in Node : Promise!Component(n) = Scc(n)
  BY <1>2, <1>3 DEF Promise!Component, Scc
<1>5. Promise!Node = Node
  BY DEF Promise!Node, Node
<1> QED BY <1>4, <1>5 DEF Promise!Components

\* A step of the algorithm is a step of what it promises.
LEMMA StepIsPromised ==
  ASSUME Size \in Nat, Inv, [Next]_vars
  PROVE  [Promise!Given \/ Promise!EmitAny]_(Promise!vars)
<1> USE DEF Inv
<1>1. CASE \E n \in 0..Size : \E a \in [1..n -> SUBSET (1..n)] : Given(a)
  BY <1>1 DEF Given, Promise!Given
<1>2. CASE Root \/ Visit \/ UNCHANGED vars
  BY <1>2 DEF Root, Visit, vars, Promise!vars
<1>3. CASE Leave
  <2>1. PICK v \in Node : v = Top.node
    BY <1>3, TopIsLast DEF Leave
  <2>2. CASE LeftOpen(v)
    BY <2>2 DEF LeftOpen, Left, Promise!vars
  <2>3. CASE LeftFound(v)
    <3>1. From(v) = Scc(v) /\ v \in From(v)
      BY <2>3, FromIsScc
    <3>3. Promise!Components = {Scc(n) : n \in Node}
      BY ComponentsAre
    <3>4. Scc(v) \notin Promise!Out
      <4>1. comp[v] = 0
        BY <2>3 DEF LeftFound, Left, Newest, Core, Shaped, Marked
      <4>2. components \in Seq(SUBSET Node)
        BY DEF Core, Shaped
      <4>3. \A i \in DOMAIN components : v \notin components[i]
        <5>1. \A i \in DOMAIN components : i # 0
          BY <4>2
        <5> QED BY <4>1, <5>1 DEF Core, FoundWhole
      <4> QED BY <3>1, <4>3 DEF Promise!Out
    <3>5. ASSUME NEW d \in Promise!Components, d # Scc(v),
                 NEW n \in Scc(v), NEW m \in adj[n], m \in d
          PROVE  d \in Promise!Out
      <4>1. PICK k \in Node : d = Scc(k)
        BY <3>3
      <4>2. m \in Node /\ d = Scc(m)
        BY <3>5, <4>1, SccOfMember
      <4>3. m \in From(v) \/ comp[m] # 0
        BY <2>3, <3>1, FromTargets
      <4>4. m \notin From(v)
        BY <3>1, <3>5, <4>2, SccOfMember
      <4>5. comp[m] \in DOMAIN components /\ m \in components[comp[m]]
        BY <4>2, <4>3, <4>4 DEF Core, FoundWhole
      <4>6. PICK h \in Node : components[comp[m]] = Scc(h)
        BY <4>5 DEF Core, FoundWhole
      <4>7. Scc(m) = components[comp[m]]
        BY <4>5, <4>6, SccOfMember
      <4> QED BY <4>2, <4>5, <4>7 DEF Promise!Out
    <3>6. Promise!Ready(Scc(v))
      BY <3>4, <3>5 DEF Promise!Ready
    <3>7. components' = Append(components, Scc(v)) /\ adj' = adj
      BY <2>3, <3>1 DEF LeftFound, Left
    <3>8. Promise!Emit(Scc(v))
      BY <3>6, <3>7 DEF Promise!Emit
    <3> QED BY <3>3, <3>8 DEF Promise!EmitAny
  <2> QED BY <1>3, <2>1, <2>2, <2>3, LeaveIs
<1> QED BY <1>1, <1>2, <1>3 DEF Next, Turn

\* Tarjan's algorithm, as layer.go has it, finds the strongly connected
\* components, each whole and once, and none before one that it depends on:
\* the safety half of Condenses, for graphs of any size.
THEOREM CondensesSafely ==
  ASSUME Size \in Nat
  PROVE  Spec => Promise!Init /\ [][Promise!Given \/ Promise!EmitAny]_(Promise!vars)
<1>1. Init => Promise!Init
  BY DEF Init, Promise!Init
<1>2. Inv /\ [Next]_vars => [Promise!Given \/ Promise!EmitAny]_(Promise!vars)
  BY StepIsPromised
<1> QED BY <1>1, <1>2, AlwaysInv, PTL DEF Spec

-----------------------------------------------------------------------------
\* The layers: LayerOf is a function defined by recursion on the components
\* before the one asked for.
Needs(c) == {d \in CompOut(c) : d < c}
Heights(f, c) == {0} \cup {f[d] + 1 : d \in Needs(c)}

LEMMA HeightsHaveMax ==
  ASSUME Shaped, NEW f \in [Nat -> Nat], NEW c \in DOMAIN components
  PROVE  /\ Needs(c) \subseteq Nat
         /\ Max(Heights(f, c)) \in Heights(f, c)
         /\ Max(Heights(f, c)) \in Nat
         /\ \A h \in Heights(f, c) : Max(Heights(f, c)) >= h
<1>1. c \in Nat /\ components[c] \subseteq Node
  <2>1. components \in Seq(SUBSET Node)
    BY DEF Shaped
  <2> QED BY <2>1
<1>2. CompOut(c) \subseteq Nat
  <2>1. \A n \in components[c] : adj[n] \subseteq Node
    BY <1>1 DEF Shaped, IsGraph, Node
  <2>2. \A m \in UNION {adj[n] : n \in components[c]} : comp[m] \in Nat
    BY <2>1 DEF Shaped
  <2> QED BY <2>2 DEF CompOut
<1>3. Needs(c) \subseteq Nat /\ \A d \in Needs(c) : d < c
  BY <1>2 DEF Needs
<1>4. PICK b \in Nat : \A d \in Nat : d < c => f[d] <= b
  BY <1>1, BoundBelow
<1>5. Heights(f, c) \subseteq 0..(b + 1)
  <2>1. \A d \in Needs(c) : f[d] + 1 \in 0..(b + 1)
    BY <1>3, <1>4
  <2> QED BY <2>1 DEF Heights
<1>6. Heights(f, c) # {} /\ b + 1 \in Nat
  BY DEF Heights
<1>7. Max(Heights(f, c)) \in Heights(f, c) /\ \A h \in Heights(f, c) : Max(Heights(f, c)) >= h
  BY <1>5, <1>6, MaxOfNumbers
<1> QED BY <1>3, <1>5, <1>7

LEMMA LayerOfIs ==
  ASSUME Shaped
  PROVE  /\ LayerOf \in [Nat -> Nat]
         /\ \A c \in DOMAIN components : LayerOf[c] = Max(Heights(LayerOf, c))
<1> DEFINE Turn1(f) == [c \in Nat |-> IF c \notin DOMAIN components THEN 0 ELSE Max(Heights(f, c))]
           T == [f \in [Nat -> Nat] |-> Turn1(f)]
           Is(f) == f = Turn1(f)
<1>1. T \in [[Nat -> Nat] -> [Nat -> Nat]]
  <2>1. ASSUME NEW f \in [Nat -> Nat] PROVE Turn1(f) \in [Nat -> Nat]
    BY HeightsHaveMax
  <2> HIDE DEF Turn1
  <2> QED BY <2>1
<1>2. ASSUME NEW f \in [Nat -> Nat], NEW g \in [Nat -> Nat], NEW c \in Nat,
             \A d \in Nat : d < c => f[d] = g[d]
      PROVE  T[f][c] = T[g][c]
  <2>1. CASE c \notin DOMAIN components
    BY <2>1
  <2>2. CASE c \in DOMAIN components
    <3>1. Needs(c) \subseteq Nat /\ \A d \in Needs(c) : d < c
      BY <2>2, HeightsHaveMax DEF Needs
    <3>2. Heights(f, c) = Heights(g, c)
      BY <1>2, <3>1 DEF Heights
    <3> QED BY <2>2, <3>2
  <2> QED BY <2>1, <2>2
<1>3. PICK f \in [Nat -> Nat] : f = T[f]
  <2>1. LooksBelow(T)
    <3> HIDE DEF T
    <3> QED BY <1>2 DEF LooksBelow
  <2> HIDE DEF T
  <2> QED BY <1>1, <2>1, FixedPointExists
<1>4. Is(f)
  <2> HIDE DEF Turn1
  <2> QED BY <1>3
<1> DEFINE g == CHOOSE h : Is(h)
<1>5. Is(g)
  <2> HIDE DEF Is
  <2> QED BY <1>4
<1>6. LayerOf = g
  BY DEF LayerOf, Heights, Needs
<1> HIDE DEF g
<1>7. g = Turn1(g)
  BY <1>5
<1> DEFINE K == {k \in Nat : \A d \in Nat : d < k => g[d] = f[d]}
<1>8. 0 \in K
  OBVIOUS
<1>9. ASSUME NEW k \in Nat, k \in K PROVE k + 1 \in K
  <2> SUFFICES ASSUME NEW d \in Nat, d < k + 1 PROVE g[d] = f[d]
    OBVIOUS
  <2>1. g[d] = IF d \notin DOMAIN components THEN 0 ELSE Max(Heights(g, d))
    BY <1>7
  <2>2. f[d] = IF d \notin DOMAIN components THEN 0 ELSE Max(Heights(f, d))
    BY <1>4
  <2>3. CASE d \in DOMAIN components
    <3>1. \A e \in Needs(d) : e \in Nat /\ e < k
      BY <2>3, HeightsHaveMax DEF Needs
    <3>2. \A e \in Needs(d) : g[e] = f[e]
      BY <1>9, <3>1
    <3>3. Heights(g, d) = Heights(f, d)
      BY <3>2 DEF Heights
    <3> QED BY <2>1, <2>2, <3>3
  <2> QED BY <2>1, <2>2, <2>3
<1>10. Nat \subseteq K
  <2> HIDE DEF K
  <2> QED BY <1>8, <1>9, NatSet
<1>11. \A d \in Nat : g[d] = f[d]
  <2> SUFFICES ASSUME NEW d \in Nat PROVE g[d] = f[d]
    OBVIOUS
  <2>1. d + 1 \in Nat /\ d < d + 1
    OBVIOUS
  <2>2. d + 1 \in K
    <3> HIDE DEF K
    <3> QED BY <1>10, <2>1
  <2> QED BY <2>1, <2>2
<1>12. g = f
  <2>1. g = [c \in Nat |-> g[c]] /\ f = [c \in Nat |-> f[c]]
    BY <1>7
  <2> QED BY <1>11, <2>1
<1>13. \A c \in DOMAIN components : c \in Nat
  <2>1. components \in Seq(SUBSET Node)
    BY DEF Shaped
  <2> QED BY <2>1
<1> QED BY <1>4, <1>6, <1>12, <1>13

\* Once the algorithm is done every node is in a component.
LEMMA DoneIsAll ==
  ASSUME Size \in Nat, Inv, Done, NEW n \in Node
  PROVE  comp[n] \in DOMAIN components /\ n \in components[comp[n]]
<1> USE DEF Inv
<1>1. PICK N \in Nat : Node = 1..N /\ root \in 1..(N + 1)
  BY Bounds
<1>2. n < root
  BY <1>1 DEF Done
<1>3. index[n] # 0 /\ ~ onStack[n]
  BY <1>2, NothingOpen DEF RootIs, Done
<1>4. comp[n] # 0
  BY <1>3 DEF Core, Marked
<1> QED BY <1>4 DEF Core, FoundWhole

\* When it is done nothing is missing and nothing else was found.
AllFound == Done => Promise!Out = Promise!Components

LEMMA FoundAll == ASSUME Size \in Nat, Inv PROVE AllFound
<1> USE DEF Inv
<1> SUFFICES ASSUME Done PROVE Promise!Out = Promise!Components
  BY DEF AllFound
<1>1. Promise!Components = {Scc(n) : n \in Node}
  BY ComponentsAre
<1>2. ASSUME NEW i \in DOMAIN components PROVE components[i] \in {Scc(n) : n \in Node}
  BY DEF Core, FoundWhole
<1>3. ASSUME NEW n \in Node PROVE \E i \in DOMAIN components : components[i] = Scc(n)
  <2>1. comp[n] \in DOMAIN components /\ n \in components[comp[n]]
    BY DoneIsAll
  <2>2. PICK h \in Node : components[comp[n]] = Scc(h)
    BY <2>1 DEF Core, FoundWhole
  <2>3. Scc(n) = components[comp[n]]
    BY <2>1, <2>2, SccOfMember
  <2> QED BY <2>1, <2>3
<1> QED BY <1>1, <1>2, <1>3 DEF Promise!Out

\* When stronglyConnected returns, what it has emitted is the set of the graph's
\* strongly connected components: none is missing, and nothing else is there.
THEOREM NothingMissing == ASSUME Size \in Nat PROVE Spec => []AllFound
<1>1. Inv => AllFound
  BY FoundAll
<1> QED BY <1>1, AlwaysInv, PTL

LEMMA LayersHold == ASSUME Size \in Nat, Inv PROVE LayersOrder
<1> USE DEF Inv
<1> SUFFICES ASSUME Done, NEW n \in Node
             PROVE  /\ \A m \in adj[n] : m \in components[comp[n]] \/ Layer[m] < Layer[n]
                    /\ Layer[n] > 0 => \E k \in components[comp[n]] : \E m \in adj[k] :
                                         Layer[m] + 1 = Layer[n]
  BY DEF LayersOrder
<1> DEFINE c == comp[n]
<1>1. Shaped /\ c \in DOMAIN components /\ n \in components[c] /\ components[c] \subseteq Node
  <2>1. Shaped /\ c \in DOMAIN components /\ n \in components[c]
    BY DoneIsAll DEF Core
  <2>2. components \in Seq(SUBSET Node)
    BY <2>1 DEF Shaped
  <2> QED BY <2>1, <2>2
<1>2. \A m \in Node : Layer[m] = LayerOf[comp[m]] /\ comp[m] \in Nat
  BY <1>1 DEF Layer, Shaped
<1>3. /\ LayerOf \in [Nat -> Nat] /\ LayerOf[c] = Max(Heights(LayerOf, c))
      /\ LayerOf[c] \in Heights(LayerOf, c)
      /\ \A h \in Heights(LayerOf, c) : LayerOf[c] >= h
  BY <1>1, LayerOfIs, HeightsHaveMax
<1>4. ASSUME NEW m \in adj[n] PROVE m \in components[c] \/ Layer[m] < Layer[n]
  <2>1. m \in Node /\ comp[m] <= c
    <3>1. m \in Node
      BY <1>1 DEF Shaped, IsGraph, Node
    <3>2. c # 0
      <4>1. components \in Seq(SUBSET Node)
        BY <1>1 DEF Shaped
      <4> QED BY <1>1, <4>1
    <3> QED BY <3>1, <3>2 DEF Core, FoundWhole
  <2>2. CASE comp[m] = c
    BY <1>1, <2>1, <2>2 DEF Core, FoundWhole
  <2>3. CASE comp[m] # c
    <3>1. comp[m] \in Needs(c)
      <4>1. comp[m] < c
        BY <1>2, <2>1, <2>3
      <4> QED BY <1>1, <2>3, <4>1 DEF Needs, CompOut
    <3>2. LayerOf[comp[m]] + 1 \in Heights(LayerOf, c)
      BY <3>1 DEF Heights
    <3>3. LayerOf[c] >= LayerOf[comp[m]] + 1 /\ LayerOf[c] \in Nat /\ LayerOf[comp[m]] \in Nat
      BY <1>2, <1>3, <2>1, <3>2
    <3> QED BY <1>2, <2>1, <3>3
  <2> QED BY <2>2, <2>3
<1>5. ASSUME Layer[n] > 0
      PROVE  \E k \in components[c] : \E m \in adj[k] : Layer[m] + 1 = Layer[n]
  <2>1. PICK d \in Needs(c) : LayerOf[c] = LayerOf[d] + 1
    <3>1. LayerOf[c] # 0
      <4>1. Layer[n] = LayerOf[c]
        BY <1>2
      <4>2. ~ (0 > 0)
        OBVIOUS
      <4> QED BY <1>5, <4>1, <4>2
    <3>2. LayerOf[c] \in {0} \cup {LayerOf[d] + 1 : d \in Needs(c)}
      BY <1>3 DEF Heights
    <3> HIDE DEF c
    <3> QED BY <3>1, <3>2
  <2>2. PICK k \in components[c] : \E m \in adj[k] : d = comp[m]
    BY <2>1 DEF Needs, CompOut
  <2>3. PICK m \in adj[k] : d = comp[m]
    BY <2>2
  <2>4. m \in Node
    BY <1>1 DEF Shaped, IsGraph, Node
  <2> QED BY <1>2, <2>1, <2>3, <2>4
<1> QED BY <1>4, <1>5

\* Once the graph is done, a service is above all it depends on outside its own
\* component and, unless it is on layer 0, exactly one above one of them: the
\* layer assignLayers gives it is its longest chain of dependencies.
THEOREM LayersInOrder == ASSUME Size \in Nat PROVE Spec => []LayersOrder
<1>1. Inv => LayersOrder
  BY LayersHold
<1> QED BY <1>1, AlwaysInv, PTL

\* The order over whole chains: what a service depends on through others.
ChainsDescend ==
  Done => \A n \in Node : \A m \in Promise!Reached[n] :
            m \in components[comp[n]] \/ Layer[m] < Layer[n]

LEMMA ChainsHold == ASSUME Size \in Nat, Inv PROVE ChainsDescend
<1> USE DEF Inv
<1> SUFFICES ASSUME Done, NEW n \in Node, NEW m \in Promise!Reached[n]
             PROVE  m \in components[comp[n]] \/ Layer[m] < Layer[n]
  BY DEF ChainsDescend
<1>1. m \in Reaches(adj, n)
  <2>1. PICK N \in Nat : Node = 1..N
    BY Bounds
  <2> QED BY <2>1, ReachedIs, Bounds
<1>2. \A k \in Node : /\ comp[k] \in DOMAIN components /\ k \in components[comp[k]]
                      /\ \A i \in DOMAIN components : k \in components[i] <=> comp[k] = i
  BY DoneIsAll DEF Core, FoundWhole
<1>3. \A k \in Node : Layer[k] = LayerOf[comp[k]] /\ Layer[k] \in Nat
  BY LayerOfIs DEF Layer, Core, Shaped
<1> DEFINE Under == {k \in Node : comp[k] = comp[n] \/ Layer[k] < Layer[n]}
<1>4. Closed(adj, Under)
  <2> SUFFICES ASSUME NEW k \in Under, NEW t \in adj[k] PROVE t \in Under
    BY DEF Closed
  <2>1. k \in Node /\ t \in Node
    BY DEF Core, Shaped, IsGraph, Node
  <2>2. t \in components[comp[k]] \/ Layer[t] < Layer[k]
    BY <2>1, LayersHold DEF LayersOrder
  <2>3. comp[t] = comp[k] \/ Layer[t] < Layer[k]
    BY <1>2, <2>1, <2>2
  <2>4. /\ Layer[t] \in Nat /\ Layer[k] \in Nat /\ Layer[n] \in Nat
        /\ comp[t] = comp[k] => Layer[t] = Layer[k]
        /\ comp[k] = comp[n] => Layer[k] = Layer[n]
    BY <1>3, <2>1
  <2>5. comp[k] = comp[n] \/ Layer[k] < Layer[n]
    OBVIOUS
  <2>6. comp[t] = comp[n] \/ Layer[t] < Layer[n]
    BY <2>3, <2>4, <2>5
  <2> QED BY <2>1, <2>6
<1>5. m \in Under
  <2>1. Under \in SUBSET DOMAIN adj /\ n \in Under /\ n \in DOMAIN adj
    BY DEF Node
  <2> HIDE DEF Under
  <2> QED BY <1>1, <1>4, <2>1, ReachesLeast
<1> QED BY <1>2, <1>5

\* A service is above everything it waits on, through however many others,
\* unless they wait on each other.
THEOREM ChainsInOrder == ASSUME Size \in Nat PROVE Spec => []ChainsDescend
<1>1. Inv => ChainsDescend
  BY ChainsHold
<1> QED BY <1>1, AlwaysInv, PTL
=============================================================================
