--------------------------- MODULE HubLookup_proofs ---------------------------
(***************************************************************************)
(* Proofs about HubLookup, for any number of lookups, any registry and any *)
(* bound: the cache never holds more than MaxEntries answers and never a   *)
(* failure (CacheInv), and what a lookup reports of an image is what       *)
(* Docker Hub itself said of that family, recently enough (HoldInv). The   *)
(* second rests on what pickCandidates makes of a list, which is proved    *)
(* from the definitions of the order of versions and of the ranking.       *)
(***************************************************************************)
EXTENDS HubLookup, Induction, SequenceTheorems, FiniteSetTheorems, TLAPS

-----------------------------------------------------------------------------
(* The cache.                                                              *)
\* No failure is kept, so an outage cannot outlive itself in the cache.
Succeeded(answer) == answer.err = ""
NoFailureKept == \A k \in DOMAIN entries : Succeeded(entries[k].answer)

CacheInv == /\ IsFiniteSet(DOMAIN entries)
            /\ CacheBounded
            /\ NoFailureKept

\* What storing an answer makes of the cache: a full one is cleared first, so
\* there is room for one key more.
LEMMA RoomForOne ==
  ASSUME CacheInv
  PROVE  /\ IsFiniteSet(DOMAIN Room)
         /\ Cardinality(DOMAIN Room) < MaxEntries
         /\ DOMAIN Room \subseteq DOMAIN entries
<1>1. Cardinality(DOMAIN entries) \in Nat
  BY FS_CardinalityType DEF CacheInv
<1>2. CASE Cardinality(DOMAIN entries) >= MaxEntries
  <2>1. DOMAIN Room = {}
    BY <1>2 DEF Room
  <2>2. QED
    BY <2>1, FS_EmptySet, HubAssumption
<1>3. CASE ~(Cardinality(DOMAIN entries) >= MaxEntries)
  <2>1. Room = entries
    BY <1>3 DEF Room
  <2>2. QED
    BY <2>1, <1>1, <1>3, HubAssumption DEF CacheInv
<1>4. QED
  BY <1>2, <1>3

LEMMA OneMoreFits ==
  ASSUME NEW S, IsFiniteSet(S), NEW key, NEW bound \in Nat, Cardinality(S) < bound
  PROVE  IsFiniteSet(S \cup {key}) /\ Cardinality(S \cup {key}) <= bound
<1>1. Cardinality(S) \in Nat
  BY FS_CardinalityType
<1>2. /\ IsFiniteSet(S \cup {key})
      /\ Cardinality(S \cup {key}) = IF key \in S THEN Cardinality(S) ELSE Cardinality(S) + 1
  BY FS_AddElement
<1>3. QED
  BY <1>1, <1>2

LEMMA KeptFits ==
  ASSUME CacheInv, NEW key, NEW answer, NEW at, Succeeded(answer),
         entries' = Kept(key, answer, at)
  PROVE  CacheInv'
<1>1. DOMAIN entries' = DOMAIN Room \cup {key}
  BY DEF Kept
<1>2. /\ IsFiniteSet(DOMAIN Room)
      /\ Cardinality(DOMAIN Room) < MaxEntries
      /\ DOMAIN Room \subseteq DOMAIN entries
  BY RoomForOne
<1>3. /\ IsFiniteSet(DOMAIN Room \cup {key})
      /\ Cardinality(DOMAIN Room \cup {key}) <= MaxEntries
  BY <1>2, OneMoreFits, HubAssumption
<1>4. IsFiniteSet(DOMAIN entries') /\ CacheBounded'
  BY <1>1, <1>3 DEF CacheBounded
<1>5. NoFailureKept'
  <2>1. SUFFICES ASSUME NEW k \in DOMAIN entries'
                 PROVE  Succeeded(entries'[k].answer)
    BY DEF NoFailureKept
  <2>2. CASE k = key
    <3>1. entries'[k] = [answer |-> answer, at |-> at]
      BY <1>1, <2>1, <2>2 DEF Kept
    <3>2. entries'[k].answer = answer
      BY <3>1
    <3>3. QED
      BY <3>2
  <2>3. CASE k # key
    <3>1. k \in DOMAIN entries
      BY <1>1, <1>2, <2>1, <2>3
    <3>2. entries'[k] = entries[k]
      BY <1>1, <2>1, <2>3 DEF Kept
    <3>3. QED
      BY <3>1, <3>2 DEF CacheInv, NoFailureKept
  <2>4. QED
    BY <2>2, <2>3
<1>6. QED
  BY <1>4, <1>5 DEF CacheInv

LEMMA CacheStep ==
  CacheInv /\ [Next]_vars => CacheInv'
<1> SUFFICES ASSUME CacheInv, [Next]_vars
             PROVE  CacheInv'
  OBVIOUS
<1>1. CASE entries' = entries
  BY <1>1 DEF CacheInv, CacheBounded, NoFailureKept
<1>2. CASE \E p \in Askers : Arrive(p)
  <2>1. PICK p \in Askers : Arrive(p)
    BY <1>2
  <2>2. CASE asker[p].call.which \in Searches \/ asker[p].got.err # ""
    BY <2>1, <2>2, <1>1 DEF Arrive, Remembered
  <2>3. CASE ~(asker[p].call.which \in Searches \/ asker[p].got.err # "")
    <3>1. entries' = Kept(KeyOf(asker[p].call), asker[p].got, now)
      BY <2>1, <2>3 DEF Arrive, Remembered
    <3>2. Succeeded(asker[p].got)
      BY <2>3 DEF Succeeded
    <3>3. QED
      BY <3>1, <3>2, KeptFits
  <2>4. QED
    BY <2>2, <2>3
<1>3. CASE UNCHANGED vars
  BY <1>1, <1>3 DEF vars
<1>4. CASE \E p \in Askers : \/ \E q \in Questions : Ask(p, q)
                             \/ Refuse(p) \/ Look(p) \/ LookExact(p) \/ Search(p)
                             \/ Served(p) \/ Fails(p) \/ Cancelled(p)
  <2>1. entries' = entries
    BY <1>4 DEF Ask, Refuse, Look, LookExact, Search, Served, Fails, Cancelled, Answered
  <2>2. QED
    BY <1>1, <2>1
<1>5. CASE Push \/ Tick
  <2>1. entries' = entries
    BY <1>5 DEF Push, Tick
  <2>2. QED
    BY <1>1, <2>1
<1>6. QED
  BY <1>2, <1>3, <1>4, <1>5 DEF Next

LEMMA CacheStarts == Init => CacheInv
<1> SUFFICES ASSUME Init
             PROVE  CacheInv
  OBVIOUS
<1>1. DOMAIN entries = {}
  BY DEF Init
<1>2. QED
  BY <1>1, FS_EmptySet, HubAssumption DEF CacheInv, CacheBounded, NoFailureKept

\* However many lookups miss one key, or a full cache, between the two sections
\* of Cache.Tags under its lock, the cache keeps its bound (lookup.go:564-586).
THEOREM CacheKeepsBound == Spec => []CacheBounded
<1>1. CacheInv => CacheBounded
  BY DEF CacheInv
<1>2. QED
  BY CacheStarts, CacheStep, <1>1, PTL DEF Spec

\* No failure is ever answered from the cache (lookup.go:573: only an answer is
\* remembered), whichever lookup stored what.
THEOREM OutagesAreNotKept == Spec => []NoFailureKept
<1>1. CacheInv => NoFailureKept
  BY DEF CacheInv
<1>2. QED
  BY CacheStarts, CacheStep, <1>1, PTL DEF Spec

-----------------------------------------------------------------------------
(* Versions, and the candidates picked from a list.                        *)
\* Versions are compared component by component, a longer one being higher where
\* they agree.
Below(a, b, k) == /\ k < Len(b) /\ \A i \in 1..k : a[i] = b[i]
                  /\ k = Len(a) \/ a[k + 1] < b[k + 1]

LEMMA LowerIs ==
  ASSUME NEW a \in Seq(Nat), NEW b \in Seq(Nat)
  PROVE  Lower(a, b) <=> \E k \in 0..Len(a) : Below(a, b, k)
<1>1. ASSUME NEW k \in 0..Len(a), k < Len(b)
      PROVE  IsPrefix(SubSeq(a, 1, k), b) <=> \A i \in 1..k : a[i] = b[i]
  <2> DEFINE s == SubSeq(a, 1, k)
             t == SubSeq(b, 1, k)
  <2>0. k \in Nat /\ Len(a) \in Nat /\ Len(b) \in Nat
    OBVIOUS
  <2>1. s \in Seq(Nat) /\ Len(s) = k /\ \A i \in 1..k : s[i] = a[i]
    OBVIOUS
  <2>2. t \in Seq(Nat) /\ Len(t) = k /\ \A i \in 1..k : t[i] = b[i]
    BY <1>1
  <2>3. SubSeq(s, 1, Len(s)) = s
    BY <2>1
  <2>4. IsPrefix(s, b) <=> s = t
    BY <2>0, <2>1, <2>2, <2>3, <1>1 DEF IsPrefix
  <2> HIDE DEF s, t
  <2>5. s = t <=> \A i \in 1..k : s[i] = t[i]
    BY <2>1, <2>2, SeqEqual
  <2> QED BY <2>1, <2>2, <2>4, <2>5 DEF s
<1> QED BY <1>1 DEF Lower, Below

LEMMA LowerOrders ==
  ASSUME NEW a \in Seq(Nat), NEW b \in Seq(Nat), NEW c \in Seq(Nat)
  PROVE  ~Lower(a, a) /\ (Lower(a, b) /\ Lower(b, c) => Lower(a, c))
<1>0. /\ Len(a) \in Nat /\ Len(b) \in Nat /\ Len(c) \in Nat
      /\ \A i \in 1..Len(a) : a[i] \in Nat
      /\ \A i \in 1..Len(b) : b[i] \in Nat
      /\ \A i \in 1..Len(c) : c[i] \in Nat
  OBVIOUS
<1>1. ~Lower(a, a)
  BY <1>0, LowerIs DEF Below
<1>2. ASSUME NEW k \in 0..Len(a), Below(a, b, k), NEW m \in 0..Len(b), Below(b, c, m)
      PROVE  Lower(a, c)
  <2>1. CASE k <= m
    <3>1. Below(a, c, k)
      <4>1. k < Len(c) /\ \A i \in 1..k : a[i] = c[i]
        BY <1>0, <1>2, <2>1 DEF Below
      <4>2. ASSUME k # Len(a) PROVE a[k + 1] < c[k + 1]
        <5>1. /\ k + 1 \in 1..Len(a) /\ k + 1 \in 1..Len(b) /\ k + 1 \in 1..Len(c)
              /\ a[k + 1] < b[k + 1]
          BY <1>0, <1>2, <4>1, <4>2 DEF Below
        <5>2. CASE k = m
          BY <1>0, <1>2, <5>1, <5>2 DEF Below
        <5>3. CASE k < m
          <6>1. k + 1 \in 1..m
            BY <5>3
          <6>2. b[k + 1] = c[k + 1]
            BY <1>2, <6>1 DEF Below
          <6> QED BY <5>1, <6>2
        <5> QED BY <2>1, <5>2, <5>3
      <4> QED BY <4>1, <4>2 DEF Below
    <3> QED BY <3>1, LowerIs
  <2>2. CASE m < k
    <3>1. m \in 0..Len(a) /\ m + 1 \in 1..k /\ m + 1 \in 1..Len(a) /\ m < Len(b)
      BY <1>0, <1>2, <2>2 DEF Below
    <3>2. m < Len(c) /\ \A i \in 1..m : a[i] = c[i]
      BY <1>0, <1>2, <2>2 DEF Below
    <3>3. a[m + 1] = b[m + 1] /\ b[m + 1] < c[m + 1]
      BY <1>0, <1>2, <3>1 DEF Below
    <3>4. Below(a, c, m)
      BY <3>2, <3>3 DEF Below
    <3> QED BY <3>1, <3>4, LowerIs
  <2> QED BY <2>1, <2>2
<1>3. ASSUME Lower(a, b), Lower(b, c) PROVE Lower(a, c)
  BY <1>2, <1>3, LowerIs
<1> QED BY <1>1, <1>3

\* No listed tag is six digits of several components: the one place where what
\* the code takes for a date and what a date is differ.
PlainDates(list) == \A name \in Range(list) : IsDateTag(name) = IsDate(name)

\* The order of pickCandidates: the higher version first, then the earlier place.
Over(list, j, i) == \/ Lower(list[i].ver, list[j].ver)
                    \/ list[j].ver = list[i].ver /\ j < i

\* Of a finite set of places in a list one has nothing above it.
LEMMA Topmost ==
  ASSUME NEW list \in Seq(Tags), NEW S, S \subseteq DOMAIN list, S # {}
  PROVE  \E i \in S : \A j \in S : ~Over(list, j, i)
<1> DEFINE Above(i) == {j \in S : Over(list, j, i)}
           U == {Above(i) : i \in S}
<1>1. /\ DOMAIN list = 1..Len(list) /\ Len(list) \in Nat
      /\ \A i \in DOMAIN list : list[i].ver \in Seq(Nat)
  <2>1. DOMAIN list = 1..Len(list) /\ Len(list) \in Nat /\ \A i \in DOMAIN list : list[i] \in Tags
    OBVIOUS
  <2> QED BY <2>1 DEF Tags
<1>2. \A i, j, k \in S : /\ ~Over(list, i, i)
                         /\ Over(list, k, j) /\ Over(list, j, i) => Over(list, k, i)
  <2>1. ASSUME NEW i \in S, NEW j \in S, NEW k \in S, Over(list, k, j), Over(list, j, i)
        PROVE  Over(list, k, i)
    <3>1. list[i].ver \in Seq(Nat) /\ list[j].ver \in Seq(Nat) /\ list[k].ver \in Seq(Nat)
      BY <1>1
    <3>2. Lower(list[i].ver, list[j].ver) /\ Lower(list[j].ver, list[k].ver)
            => Lower(list[i].ver, list[k].ver)
      BY <3>1, LowerOrders
    <3>3. i \in Nat /\ j \in Nat /\ k \in Nat
      BY <1>1
    <3> QED BY <2>1, <3>2, <3>3 DEF Over
  <2>2. ASSUME NEW i \in S PROVE ~Over(list, i, i)
    <3>1. list[i].ver \in Seq(Nat) /\ i \in Nat
      BY <1>1
    <3> QED BY <3>1, LowerOrders DEF Over
  <2> QED BY <2>1, <2>2
<1>3. IsFiniteSet(S)
  <2>1. IsFiniteSet(DOMAIN list)
    BY <1>1, FS_Interval
  <2> QED BY <2>1, FS_Subset
<1>4. U \subseteq FiniteSubsetsOf(S) /\ U # {}
  <2>1. \A i \in S : Above(i) \in SUBSET S
    OBVIOUS
  <2> HIDE DEF Above
  <2>2. \A i \in S : IsFiniteSet(Above(i))
    BY <1>3, <2>1, FS_Subset
  <2> QED BY <2>1, <2>2 DEF FiniteSubsetsOf
<1>5. PICK u \in U : \A v \in U : ~ (<<v, u>> \in StrictSubsetOrdering(S))
  <2> HIDE DEF U
  <2> QED BY <1>4, WFMin, FS_StrictSubsetOrderingWellFounded
<1>6. PICK i \in S : u = Above(i)
  OBVIOUS
<1>7. ASSUME NEW j \in S, Over(list, j, i) PROVE FALSE
  <2>1. Above(j) \subseteq Above(i) /\ j \in Above(i) /\ j \notin Above(j)
    BY <1>2, <1>7
  <2>2. Above(j) \in SUBSET S /\ Above(i) \in SUBSET S
    OBVIOUS
  <2>3. <<Above(j), Above(i)>> \in StrictSubsetOrdering(S)
    <3> HIDE DEF Above
    <3> QED BY <2>1, <2>2 DEF StrictSubsetOrdering
  <2> QED BY <1>5, <1>6, <2>3
<1> QED BY <1>7

\* What may be offered is what the property calls an upgrade.
LEMMA EligibleIs ==
  ASSUME NEW list, PlainDates(list), NEW cur, NEW name \in Range(list)
  PROVE  Eligible(name, cur) <=> name \in Upgrades(list, cur)
<1>1. IsDateTag(name) = IsDate(name)
  BY DEF PlainDates
<1>2. name.ver # <<>> => (IsUnstable(name) <=> Range(name.words) \cap Markers # {})
  BY DEF IsUnstable
<1> QED BY <1>1, <1>2 DEF Eligible, Upgrades

LEMMA Picked ==
  ASSUME NEW list \in Seq(Tags), PlainDates(list), NEW cur,
         NEW offers, offers = PickCandidates(list, cur)
  PROVE  /\ offers = <<>> => Newest(list, cur) = {}
         /\ offers # <<>> => offers[1] \in Newest(list, cur)
<1> DEFINE out  == {i \in DOMAIN list : Eligible(list[i], cur)}
           same == {i \in out : SameShape(list[i], cur)}
           kept == IF same # {} THEN same ELSE out
           Rank(i) == Cardinality({j \in kept : Over(list, j, i)}) + 1
<1>1. offers = [n \in 1..Cardinality(kept) |-> list[CHOOSE i \in kept : Rank(i) = n]]
  BY DEF PickCandidates, Over
<1>2. DOMAIN list = 1..Len(list) /\ Len(list) \in Nat
  OBVIOUS
<1> DEFINE up   == Upgrades(list, cur)
           mine == {name \in up : SameShape(name, cur)}
           of   == IF mine # {} THEN mine ELSE up
<1>3. Newest(list, cur) = {name \in of : \A other \in of : ~Lower(name.ver, other.ver)}
  BY DEF Newest
<1>4. up = {list[i] : i \in out}
  <2>1. \A i \in DOMAIN list : list[i] \in Range(list)
    BY DEF Range
  <2>2. \A name \in up : \E i \in DOMAIN list : name = list[i]
    BY DEF Upgrades, Range
  <2>3. \A name \in up : name \in Range(list)
    BY DEF Upgrades
  <2> HIDE DEF up
  <2>4. \A i \in DOMAIN list : Eligible(list[i], cur) <=> list[i] \in up
    BY <2>1, EligibleIs DEF up
  <2> QED BY <2>2, <2>4
<1> HIDE DEF up
<1>5. mine = {list[i] : i \in same}
  BY <1>4
<1>6. of = {list[i] : i \in kept}
  <2>1. mine # {} <=> same # {}
    BY <1>5
  <2> HIDE DEF mine, same, out
  <2> QED BY <1>4, <1>5, <2>1
<1>7. kept \subseteq DOMAIN list
  OBVIOUS
<1> HIDE DEF of, kept
<1>8. IsFiniteSet(kept)
  <2>1. IsFiniteSet(DOMAIN list)
    BY <1>2, FS_Interval
  <2> QED BY <1>7, <2>1, FS_Subset
<1>9. CASE kept = {}
  <2>1. of = {}
    BY <1>6, <1>9
  <2>2. Cardinality(kept) = 0
    BY <1>9, FS_EmptySet
  <2>3. offers = <<>>
    <3> HIDE DEF Rank
    <3> QED BY <1>1, <2>2
  <2> QED BY <1>3, <2>1, <2>3
<1>10. CASE kept # {}
  <2>1. Cardinality(kept) \in Nat /\ Cardinality(kept) # 0
    BY <1>8, <1>10, FS_CardinalityType, FS_EmptySet
  <2>2. \E i \in kept : Rank(i) = 1
    <3>1. PICK i \in kept : \A j \in kept : ~Over(list, j, i)
      BY <1>7, <1>10, Topmost
    <3>2. {j \in kept : Over(list, j, i)} = {}
      BY <3>1
    <3>3. Rank(i) = 1
      <4>1. Cardinality({j \in kept : Over(list, j, i)}) = 0
        BY <3>2, FS_EmptySet
      <4> QED BY <4>1
    <3> QED BY <3>3
  <2> DEFINE first == CHOOSE i \in kept : Rank(i) = 1
  <2>3. first \in kept /\ Rank(first) = 1
    <3> HIDE DEF Rank
    <3> QED BY <2>2
  <2>4. offers[1] = list[first] /\ offers # <<>>
    <3> HIDE DEF Rank
    <3> QED BY <1>1, <2>1
  <2> HIDE DEF first
  <2>5. {j \in kept : Over(list, j, first)} = {}
    <3> DEFINE A == {j \in kept : Over(list, j, first)}
    <3>1. IsFiniteSet(A)
      <4>1. A \subseteq kept
        OBVIOUS
      <4> HIDE DEF A
      <4> QED BY <1>8, <4>1, FS_Subset
    <3>2. Cardinality(A) \in Nat /\ Cardinality(A) + 1 = 1
      <4>1. Cardinality(A) \in Nat
        <5> HIDE DEF A
        <5> QED BY <3>1, FS_CardinalityType
      <4> QED BY <2>3, <4>1
    <3>3. Cardinality(A) = 0
      <4> HIDE DEF A
      <4> QED BY <3>2
    <3> HIDE DEF A
    <3>4. A = {}
      BY <3>1, <3>3, FS_EmptySet
    <3> QED BY <3>4 DEF A
  <2>6. \A j \in kept : ~Lower(list[first].ver, list[j].ver)
    BY <2>5 DEF Over
  <2>7. list[first] \in Newest(list, cur)
    BY <1>3, <1>6, <2>3, <2>6
  <2> QED BY <2>4, <2>7
<1> QED BY <1>9, <1>10

-----------------------------------------------------------------------------
(* What Docker Hub answers with.                                           *)
\* The same of everything Docker Hub lists: what is offered is a matter of the
\* name alone. lookup_six_digits.cfg is about a registry where it does not hold.
OneNumberDates ==
  \A hub \in Range(Releases) : \A repo \in DOMAIN hub : PlainDates(hub[repo])

ListGood(list) == list \in Seq(Tags) /\ PlainDates(list)

\* The fold that picks the matching tags, as it unwinds.
MatchFold(tags, part, g) ==
  g = [s \in SUBSET (DOMAIN tags) |->
         IF s = {} THEN <<>>
         ELSE IF NameHas(tags[Max(s)], part) THEN Append(g[s \ {Max(s)}], tags[Max(s)])
              ELSE g[s \ {Max(s)}]]

LEMMA MatchingIs ==
  ASSUME NEW tags, NEW part
  PROVE  Matching(tags, part) = (CHOOSE g : MatchFold(tags, part, g))[DOMAIN tags]
BY DEF Matching, FoldLeft, MapThenFoldSet, MatchFold

\* A page lists nothing but tags of the repository.
LEMMA MatchingLists ==
  ASSUME NEW tags \in Seq(Tags), NEW part
  PROVE  Matching(tags, part) \in Seq(Range(tags))
<1> DEFINE n == Len(tags)
           A == Seq(Range(tags))
           Step(l, t) == IF NameHas(t, part) THEN Append(l, t) ELSE l
           T == [p \in A \X (1..n) |-> Step(p[1], tags[p[2]])]
<1>1. n \in Nat /\ DOMAIN tags = 1..n /\ \A i \in 1..n : tags[i] \in Range(tags)
  BY DEF Range
<1>2. <<>> \in A /\ \A l \in A, i \in 1..n : Step(l, tags[i]) \in A
  BY <1>1
<1> HIDE DEF n, A, Step
<1>3. T \in [A \X (1..n) -> A]
  BY <1>2
<1>4. PICK g \in [SUBSET (1..n) -> A] : Folds(g, n, <<>>, T)
  <2> HIDE DEF T
  <2> QED BY <1>1, <1>2, <1>3, FoldExists
<1>5. ASSUME NEW s \in SUBSET (1..n), s # {}
      PROVE  T[<<g[s \ {Max(s)}], Max(s)>>] = Step(g[s \ {Max(s)}], tags[Max(s)])
  <2>1. Max(s) \in 1..n /\ s \ {Max(s)} \in SUBSET (1..n)
    BY <1>1, <1>5, MaxIsGreatest
  <2>2. <<g[s \ {Max(s)}], Max(s)>> \in A \X (1..n)
    BY <2>1
  <2> QED BY <2>2
<1>6. MatchFold(tags, part, g)
  <2> HIDE DEF T
  <2> QED BY <1>1, <1>4, <1>5 DEF Folds, MatchFold, Step
<1> DEFINE f == CHOOSE h : MatchFold(tags, part, h)
<1>7. MatchFold(tags, part, f)
  BY <1>6
<1> HIDE DEF f
<1> DEFINE K == {k \in Nat : k <= n => f[1..k] \in A}
<1>8. 0 \in K
  <2>1. 1..0 = {} /\ {} \in SUBSET (DOMAIN tags)
    OBVIOUS
  <2> QED BY <1>2, <1>7, <2>1 DEF MatchFold
<1>9. ASSUME NEW k \in Nat, k \in K PROVE k + 1 \in K
  <2> SUFFICES ASSUME k + 1 <= n PROVE f[1..(k + 1)] \in A
    OBVIOUS
  <2> HIDE DEF T
  <2>1. k + 1 \in 1..(k + 1) /\ k + 1 \in 1..n /\ 1..(k + 1) \subseteq 1..n
    BY <1>1
  <2>2. 1..(k + 1) # {} /\ 1..(k + 1) \in SUBSET (DOMAIN tags)
    BY <1>1, <2>1
  <2>3. Max(1..(k + 1)) = k + 1 /\ (1..(k + 1)) \ {k + 1} = 1..k
    BY MaxOfPrefix
  <2> DEFINE m == Max(1..(k + 1))
  <2>4. f[1..(k + 1)] = Step(f[(1..(k + 1)) \ {m}], tags[m])
    BY <1>7, <2>2 DEF MatchFold, Step
  <2>5. f[1..(k + 1)] = Step(f[1..k], tags[k + 1])
    BY <2>3, <2>4
  <2> QED BY <1>1, <1>2, <1>9, <2>1, <2>5
<1>10. n \in K
  <2> HIDE DEF K
  <2> QED BY <1>1, <1>8, <1>9, NatSet
<1>11. f[DOMAIN tags] \in A
  BY <1>1, <1>10
<1> HIDE DEF K
<1> QED BY <1>11, MatchingIs DEF f, A

LEMMA HubAnswersGood ==
  ASSUME OneNumberDates, NEW hub \in Range(Releases), NEW call, call.which \notin Searches,
         NEW answer, answer = HubAnswers(hub, call)
  PROVE  answer.err \in {"", "not-found"} /\ (answer.err = "" => ListGood(answer.list))
<1>1. CASE call.repo \notin DOMAIN hub
  BY <1>1 DEF HubAnswers, Answer
<1>2. CASE call.repo \in DOMAIN hub
  <2> DEFINE tags == hub[call.repo]
             all == Matching(tags, call.part)
             m == IF Len(all) < Page THEN Len(all) ELSE Page
             page == SubSeq(all, 1, m)
  <2>1. answer.err = "" /\ answer.list = page
    BY <1>2 DEF HubAnswers, Answer
  <2>2. tags \in Seq(Tags) /\ PlainDates(tags)
    BY <1>2, HubAssumption DEF OneNumberDates
  <2> HIDE DEF tags
  <2>3. all \in Seq(Range(tags))
    BY <2>2, MatchingLists
  <2> HIDE DEF all
  <2>4. m \in Nat /\ m <= Len(all)
    BY <2>3, HubAssumption
  <2> HIDE DEF m
  <2>5. page \in Seq(Range(tags)) /\ Range(page) \subseteq Range(tags)
    <3>1. \A i \in 1..m : all[i] \in Range(tags)
      BY <2>3, <2>4
    <3>2. page \in Seq(Range(tags))
      BY <2>4, <3>1, SubSeqProperties
    <3> HIDE DEF page
    <3> QED BY <3>2 DEF Range
  <2>6. Range(tags) \subseteq Tags
    BY <2>2 DEF Range
  <2> HIDE DEF page
  <2>7. page \in Seq(Tags)
    BY <2>5, <2>6, SeqMonotonic
  <2>8. PlainDates(page)
    BY <2>2, <2>5 DEF PlainDates
  <2> QED BY <2>1, <2>7, <2>8 DEF ListGood
<1> QED BY <1>1, <1>2

-----------------------------------------------------------------------------
(* What a lookup stands on.                                                *)
\* What Docker Hub was heard to say of a family.
Saying(s, subject, list) ==
  /\ s.about = subject /\ s.answer.err = "" /\ s.answer.list = list
  /\ ListGood(list) /\ s.at \in Nat

\* Said recently enough for a lookup that began at this time.
Recent(s, began) == s.at \in Nat /\ began - s.at < TTL + Timeout

Heard(sd, subject, list, began) ==
  \E s \in sd : Saying(s, subject, list) /\ Recent(s, began)

\* A report is what one recent answer comes to.
Supports(s, r, began) ==
  /\ s.about = Subject(FamilyCall(r.ref)) /\ s.answer.err = ""
  /\ Recent(s, began) /\ r.at - s.at < TTL + 2 * Timeout
  /\ IF r.state = "current" THEN Newest(s.answer.list, r.ref.name) = {}
     ELSE r.offers[1] \in Newest(s.answer.list, r.ref.name)

ReportGood(r, sd, began) ==
  /\ r.state \in {"ok", "current"} /\ r.ref.kind = "image" => \E s \in sd : Supports(s, r, began)
  /\ r.state \in {"offline", "rate-limited", "cancelled"} => r.state \in r.lost

\* The call a lookup is at is about the stage it is at, and a second request
\* for one tag has the family's list behind it.
CallGood(a, sd) ==
  \/ a.call.which \in Searches /\ Head(a.todo).kind # "image"
  \/ a.call = FamilyCall(Head(a.todo))
  \/ /\ a.call = ExactCall(Head(a.todo))
     /\ Heard(sd, Subject(FamilyCall(Head(a.todo))), a.list, a.began)

\* An answer that came back is what was said while the lookup ran.
Errors == {"", "not-found", "offline", "rate-limited", "cancelled"}

GotGood(a, sd) ==
  /\ a.got.err \in Errors
  /\ a.got.err # "" => a.got.err \in a.lost
  /\ AboutFamily(a.call) /\ a.got.err = "" =>
       \E s \in sd : Saying(s, Subject(a.call), a.got.list) /\ a.began <= s.at

IsCall(c) == c = [repo |-> c.repo, part |-> c.part, which |-> c.which]
IsAsker(a) ==
  a = [todo |-> a.todo, at |-> a.at, call |-> a.call, got |-> a.got, lost |-> a.lost,
       list |-> a.list, began |-> a.began, reports |-> a.reports]

\* Its reports are good ones.
Steady(a, sd) ==
  /\ IsAsker(a) /\ IsCall(a.call) /\ a.began \in Nat
  /\ a.reports \in Seq(Range(a.reports))
  /\ \A r \in Range(a.reports) : ReportGood(r, sd, a.began)

AskerGood(a, sd) ==
  /\ Steady(a, sd)
  /\ a.at # "next" => a.todo # <<>> /\ CallGood(a, sd)
  /\ a.at = "cache" => a.call.which = "exact"
  /\ a.at = "back" => GotGood(a, sd)

\* No lookup outlives its deadline.
InTime(a, t) == /\ a.began \in Nat /\ a.began <= t
                /\ a.todo # <<>> => t - a.began <= Timeout

\* What is kept under a family's key was said of that family, a request's time
\* before it was kept at most.
Backed(k, e, sd) ==
  \E s \in sd : /\ Saying(s, [repo |-> k[1], part |-> k[2]], e.answer.list)
                /\ e.at - s.at <= Timeout

EntryGood(k, e, sd, t) ==
  /\ e.at \in Nat /\ e.at <= t /\ e.answer.err = ""
  /\ k[2].ver = <<>> /\ t - e.at < TTL => Backed(k, e, sd)

EntriesGood(e, sd, t) == \A k \in DOMAIN e : EntryGood(k, e[k], sd, t)

\* The strengthening of AnswersHold that every step keeps: it adds to the reports
\* what they will be made from, the answers on their way and the entries kept,
\* each with the time it was said at.
HoldInv ==
  /\ now \in Nat /\ release \in 1..Len(Releases)
  /\ asker = [p \in Askers |-> asker[p]]
  /\ \A p \in Askers : AskerGood(asker[p], said) /\ InTime(asker[p], now)
  /\ EntriesGood(entries, said, now)

\* What a lookup stands on may be among more that was said, and what was said too
\* long ago for it may be forgotten.
LEMMA StillHeard ==
  ASSUME NEW sd, NEW sd2, NEW a, AskerGood(a, sd),
         \A s \in sd : Recent(s, a.began) => s \in sd2
  PROVE  AskerGood(a, sd2)
<1>1. \A r \in Range(a.reports) : ReportGood(r, sd2, a.began)
  BY DEF AskerGood, Steady, ReportGood, Supports
<1>2. CallGood(a, sd) => CallGood(a, sd2)
  BY DEF CallGood, Heard
<1>3. GotGood(a, sd) => GotGood(a, sd2)
  <2>1. ASSUME NEW s \in sd, Saying(s, Subject(a.call), a.got.list), a.began <= s.at
        PROVE  Recent(s, a.began)
    <3>1. s.at \in Nat /\ a.began \in Nat
      BY <2>1 DEF Saying, AskerGood, Steady
    <3>2. a.began - s.at <= 0
      BY <2>1, <3>1
    <3> QED BY <3>1, <3>2, HubAssumption DEF Recent
  <2> QED BY <2>1 DEF GotGood
<1> QED BY <1>1, <1>2, <1>3 DEF AskerGood, Steady

LEMMA AppendsOne ==
  ASSUME NEW l, l \in Seq(Range(l)), NEW e, NEW m, m = Append(l, e)
  PROVE  m \in Seq(Range(m)) /\ Range(m) \subseteq Range(l) \cup {e}
<1> DEFINE A == Range(l) \cup {e}
<1>1. l \in Seq(A)
  <2> Range(l) \subseteq A
    OBVIOUS
  <2> HIDE DEF A
  <2> QED BY SeqMonotonic
<1>2. m \in Seq(A)
  <2> e \in A
    OBVIOUS
  <2> HIDE DEF A
  <2> QED BY <1>1
<1> HIDE DEF A
<1>3. m = [i \in 1..Len(m) |-> m[i]] /\ Len(m) \in Nat /\ \A i \in 1..Len(m) : m[i] \in A
  BY <1>2, LenProperties
<1>4. Range(m) = {m[i] : i \in 1..Len(m)}
  BY <1>3 DEF Range
<1>5. m \in Seq(Range(m))
  BY <1>3, <1>4, SeqDef
<1> QED BY <1>3, <1>4, <1>5 DEF A

IsReport(r, a, state) ==
  r.ref = Head(a.todo) /\ r.state = state /\ r.at = now /\ r.lost = a.lost

Has(b, todo, at, call, got, lost, list, began, reports) ==
  b = [todo |-> todo, at |-> at, call |-> call, got |-> got, lost |-> lost,
       list |-> list, began |-> began, reports |-> reports]

LEMMA Retried ==
  ASSUME NEW call, NEW d, d = [call EXCEPT !.which = "legacy"], IsCall(call)
  PROVE  d.which = "legacy" /\ IsCall(d)
BY DEF IsCall

LEMMA ExactIs ==
  ASSUME NEW ref, NEW call, call = ExactCall(ref)
  PROVE  call.which = "exact" /\ IsCall(call)
BY DEF IsCall, ExactCall

\* Every report in these words is a good one.
Fits(a, state, offers, sd) ==
  \A r : IsReport(r, a, state) /\ r.offers = offers => ReportGood(r, sd, a.began)

\* A report is added, and the lookup is at its next stage.
LEMMA Reporting ==
  ASSUME NEW sd, NEW a, Steady(a, sd), InTime(a, now), now \in Nat,
         NEW state, NEW offers, NEW aged, NEW b, b = Reported(a, state, offers, aged),
         Fits(a, state, offers, sd)
  PROVE  a.todo # <<>> => AskerGood(b, sd) /\ InTime(b, now)
<1>0. SUFFICES ASSUME a.todo # <<>>
               PROVE  AskerGood(b, sd) /\ InTime(b, now)
  OBVIOUS
<1> DEFINE r == [ref |-> Head(a.todo), state |-> state, offers |-> offers, aged |-> aged,
                 kind |-> IF offers = <<>> THEN "none"
                          ELSE Classify(Head(a.todo).name.ver, offers[1].ver),
                 at |-> now, lost |-> a.lost]
           todo == Tail(a.todo)
           none == Answer("", <<>>)
           reports == Append(a.reports, r)
<1>1. Has(b, todo, "next", NoCall, none, {}, <<>>, a.began, reports)
  BY DEF Reported, Idle, Has
<1>2. IsReport(r, a, state) /\ r.offers = offers
  BY DEF IsReport
<1> HIDE DEF r, todo, none
<1>3. ReportGood(r, sd, a.began)
  BY <1>2 DEF Fits
<1>4. reports \in Seq(Range(reports)) /\ Range(reports) \subseteq Range(a.reports) \cup {r}
  BY AppendsOne DEF Steady
<1> HIDE DEF reports
<1>5. b.at = "next" /\ b.call = NoCall /\ b.began = a.began /\ b.reports = reports
  BY <1>1 DEF Has
<1>6. IsAsker(b) /\ IsCall(b.call)
  <2>1. IsCall(NoCall)
    BY DEF IsCall, NoCall
  <2> QED BY <1>1, <1>5, <2>1 DEF Has, IsAsker
<1>7. \A x \in Range(b.reports) : ReportGood(x, sd, b.began)
  BY <1>3, <1>5, <1>4 DEF Steady
<1>8. AskerGood(b, sd)
  BY <1>5, <1>6, <1>4, <1>7 DEF AskerGood, Steady
<1>9. InTime(b, now)
  BY <1>0, <1>5 DEF InTime
<1> QED BY <1>8, <1>9

\* A report of no answer to compare with.
LEMMA WithoutList ==
  ASSUME NEW sd, NEW a, Steady(a, sd), InTime(a, now), now \in Nat, a.todo # <<>>,
         NEW state, NEW offers, NEW aged, NEW b, b = Reported(a, state, offers, aged),
         state \in {"ok", "current"} => Head(a.todo).kind # "image",
         state \in {"offline", "rate-limited", "cancelled"} => state \in a.lost
  PROVE  AskerGood(b, sd) /\ InTime(b, now)
<1>1. ASSUME NEW r, IsReport(r, a, state) PROVE ReportGood(r, sd, a.began)
  BY <1>1 DEF IsReport, ReportGood
<1>2. Fits(a, state, offers, sd)
  BY <1>1 DEF Fits
<1> QED BY <1>2, Reporting

\* The end of a lookup: what is reported is what the list behind it comes to.
LEMMA Concluding ==
  ASSUME NEW sd, NEW a, Steady(a, sd), InTime(a, now), now \in Nat, a.todo # <<>>,
         NEW list, NEW aged, NEW b, b = Concluded(a, list, aged),
         Heard(sd, Subject(FamilyCall(Head(a.todo))), list, a.began)
  PROVE  AskerGood(b, sd) /\ InTime(b, now)
<1> DEFINE offers == PickCandidates(list, Head(a.todo).name)
           state == IF offers = <<>> THEN "current" ELSE "ok"
<1>1. b = Reported(a, state, offers, aged)
  BY DEF Concluded
<1>2. PICK s \in sd : Saying(s, Subject(FamilyCall(Head(a.todo))), list) /\ Recent(s, a.began)
  BY DEF Heard
<1>3. /\ offers = <<>> => Newest(list, Head(a.todo).name) = {}
      /\ offers # <<>> => offers[1] \in Newest(list, Head(a.todo).name)
  <2>1. list \in Seq(Tags) /\ PlainDates(list)
    BY <1>2 DEF Saying, ListGood
  <2> QED BY <2>1, Picked
<1> HIDE DEF offers
<1>4. state \in {"ok", "current"} /\ (state = "current" <=> offers = <<>>)
  OBVIOUS
<1>5. now - s.at < TTL + 2 * Timeout
  <2>1. /\ a.began - s.at < TTL + Timeout /\ now - a.began <= Timeout
        /\ a.began \in Nat /\ s.at \in Nat
    BY <1>2 DEF Recent, InTime
  <2> QED BY <2>1, HubAssumption
<1> HIDE DEF state
<1>6. ASSUME NEW r, IsReport(r, a, state), r.offers = offers
      PROVE  ReportGood(r, sd, a.began)
  <2>1. Supports(s, r, a.began)
    BY <1>2, <1>3, <1>4, <1>5, <1>6 DEF Supports, Saying, IsReport
  <2>2. r.state \in {"ok", "current"}
    BY <1>4, <1>6 DEF IsReport
  <2> QED BY <2>1, <2>2 DEF ReportGood
<1>7. Fits(a, state, offers, sd)
  BY <1>6 DEF Fits
<1> QED BY <1>1, <1>7, Reporting

\* What Took comes to where it does not report.
LEMMA TookListed ==
  ASSUME NEW a, NEW answer, a.call.which = "family", answer.err = "",
         Head(a.todo).name \in Range(answer.list)
  PROVE  Took(a, answer) = Concluded(a, answer.list, TRUE)
BY DEF Took, Searches

AsksOne(b, a, answer) ==
  /\ b.todo = a.todo /\ b.at = "cache" /\ b.call = ExactCall(Head(a.todo))
  /\ b.list = answer.list /\ b.began = a.began /\ b.reports = a.reports
  /\ IsAsker(b)

LEMMA TookOneMore ==
  ASSUME NEW a, IsAsker(a), NEW answer, NEW b, b = Took(a, answer)
  PROVE  a.call.which = "family" /\ answer.err = "" /\ ~(Head(a.todo).name \in Range(answer.list))
           => AsksOne(b, a, answer)
<1>0. SUFFICES ASSUME a.call.which = "family" /\ answer.err = "",
                      ~(Head(a.todo).name \in Range(answer.list))
               PROVE  AsksOne(b, a, answer)
  OBVIOUS
<1> DEFINE call == ExactCall(Head(a.todo))
           got == Answer("", <<>>)
           list == answer.list
<1>1. b = [a EXCEPT !.at = "cache", !.call = call, !.got = got, !.list = list]
  BY <1>0 DEF Took, Searches
<1> HIDE DEF call, got, list
<1>2. Has(b, a.todo, "cache", call, got, a.lost, list, a.began, a.reports)
  BY <1>1 DEF IsAsker, Has
<1>3. /\ b.todo = a.todo /\ b.at = "cache" /\ b.call = call
      /\ b.list = list /\ b.began = a.began /\ b.reports = a.reports
      /\ IsAsker(b)
  BY <1>2 DEF Has, IsAsker
<1> QED BY <1>3 DEF call, list, AsksOne

LEMMA TookAgain ==
  ASSUME NEW a, IsAsker(a), IsCall(a.call), NEW answer, NEW b, b = Took(a, answer)
  PROVE  a.call.which = "v4" /\ answer.err # ""
           => /\ b.todo = a.todo /\ b.at = "sent" /\ b.call.which = "legacy" /\ IsCall(b.call)
              /\ b.began = a.began /\ b.reports = a.reports /\ IsAsker(b)
<1>0. SUFFICES ASSUME a.call.which = "v4" /\ answer.err # ""
               PROVE  /\ b.todo = a.todo /\ b.at = "sent" /\ b.call.which = "legacy"
                      /\ IsCall(b.call)
                      /\ b.began = a.began /\ b.reports = a.reports /\ IsAsker(b)
  OBVIOUS
<1> DEFINE call == [a.call EXCEPT !.which = "legacy"]
           got == Answer("", <<>>)
<1>1. b = [a EXCEPT !.at = "sent", !.call = call, !.got = got]
  BY <1>0 DEF Took, Searches
<1>2. call.which = "legacy" /\ IsCall(call)
  BY Retried
<1> HIDE DEF call, got
<1>3. Has(b, a.todo, "sent", call, got, a.lost, a.list, a.began, a.reports)
  BY <1>1 DEF IsAsker, Has
<1>4. /\ b.todo = a.todo /\ b.at = "sent" /\ b.call = call
      /\ b.began = a.began /\ b.reports = a.reports /\ IsAsker(b)
  BY <1>3 DEF Has, IsAsker
<1> QED BY <1>2, <1>4

\* An answer a lookup may go on from: its failure is the lookup's own, its list
\* was heard.
Grounded(a, answer, sd) ==
  /\ answer.err \in Errors
  /\ answer.err # "" => answer.err \in a.lost
  /\ a.call.which = "family" /\ answer.err = "" =>
       Heard(sd, Subject(a.call), answer.list, a.began)

\* What a lookup makes of an answer, whether it asked for it or found it kept.
LEMMA Taking ==
  ASSUME NEW sd, NEW a, Steady(a, sd), InTime(a, now), now \in Nat, a.todo # <<>>,
         CallGood(a, sd), NEW answer, NEW b, b = Took(a, answer), Grounded(a, answer, sd)
  PROVE  AskerGood(b, sd) /\ InTime(b, now)
<1> DEFINE listed == Head(a.todo).name \in Range(answer.list)
<1>1. /\ a.call.which = "family" => a.call = FamilyCall(Head(a.todo))
      /\ a.call.which = "exact" => Heard(sd, Subject(FamilyCall(Head(a.todo))), a.list, a.began)
      /\ a.call.which \in Searches => Head(a.todo).kind # "image"
      /\ a.call.which \in {"family", "exact", "v4", "legacy"}
  <2>1. /\ FamilyCall(Head(a.todo)).which = "family" /\ ExactCall(Head(a.todo)).which = "exact"
        /\ "family" \notin Searches /\ "exact" \notin Searches
    BY DEF FamilyCall, ExactCall, Searches
  <2> QED BY <2>1 DEF CallGood, Searches
<1>2. CASE a.call.which \in {"family", "legacy"} /\ answer.err # ""
  <2> DEFINE state == answer.err
  <2>1. b = Reported(a, state, <<>>, FALSE)
    BY <1>2 DEF Took
  <2>2. state \in a.lost /\ state # ""
    BY <1>2 DEF Grounded
  <2>3. state \notin {"ok", "current"}
    BY DEF Grounded, Errors
  <2> HIDE DEF state
  <2> QED BY <2>1, <2>2, <2>3, WithoutList
<1>0. IsAsker(a) /\ IsCall(a.call)
  BY DEF Steady
<1>3. CASE a.call.which = "family" /\ answer.err = "" /\ ~listed
  <2>0. AsksOne(b, a, answer)
    BY <1>0, <1>3, TookOneMore
  <2>1. /\ b.todo = a.todo /\ b.at = "cache" /\ b.call = ExactCall(Head(a.todo))
        /\ b.list = answer.list /\ b.began = a.began /\ b.reports = a.reports /\ IsAsker(b)
    BY <2>0 DEF AsksOne
  <2>2. b.call.which = "exact" /\ IsCall(b.call)
    BY <2>1, ExactIs
  <2>3. Heard(sd, Subject(FamilyCall(Head(b.todo))), b.list, b.began)
    BY <1>1, <1>3, <2>1 DEF Grounded
  <2>4. CallGood(b, sd)
    BY <2>1, <2>3 DEF CallGood
  <2> QED BY <2>1, <2>2, <2>4 DEF AskerGood, Steady, InTime
<1>4. CASE a.call.which = "family" /\ answer.err = "" /\ listed
  <2>1. b = Concluded(a, answer.list, TRUE)
    BY <1>4, TookListed
  <2> QED BY <1>1, <1>4, <2>1, Concluding DEF Grounded
<1>5. CASE a.call.which = "exact"
  <2>1. b = Concluded(a, a.list, listed)
    BY <1>5 DEF Took, Searches
  <2> QED BY <1>1, <1>5, <2>1, Concluding
<1>6. CASE a.call.which = "v4" /\ answer.err # ""
  <2>1. /\ b.todo = a.todo /\ b.at = "sent" /\ b.call.which = "legacy" /\ IsCall(b.call)
        /\ b.began = a.began /\ b.reports = a.reports /\ IsAsker(b)
    BY <1>0, <1>6, TookAgain
  <2>2. CallGood(b, sd)
    BY <1>1, <1>6, <2>1 DEF CallGood, Searches
  <2> QED BY <2>1, <2>2 DEF AskerGood, Steady, InTime
<1>7. CASE a.call.which \in Searches /\ answer.err = ""
  <2>1. b = Reported(a, IF answer.list = <<>> THEN "not-found" ELSE "ok", <<>>, FALSE)
    BY <1>7 DEF Took, Searches
  <2> QED BY <1>1, <1>7, <2>1, WithoutList
<1> QED BY <1>1, <1>2, <1>3, <1>4, <1>5, <1>6, <1>7 DEF Searches

-----------------------------------------------------------------------------
(* The actions of a lookup.                                                *)
LEMMA TurnOf ==
  ASSUME HoldInv, NEW p \in Askers, NEW a, Turn(p, a)
  PROVE  /\ asker' = [q \in Askers |-> asker'[q]]
         /\ asker'[p] = a /\ \A q \in Askers : q # p => asker'[q] = asker[q]
<1>1. asker = [q \in Askers |-> asker[q]]
  BY DEF HoldInv
<1>2. asker' = [q \in Askers |-> IF q = p THEN a ELSE asker[q]]
  BY <1>1 DEF Turn
<1> QED BY <1>2

LEMMA TurnHolds ==
  ASSUME HoldInv, NEW p \in Askers, NEW a, Turn(p, a), AskerGood(a, said), InTime(a, now),
         UNCHANGED <<now, release, entries, said>>
  PROVE  HoldInv'
BY TurnOf DEF HoldInv

LEMMA AskIs ==
  ASSUME NEW q, NEW t, NEW a, a = [Idle EXCEPT !.todo = q, !.began = t]
  PROVE  Has(a, q, "next", NoCall, Answer("", <<>>), {}, <<>>, t, <<>>)
<1> DEFINE none == Answer("", <<>>)
<1>1. Idle = [todo |-> <<>>, at |-> "next", call |-> NoCall, got |-> none, lost |-> {},
              list |-> <<>>, began |-> 0, reports |-> <<>>]
  BY DEF Idle
<1> HIDE DEF none
<1>2. Has(a, q, "next", NoCall, none, {}, <<>>, t, <<>>)
  BY <1>1 DEF Has
<1> QED BY <1>2 DEF none

LEMMA AskHolds ==
  ASSUME HoldInv, NEW p \in Askers, NEW q, Ask(p, q)
  PROVE  HoldInv'
<1> DEFINE none == Answer("", <<>>)
           a == [Idle EXCEPT !.todo = q, !.began = now]
<1>1. Has(a, q, "next", NoCall, none, {}, <<>>, now, <<>>)
  BY AskIs
<1>2. Turn(p, a) /\ UNCHANGED <<now, release, entries, said>>
  BY DEF Ask
<1> HIDE DEF a, none
<1>3. a.at = "next" /\ a.call = NoCall /\ a.began = now /\ a.reports = <<>> /\ IsAsker(a)
  BY <1>1 DEF Has, IsAsker
<1>4. now \in Nat
  BY DEF HoldInv
<1>5. AskerGood(a, said)
  <2>1. IsCall(a.call)
    BY <1>3 DEF IsCall, NoCall
  <2>2. Range(a.reports) = {} /\ a.reports \in Seq(Range(a.reports))
    BY <1>3 DEF Range
  <2> QED BY <1>3, <1>4, <2>1, <2>2 DEF AskerGood, Steady
<1>6. InTime(a, now)
  BY <1>3, <1>4, HubAssumption DEF InTime
<1> QED BY <1>2, <1>5, <1>6, TurnHolds

LEMMA RefuseHolds ==
  ASSUME HoldInv, NEW p \in Askers, Refuse(p)
  PROVE  HoldInv'
<1> DEFINE state == Refused(Head(asker[p].todo))
           b == Reported(asker[p], state, <<>>, FALSE)
<1>1. PICK a : a = asker[p]
  OBVIOUS
<1>2. Steady(a, said) /\ InTime(a, now) /\ now \in Nat
  BY <1>1 DEF HoldInv, AskerGood
<1>3. Turn(p, b) /\ a.todo # <<>> /\ UNCHANGED <<now, release, entries, said>>
  BY <1>1 DEF Refuse
<1>4. state \notin {"ok", "current", "offline", "rate-limited", "cancelled"}
  <2>1. state \in {"not-comparable", "other-registry", "disabled", ""}
    BY DEF Refused
  <2> QED BY <2>1
<1>5. AskerGood(b, said) /\ InTime(b, now)
  <2> HIDE DEF state
  <2> QED BY <1>1, <1>2, <1>3, <1>4, WithoutList
<1> QED BY <1>3, <1>5, TurnHolds

\* A lookup that consults the cache: what it finds there is fresh enough.
LEMMA Consulting ==
  ASSUME HoldInv, NEW a, Steady(a, said), InTime(a, now), a.todo # <<>>, CallGood(a, said),
         NEW b, b = Consulted(a)
  PROVE  AskerGood(b, said) /\ InTime(b, now)
<1>1. CASE Fresh(a.call)
  <2> DEFINE k == KeyOf(a.call)
             answer == entries[k].answer
  <2>1. b = Took(a, answer) /\ k \in DOMAIN entries /\ now - entries[k].at < TTL
    BY <1>1 DEF Consulted, Fresh
  <2>2. now \in Nat /\ EntryGood(k, entries[k], said, now)
    BY <2>1 DEF HoldInv, EntriesGood
  <2>3. answer.err = ""
    BY <2>2 DEF EntryGood
  <2>4. ASSUME a.call.which = "family"
        PROVE  Heard(said, Subject(a.call), answer.list, a.began)
    <3>1. a.call = FamilyCall(Head(a.todo))
      BY <2>4 DEF CallGood, Searches, ExactCall
    <3>2. k[1] = a.call.repo /\ k[2] = a.call.part
      BY DEF KeyOf
    <3>3. k[2].ver = <<>>
      BY <3>1, <3>2 DEF FamilyCall
    <3>4. PICK s \in said : /\ Saying(s, [repo |-> k[1], part |-> k[2]], answer.list)
                            /\ entries[k].at - s.at <= Timeout
      BY <2>1, <2>2, <3>3 DEF EntryGood, Backed
    <3>5. Saying(s, Subject(a.call), answer.list)
      BY <3>2, <3>4 DEF Subject
    <3>6. Recent(s, a.began)
      <4>1. s.at \in Nat /\ entries[k].at \in Nat /\ a.began \in Nat /\ a.began <= now
        BY <2>2, <3>4 DEF Saying, EntryGood, InTime
      <4> QED BY <2>1, <2>2, <3>4, <4>1, HubAssumption DEF Recent
    <3> QED BY <3>5, <3>6 DEF Heard
  <2> HIDE DEF answer
  <2>5. Grounded(a, answer, said)
    BY <2>3, <2>4 DEF Grounded, Errors
  <2> QED BY <2>1, <2>2, <2>5, Taking
<1>2. CASE ~Fresh(a.call)
  <2>1. b = [a EXCEPT !.at = "sent"]
    BY <1>2 DEF Consulted
  <2>2. Has(b, a.todo, "sent", a.call, a.got, a.lost, a.list, a.began, a.reports)
    BY <2>1 DEF Steady, IsAsker, Has
  <2>3. /\ b.todo = a.todo /\ b.at = "sent" /\ b.call = a.call /\ b.list = a.list
        /\ b.began = a.began /\ b.reports = a.reports /\ IsAsker(b)
    BY <2>2 DEF Has, IsAsker
  <2>4. CallGood(b, said)
    BY <2>3 DEF CallGood
  <2> QED BY <2>3, <2>4 DEF AskerGood, Steady, InTime
<1> QED BY <1>1, <1>2

Aimed(call, ref) == \/ call = FamilyCall(ref)
                    \/ call.which \in Searches /\ ref.kind # "image"

\* A lookup about to make a call of its stage.
CallingAt(p, call, at) == [Calling(p, call) EXCEPT !.at = at]

LEMMA Called ==
  ASSUME HoldInv, NEW p \in Askers, Begun(p), NEW call, IsCall(call),
         Aimed(call, Head(asker[p].todo)), NEW at, NEW b
  PROVE  b = CallingAt(p, call, at)
           => /\ Steady(b, said) /\ InTime(b, now) /\ b.todo # <<>> /\ CallGood(b, said)
              /\ b.at = at
<1>0. SUFFICES ASSUME b = CallingAt(p, call, at)
               PROVE  /\ Steady(b, said) /\ InTime(b, now) /\ b.todo # <<>>
                      /\ CallGood(b, said) /\ b.at = at
  OBVIOUS
<1>1. PICK a : a = asker[p]
  OBVIOUS
<1>2. Steady(a, said) /\ InTime(a, now) /\ a.todo # <<>>
  BY <1>1 DEF HoldInv, AskerGood, Begun
<1>3. b = [a EXCEPT !.call = call, !.at = at]
  <2>1. b = [[a EXCEPT !.call = call, !.at = "cache"] EXCEPT !.at = at]
    BY <1>0, <1>1 DEF CallingAt, Calling
  <2> QED BY <1>2, <2>1 DEF Steady, IsAsker
<1>4. Has(b, a.todo, at, call, a.got, a.lost, a.list, a.began, a.reports)
  BY <1>2, <1>3 DEF Steady, IsAsker, Has
<1>5. /\ b.todo = a.todo /\ b.at = at /\ b.call = call
      /\ b.began = a.began /\ b.reports = a.reports /\ IsAsker(b)
  BY <1>4 DEF Has, IsAsker
<1>6. CallGood(b, said)
  BY <1>1, <1>5 DEF CallGood, Aimed
<1> QED BY <1>2, <1>5, <1>6 DEF Steady, InTime

LEMMA LookHolds ==
  ASSUME HoldInv, NEW p \in Askers, Look(p)
  PROVE  HoldInv'
<1> DEFINE call == FamilyCall(Head(asker[p].todo))
           a == Calling(p, call)
<1>1. Begun(p) /\ Turn(p, Consulted(a)) /\ UNCHANGED <<now, release, entries, said>>
  BY DEF Look
<1>2. a = CallingAt(p, call, "cache")
  BY DEF Calling, CallingAt
<1>3. IsCall(call)
  BY DEF FamilyCall, IsCall
<1>6. Aimed(call, Head(asker[p].todo))
  BY DEF Aimed
<1> HIDE DEF a, call
<1>4. Steady(a, said) /\ InTime(a, now) /\ a.todo # <<>> /\ CallGood(a, said)
  BY <1>1, <1>2, <1>3, <1>6, Called
<1>5. AskerGood(Consulted(a), said) /\ InTime(Consulted(a), now)
  BY <1>4, Consulting
<1> QED BY <1>1, <1>5, TurnHolds

LEMMA LookExactHolds ==
  ASSUME HoldInv, NEW p \in Askers, LookExact(p)
  PROVE  HoldInv'
<1>1. PICK a : a = asker[p]
  OBVIOUS
<1>2. Turn(p, Consulted(a)) /\ UNCHANGED <<now, release, entries, said>> /\ a.at = "cache"
  BY <1>1 DEF LookExact
<1>3. Steady(a, said) /\ InTime(a, now) /\ a.todo # <<>> /\ CallGood(a, said)
  BY <1>1, <1>2 DEF HoldInv, AskerGood
<1>4. AskerGood(Consulted(a), said) /\ InTime(Consulted(a), now)
  BY <1>3, Consulting
<1> QED BY <1>2, <1>4, TurnHolds

LEMMA SearchHolds ==
  ASSUME HoldInv, NEW p \in Askers, Search(p)
  PROVE  HoldInv'
<1> DEFINE call == SearchCall(Head(asker[p].todo))
           a == [Calling(p, call) EXCEPT !.at = "sent"]
<1>1. Begun(p) /\ Turn(p, a) /\ UNCHANGED <<now, release, entries, said>>
  BY DEF Search
<1>2. IsCall(call) /\ call.which \in Searches
  BY DEF SearchCall, IsCall, Searches
<1>3. Head(asker[p].todo).kind # "image"
  BY DEF Search
<1>6. a = CallingAt(p, call, "sent")
  BY DEF CallingAt
<1>7. Aimed(call, Head(asker[p].todo))
  BY <1>2, <1>3 DEF Aimed
<1> HIDE DEF call, a
<1>4. /\ Steady(a, said) /\ InTime(a, now) /\ a.todo # <<>> /\ CallGood(a, said)
      /\ a.at = "sent"
  BY <1>1, <1>2, <1>6, <1>7, Called
<1>5. AskerGood(a, said)
  BY <1>4 DEF AskerGood
<1> QED BY <1>1, <1>4, <1>5, TurnHolds

\* An answer to a call: a failure of the known ones, or a list of tags.
Sound(answer, call) ==
  /\ answer.err \in Errors
  /\ AboutFamily(call) /\ answer.err = "" => ListGood(answer.list)

CameBack(a, answer, lost) == [a EXCEPT !.at = "back", !.got = answer, !.lost = lost]

LEMMA BackIs ==
  ASSUME NEW a, IsAsker(a), NEW answer, NEW lost,
         NEW b, b = CameBack(a, answer, lost)
  PROVE  /\ b.todo = a.todo /\ b.at = "back" /\ b.call = a.call /\ b.got = answer
         /\ b.lost = lost /\ b.list = a.list /\ b.began = a.began /\ b.reports = a.reports
         /\ IsAsker(b)
<1>1. Has(b, a.todo, "back", a.call, answer, lost, a.list, a.began, a.reports)
  BY DEF IsAsker, Has, CameBack
<1> QED BY <1>1 DEF Has, IsAsker

LEMMA AnsweredHolds ==
  ASSUME HoldInv, NEW p \in Askers, NEW answer, Answered(p, answer), Sound(answer, asker[p].call)
  PROVE  HoldInv'
<1>1. PICK a : a = asker[p]
  OBVIOUS
<1> DEFINE lost == IF answer.err = "" THEN a.lost ELSE a.lost \cup {answer.err}
           b == [a EXCEPT !.at = "back", !.got = answer, !.lost = lost]
           s == [at |-> now, about |-> Subject(a.call), answer |-> answer]
<1>2. /\ a.at = "sent" /\ Turn(p, b) /\ UNCHANGED <<now, release, entries>>
      /\ said' = IF ~AboutFamily(a.call) THEN said ELSE said \cup {s}
  BY <1>1 DEF Answered
<1>3. AskerGood(a, said) /\ InTime(a, now) /\ now \in Nat
  BY <1>1 DEF HoldInv
<1>4. said \subseteq said'
  BY <1>2
<1>5. AskerGood(a, said')
  BY <1>3, <1>4, StillHeard
<1> HIDE DEF lost
<1>6. b = CameBack(a, answer, lost) /\ IsAsker(a)
  BY <1>3 DEF AskerGood, Steady, CameBack
<1> HIDE DEF b
<1>7. /\ b.todo = a.todo /\ b.at = "back" /\ b.call = a.call /\ b.got = answer
      /\ b.lost = lost /\ b.list = a.list /\ b.began = a.began /\ b.reports = a.reports
      /\ IsAsker(b)
  BY <1>6, BackIs
<1>8. CallGood(b, said')
  BY <1>2, <1>5, <1>7 DEF AskerGood, CallGood
<1>9. GotGood(b, said')
  <2>1. answer.err # "" => answer.err \in lost
    BY DEF lost
  <2>2. ASSUME AboutFamily(a.call), answer.err = ""
        PROVE  s \in said' /\ Saying(s, Subject(a.call), answer.list) /\ a.began <= s.at
    <3>1. s.at = now /\ s.about = Subject(a.call) /\ s.answer = answer
      OBVIOUS
    <3>2. s \in said'
      BY <1>2, <2>2
    <3> HIDE DEF s
    <3> QED BY <1>1, <1>3, <2>2, <3>1, <3>2 DEF Saying, InTime, Sound
  <2> HIDE DEF s
  <2> QED BY <1>7, <2>1, <2>2 DEF GotGood, Sound
<1>10. AskerGood(b, said') /\ InTime(b, now)
  BY <1>2, <1>3, <1>5, <1>7, <1>8, <1>9 DEF AskerGood, Steady, InTime
<1>11. EntriesGood(entries, said', now)
  BY <1>4 DEF HoldInv, EntriesGood, EntryGood, Backed
<1>12. ASSUME NEW q \in Askers, q # p
       PROVE  AskerGood(asker[q], said') /\ InTime(asker[q], now)
  BY <1>4, StillHeard DEF HoldInv
<1>13. /\ asker' = [q \in Askers |-> asker'[q]]
       /\ asker'[p] = b /\ \A q \in Askers : q # p => asker'[q] = asker[q]
  BY <1>2, TurnOf
<1> QED BY <1>2, <1>10, <1>11, <1>12, <1>13 DEF HoldInv

LEMMA ServedHolds ==
  ASSUME OneNumberDates, HoldInv, NEW p \in Askers, Served(p)
  PROVE  HoldInv'
<1> DEFINE hub == Releases[release]
           call == asker[p].call
           answer == HubAnswers(hub, call)
<1>1. hub \in Range(Releases)
  <2>1. release \in DOMAIN Releases
    BY HubAssumption DEF HoldInv
  <2> QED BY <2>1 DEF Range
<1>2. ~Expired(p) /\ Answered(p, answer)
  BY DEF Served
<1> HIDE DEF hub
<1>3. Sound(answer, call)
  <2>1. CASE call.which \in Searches
    BY <2>1 DEF HubAnswers, Answer, AboutFamily, Errors, Sound
  <2>2. CASE call.which \notin Searches
    <3> HIDE DEF answer, call
    <3>1. answer.err \in {"", "not-found"} /\ (answer.err = "" => ListGood(answer.list))
      BY <1>1, <2>2, HubAnswersGood DEF answer
    <3> QED BY <3>1 DEF Errors, Sound
  <2> QED BY <2>1, <2>2
<1> HIDE DEF answer
<1> QED BY <1>2, <1>3, AnsweredHolds

LEMMA FailureHolds ==
  ASSUME HoldInv, NEW p \in Askers, Fails(p) \/ Cancelled(p)
  PROVE  HoldInv'
<1>1. PICK err \in Errors \ {""} : Answered(p, Answer(err, <<>>))
  BY HubAssumption DEF Fails, Cancelled, Errors
<1> DEFINE answer == Answer(err, <<>>)
<1>2. answer.err = err
  BY DEF Answer
<1> HIDE DEF answer
<1>3. Sound(answer, asker[p].call)
  BY <1>2 DEF Sound
<1>4. Answered(p, answer)
  BY <1>1 DEF answer
<1> QED BY <1>3, <1>4, AnsweredHolds

\* Storing an answer: what a lookup was told while it ran was said a request's
\* time ago at most.
LEMMA KeptGood ==
  ASSUME HoldInv, NEW a, InTime(a, now), a.todo # <<>>, GotGood(a, said)
  PROVE  a.got.err = "" /\ a.call.which \notin Searches
           => EntriesGood(Kept(KeyOf(a.call), a.got, now), said, now)
<1>0. SUFFICES ASSUME a.got.err = "" /\ a.call.which \notin Searches
               PROVE  EntriesGood(Kept(KeyOf(a.call), a.got, now), said, now)
  OBVIOUS
<1> DEFINE key == KeyOf(a.call)
           new == [answer |-> a.got, at |-> now]
           e == Kept(key, a.got, now)
<1>1. now \in Nat /\ EntriesGood(entries, said, now)
  BY DEF HoldInv
<1>2. new.answer = a.got /\ new.at = now
  OBVIOUS
<1>3. key[1] = a.call.repo /\ key[2] = a.call.part
  BY DEF KeyOf
<1>4. DOMAIN Room \subseteq DOMAIN entries
  BY DEF Room
<1>5. /\ DOMAIN e = DOMAIN Room \cup {key}
      /\ \A k \in DOMAIN e : e[k] = IF k = key THEN new ELSE entries[k]
  BY DEF Kept
<1> HIDE DEF e, new, key
<1>6. EntryGood(key, new, said, now)
  <2>1. ASSUME key[2].ver = <<>>
        PROVE  Backed(key, new, said)
    <3>1. AboutFamily(a.call)
      BY <1>0, <1>3, <2>1 DEF AboutFamily
    <3>2. PICK s \in said : Saying(s, Subject(a.call), a.got.list) /\ a.began <= s.at
      BY <1>0, <3>1 DEF GotGood
    <3>3. Saying(s, [repo |-> key[1], part |-> key[2]], new.answer.list)
      BY <1>2, <1>3, <3>2 DEF Subject
    <3>4. new.at - s.at <= Timeout
      <4>1. s.at \in Nat /\ a.began \in Nat /\ now - a.began <= Timeout
        BY <3>2 DEF Saying, InTime
      <4> QED BY <1>1, <1>2, <3>2, <4>1, HubAssumption
    <3> QED BY <3>3, <3>4 DEF Backed
  <2>2. new.answer.err = ""
    BY <1>0, <1>2
  <2>3. new.at \in Nat /\ new.at <= now
    BY <1>1, <1>2
  <2> QED BY <2>1, <2>2, <2>3 DEF EntryGood
<1>7. ASSUME NEW k \in DOMAIN e
      PROVE  EntryGood(k, e[k], said, now)
  BY <1>1, <1>4, <1>5, <1>6 DEF EntriesGood
<1> QED BY <1>7 DEF EntriesGood, e, key

-----------------------------------------------------------------------------
(* What the invariant comes to.                                            *)
LEMMA ArriveHolds ==
  ASSUME HoldInv, NEW p \in Askers, Arrive(p)
  PROVE  HoldInv'
<1>1. PICK a : a = asker[p]
  OBVIOUS
<1> DEFINE b == Took(a, a.got)
<1>2. /\ a.at = "back" /\ Turn(p, b) /\ UNCHANGED <<now, release, said>>
      /\ entries' = IF a.call.which \in Searches THEN entries
                    ELSE Remembered(KeyOf(a.call), a.got, now)
  BY <1>1 DEF Arrive
<1>3. AskerGood(a, said) /\ InTime(a, now) /\ now \in Nat
  BY <1>1 DEF HoldInv
<1>4. Steady(a, said) /\ a.todo # <<>> /\ CallGood(a, said) /\ GotGood(a, said)
  BY <1>2, <1>3 DEF AskerGood
<1>5. EntriesGood(entries, said, now)
  BY DEF HoldInv
<1>6. EntriesGood(entries', said, now)
  <2>1. CASE a.call.which \in Searches \/ a.got.err # ""
    <3>1. entries' = entries
      BY <1>2, <2>1 DEF Remembered
    <3> QED BY <1>5, <3>1
  <2>2. CASE a.got.err = "" /\ a.call.which \notin Searches
    <3>1. entries' = Kept(KeyOf(a.call), a.got, now)
      BY <1>2, <2>2 DEF Remembered
    <3> QED BY <1>3, <1>4, <2>2, <3>1, KeptGood
  <2> QED BY <2>1, <2>2
<1>7. Grounded(a, a.got, said)
  <2>0. a.call.which = "family" => a.call = FamilyCall(Head(a.todo)) /\ AboutFamily(a.call)
    <3>1. a.call.which = "family" => a.call = FamilyCall(Head(a.todo))
      BY <1>4 DEF CallGood, Searches, ExactCall
    <3>2. AboutFamily(FamilyCall(Head(a.todo)))
      BY DEF AboutFamily, FamilyCall, Searches
    <3> QED BY <3>1, <3>2
  <2>1. ASSUME a.call.which = "family", a.got.err = ""
        PROVE  Heard(said, Subject(a.call), a.got.list, a.began)
    <3>2. AboutFamily(a.call)
      BY <2>0, <2>1
    <3>3. PICK s \in said : Saying(s, Subject(a.call), a.got.list) /\ a.began <= s.at
      BY <1>4, <2>1, <3>2 DEF GotGood
    <3>4. Recent(s, a.began)
      <4>1. s.at \in Nat /\ a.began \in Nat
        BY <1>3, <3>3 DEF Saying, InTime
      <4> QED BY <3>3, <4>1, HubAssumption DEF Recent
    <3> QED BY <3>3, <3>4 DEF Heard
  <2> QED BY <1>4, <2>1 DEF GotGood, Grounded
<1>8. AskerGood(b, said) /\ InTime(b, now)
  BY <1>3, <1>4, <1>7, Taking
<1> HIDE DEF b
<1>9. /\ asker' = [q \in Askers |-> asker'[q]]
      /\ asker'[p] = b /\ \A q \in Askers : q # p => asker'[q] = asker[q]
  BY <1>2, TurnOf
<1> QED BY <1>2, <1>6, <1>8, <1>9 DEF HoldInv

LEMMA PushHolds ==
  ASSUME HoldInv, Push
  PROVE  HoldInv'
<1>1. Len(Releases) \in Nat
  BY HubAssumption
<1> QED BY <1>1 DEF HoldInv, Push

\* A lookup with nothing to do has nothing to answer for.
LEMMA IdleGood ==
  ASSUME NEW sd
  PROVE  AskerGood(Idle, sd) /\ Idle.began = 0 /\ Idle.todo = <<>>
<1> DEFINE none == Answer("", <<>>)
<1> HIDE DEF none
<1>1. Has(Idle, <<>>, "next", NoCall, none, {}, <<>>, 0, <<>>)
  BY DEF Idle, Has, none
<1>2. /\ Idle.todo = <<>> /\ Idle.at = "next" /\ Idle.call = NoCall
      /\ Idle.began = 0 /\ Idle.reports = <<>> /\ IsAsker(Idle)
  BY <1>1 DEF Has, IsAsker
<1>3. IsCall(NoCall)
  BY DEF IsCall, NoCall
<1>4. Range(Idle.reports) = {} /\ Idle.reports \in Seq(Range(Idle.reports))
  BY <1>2 DEF Range
<1> QED BY <1>2, <1>3, <1>4 DEF AskerGood, Steady

\* What Tick forgets is behind no lookup that runs on, and no fresh entry.
LEMMA TickHolds ==
  ASSUME HoldInv, Tick
  PROVE  HoldInv'
<1>1. now \in Nat /\ now' = now + 1 /\ release' = release /\ entries' = entries
  BY DEF HoldInv, Tick
<1>2. asker' = [p \in Askers |-> IF asker[p].todo = <<>> THEN Idle ELSE asker[p]]
  BY DEF Tick
<1>3. \A s \in said : now - s.at < TTL + 2 * Timeout => s \in said'
  BY DEF Tick
<1>4. ASSUME NEW p \in Askers
      PROVE  AskerGood(asker'[p], said') /\ InTime(asker'[p], now')
  <2>1. CASE asker[p].todo = <<>>
    <3>1. asker'[p] = Idle
      BY <1>2, <2>1
    <3>2. InTime(Idle, now')
      BY <1>1, IdleGood DEF InTime
    <3> QED BY <3>1, <3>2, IdleGood
  <2>2. CASE asker[p].todo # <<>>
    <3>1. PICK a : a = asker[p]
      OBVIOUS
    <3>2. asker'[p] = a /\ a.todo # <<>>
      BY <1>2, <2>2, <3>1
    <3>3. AskerGood(a, said) /\ InTime(a, now)
      BY <3>1 DEF HoldInv
    <3>4. ~(now - a.began >= Timeout) /\ a.began \in Nat /\ a.began <= now
      BY <3>1, <3>2, <3>3 DEF Tick, Expired, InTime
    <3>5. ASSUME NEW s \in said, Recent(s, a.began) PROVE s \in said'
      <4>1. now - s.at < TTL + 2 * Timeout
        BY <1>1, <3>4, <3>5, HubAssumption DEF Recent
      <4> QED BY <1>3, <4>1
    <3>6. AskerGood(a, said')
      BY <3>3, <3>5, StillHeard
    <3>7. InTime(a, now')
      BY <1>1, <3>4, HubAssumption DEF InTime
    <3> QED BY <3>2, <3>6, <3>7
  <2> QED BY <2>1, <2>2
<1>5. EntriesGood(entries', said', now')
  <2>1. SUFFICES ASSUME NEW k \in DOMAIN entries
                 PROVE  EntryGood(k, entries[k], said', now')
    BY <1>1 DEF EntriesGood
  <2>2. PICK e : e = entries[k]
    OBVIOUS
  <2>3. EntryGood(k, e, said, now)
    BY <2>2 DEF HoldInv, EntriesGood
  <2>4. e.at \in Nat /\ e.at <= now
    BY <2>3 DEF EntryGood
  <2>5. e.answer.err = ""
    BY <2>3 DEF EntryGood
  <2>6. ASSUME k[2].ver = <<>>, now' - e.at < TTL
        PROVE  Backed(k, e, said')
    <3>1. now - e.at < TTL
      BY <1>1, <2>4, <2>6, HubAssumption
    <3>2. PICK s \in said : /\ Saying(s, [repo |-> k[1], part |-> k[2]], e.answer.list)
                            /\ e.at - s.at <= Timeout
      BY <2>3, <2>6, <3>1 DEF EntryGood, Backed
    <3>3. s \in said'
      <4>1. s.at \in Nat
        BY <3>2 DEF Saying
      <4>2. now - s.at < TTL + 2 * Timeout
        BY <1>1, <2>4, <3>1, <3>2, <4>1, HubAssumption
      <4> QED BY <1>3, <4>2
    <3> QED BY <3>2, <3>3 DEF Backed
  <2>7. e.at <= now'
    BY <1>1, <2>4
  <2>8. EntryGood(k, e, said', now')
    BY <2>4, <2>6, <2>7, <2>5 DEF EntryGood
  <2> QED BY <2>2, <2>8
<1>6. asker' = [p \in Askers |-> asker'[p]]
  BY <1>2
<1>7. now' \in Nat /\ release' \in 1..Len(Releases)
  BY <1>1 DEF HoldInv
<1> QED BY <1>4, <1>5, <1>6, <1>7 DEF HoldInv

LEMMA HoldStarts == Init => HoldInv
<1> SUFFICES ASSUME Init PROVE HoldInv
  OBVIOUS
<1>1. now \in Nat /\ release \in 1..Len(Releases)
  <2>1. Len(Releases) \in Nat \ {0}
    BY HubAssumption
  <2> QED BY <2>1 DEF Init
<1>2. asker = [p \in Askers |-> Idle] /\ now = 0
  BY DEF Init
<1>3. \A p \in Askers : AskerGood(asker[p], said) /\ InTime(asker[p], now)
  BY <1>2, IdleGood DEF InTime
<1>4. EntriesGood(entries, said, now)
  BY DEF Init, EntriesGood
<1> QED BY <1>1, <1>2, <1>3, <1>4 DEF HoldInv

LEMMA HoldStep ==
  ASSUME OneNumberDates
  PROVE  HoldInv /\ [Next]_vars => HoldInv'
<1> SUFFICES ASSUME HoldInv, [Next]_vars
             PROVE  HoldInv'
  OBVIOUS
<1>1. ASSUME NEW p \in Askers, NEW q \in Questions, Ask(p, q) PROVE HoldInv'
  BY <1>1, AskHolds
<1>2. ASSUME NEW p \in Askers, Refuse(p) PROVE HoldInv'
  BY <1>2, RefuseHolds
<1>3. ASSUME NEW p \in Askers, Look(p) PROVE HoldInv'
  BY <1>3, LookHolds
<1>4. ASSUME NEW p \in Askers, LookExact(p) PROVE HoldInv'
  BY <1>4, LookExactHolds
<1>5. ASSUME NEW p \in Askers, Search(p) PROVE HoldInv'
  BY <1>5, SearchHolds
<1>6. ASSUME NEW p \in Askers, Served(p) PROVE HoldInv'
  BY <1>6, ServedHolds
<1>7. ASSUME NEW p \in Askers, Fails(p) \/ Cancelled(p) PROVE HoldInv'
  BY <1>7, FailureHolds
<1>8. ASSUME NEW p \in Askers, Arrive(p) PROVE HoldInv'
  BY <1>8, ArriveHolds
<1>9. CASE Push
  BY <1>9, PushHolds
<1>10. CASE Tick
  BY <1>10, TickHolds
<1>11. CASE UNCHANGED vars
  BY <1>11 DEF vars, HoldInv
<1> QED BY <1>1, <1>2, <1>3, <1>4, <1>5, <1>6, <1>7, <1>8, <1>9, <1>10, <1>11 DEF Next

LEMMA HoldSays == HoldInv => AnswersHold
<1> SUFFICES ASSUME HoldInv, NEW r \in Reports
             PROVE  /\ r.state \in {"ok", "current"} /\ r.ref.kind = "image" =>
                         \E s \in said :
                           /\ s.about = Subject(FamilyCall(r.ref)) /\ s.answer.err = ""
                           /\ r.at - s.at < TTL + 2 * Timeout
                           /\ IF r.state = "current" THEN Newest(s.answer.list, r.ref.name) = {}
                              ELSE r.offers[1] \in Newest(s.answer.list, r.ref.name)
                    /\ r.state \in {"offline", "rate-limited", "cancelled"} => r.state \in r.lost
  BY DEF AnswersHold
<1>1. PICK p \in Askers : r \in Range(asker[p].reports)
  BY DEF Reports
<1>2. ReportGood(r, said, asker[p].began)
  BY <1>1 DEF HoldInv, AskerGood, Steady
<1> QED BY <1>2 DEF ReportGood, Supports

\* What AnswersHold asks, of any registry without six-digit versions of several
\* components, whatever is pushed while lookups run: what a lookup offers for an
\* image, or that it offers nothing, is what one list of that repository and
\* family comes to, which Docker Hub gave no longer ago than the cache's lifetime
\* and a request at either end, through whichever lookup's request and in whichever
\* order two of them were kept (lookup.go:541-586, pickCandidates at 313-364); and
\* an outage that is reported is one of the lookup's own requests (lookup.go:240).
THEOREM OffersHold == ASSUME OneNumberDates PROVE Spec => []AnswersHold
<1>1. HoldInv /\ [Next]_vars => HoldInv'
  BY HoldStep
<1> QED BY HoldStarts, <1>1, HoldSays, PTL DEF Spec
=============================================================================
