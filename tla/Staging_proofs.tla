--------------------------- MODULE Staging_proofs ---------------------------
(***************************************************************************)
(* Proofs about Staging, for any number of lines, texts and waiting        *)
(* handlers.  For any reader: the state keeps its types, and a write takes *)
(* or rewrites a line only from the text that was previewed and only to    *)
(* what was asked.  As long as the reader waits for one answer before      *)
(* asking for the next thing: nothing they were shown as staged is gone    *)
(* unless it was written, taken back or said to be discarded; what lands   *)
(* is what the strip showed; and whatever is staged is on the strip when   *)
(* nobody waits.  EditRun's Run and Diff are opened as far as the proofs   *)
(* about landing and the strip need.                                       *)
(***************************************************************************)
EXTENDS Staging, Induction, SequenceTheorems, TLAPS

\* One handler at a time waits, and what it checked before its await still holds
\* when it records: stageAll saw no move, stageExtract saw no edits.
OneWaits == \A g, h \in Handlers : g # h => pc[g] = "idle" \/ pc[h] = "idle"
Checked  == \A h \in Handlers : /\ pc[h] = "preview" => move = None
                                /\ pc[h] = "extract" => staged = <<>>
PcOK     == pc \in [Actors -> Waits \cup {"idle", "resolve"}]

ExclInv == PcOK /\ OneWaits /\ Checked /\ Exclusive

\* What a step does to the waiting handlers: it ends a's stretch, with a waiting
\* for `at` or idle, and wakes nobody but the redraw.
Moves1(a, at) ==
  /\ pc' \in [Actors -> Waits \cup {"idle", "resolve"}]
  /\ \A h \in Handlers : pc'[h] = IF h = a THEN at ELSE pc[h]

LEMMA AskMoves ==
  ASSUME PcOK, NEW a \in Actors, NEW wait \in Waits, NEW entries, NEW redraw,
         Ask(a, wait, entries, redraw)
  PROVE  Moves1(a, wait)
BY DEF PcOK, Ask, Moves1, Actors

LEMMA SettleMoves ==
  ASSUME PcOK, NEW a \in Actors, NEW redraw, Settle(a, redraw)
  PROVE  Moves1(a, "idle")
BY StagingAssumption DEF PcOK, Settle, Moves1, Actors

LEMMA RefreshPendingMoves ==
  ASSUME PcOK, NEW a \in Actors, NEW entries, NEW mv, NEW redraw,
         RefreshPending(a, entries, mv, redraw)
  PROVE  Moves1(a, "idle") \/ Moves1(a, "refresh")
<1>1. "refresh" \in Waits
  BY DEF Waits
<1> QED BY <1>1, AskMoves, SettleMoves DEF RefreshPending

\* A stretch that ends in any wait but the two that record, with the stages
\* emptied or as they were.
LEMMA KeepsExclusive ==
  ASSUME ExclInv, NEW a \in Actors, NEW at, Moves1(a, at), at \notin {"preview", "extract"},
         at = "idle" \/ a \notin Handlers \/ (\A h \in Handlers : h # a => pc[h] = "idle"),
         \/ UNCHANGED <<staged, move>>
         \/ staged' = <<>> /\ move' = None
         \/ UNCHANGED move /\ staged' = <<>>
         \/ move' = None /\ UNCHANGED staged
  PROVE  ExclInv'
<1>1. PcOK' /\ OneWaits'
  BY DEF ExclInv, Moves1, PcOK, OneWaits
<1>2. Checked' /\ Exclusive'
  BY DEF ExclInv, Moves1, Checked, Exclusive
<1> QED BY <1>1, <1>2 DEF ExclInv

\* A handler that is waiting is the only one.
LEMMA OthersIdle ==
  ASSUME ExclInv, NEW h \in Handlers, pc[h] # "idle"
  PROVE  \A g \in Handlers : g # h => pc[g] = "idle"
BY DEF ExclInv, OneWaits

\* A reader who waits presses when nobody else does.
LEMMA PressAlone ==
  ASSUME Patient, NEW h \in Handlers, Press(h)
  PROVE  \A g \in Handlers : pc[g] = "idle"
BY DEF Press, AtRest, Actors

\* The only handler that was awake goes to sleep, or waits for the strip.
LEMMA LastOneEnds ==
  ASSUME ExclInv, NEW h \in Handlers, \A g \in Handlers : g # h => pc[g] = "idle",
         Moves1(h, "idle") \/ Moves1(h, "refresh"), Exclusive'
  PROVE  ExclInv'
BY DEF ExclInv, Moves1, PcOK, OneWaits, Checked

LEMMA ReaderKeeps ==
  ASSUME Patient, ExclInv, NEW h \in Handlers, ReaderStep(h)
  PROVE  ExclInv'
<1>a. h \in Actors /\ PcOK /\ {"preview", "extract", "apply", "applyMove"} \subseteq Waits
  BY DEF Actors, ExclInv, Waits
<1>1. ASSUME NEW op, Stage(h, op) PROVE ExclInv'
  <2>1. Moves1(h, "preview") /\ move = None /\ UNCHANGED <<staged, move>>
    BY <1>a, <1>1, AskMoves DEF Stage, MayStage
  <2>2. \A g \in Handlers : pc[g] = "idle"
    BY <1>1, PressAlone DEF Stage
  <2> QED BY <2>1, <2>2 DEF ExclInv, Moves1, PcOK, OneWaits, Checked, Exclusive
<1>2. ASSUME NEW op, StageMove(h, op) PROVE ExclInv'
  <2>1. Moves1(h, "extract") /\ staged = <<>> /\ UNCHANGED <<staged, move>>
    BY <1>a, <1>2, AskMoves DEF StageMove, MayMove
  <2>2. \A g \in Handlers : pc[g] = "idle"
    BY <1>2, PressAlone DEF StageMove
  <2> QED BY <2>1, <2>2 DEF ExclInv, Moves1, PcOK, OneWaits, Checked, Exclusive
<1>3. ASSUME NEW k, Unstage(h, k), staged # <<>> PROVE ExclInv'
  <2>1. Moves1(h, "idle") \/ Moves1(h, "refresh")
    BY <1>a, <1>3, RefreshPendingMoves DEF Unstage
  <2>2. \A g \in Handlers : pc[g] = "idle"
    BY <1>3, PressAlone DEF Unstage
  <2>3. UNCHANGED move
    BY <1>3 DEF Unstage
  <2>4. move = None
    BY <1>3 DEF ExclInv, Exclusive, ToSet
  <2> QED BY <2>1, <2>2, <2>3, <2>4, LastOneEnds DEF Exclusive
<1>4. CASE DiscardAll(h)
  <2>1. Moves1(h, "idle") /\ staged' = <<>> /\ move' = None
    BY <1>a, <1>4, SettleMoves DEF DiscardAll, Discard
  <2> QED BY <1>a, <2>1, KeepsExclusive
<1>5. CASE Save(h)
  <2>1. Moves1(h, "apply") \/ Moves1(h, "applyMove")
    BY <1>a, <1>5, AskMoves DEF Save
  <2>2. \A g \in Handlers : pc[g] = "idle"
    BY <1>5, PressAlone DEF Save
  <2>3. UNCHANGED <<staged, move>>
    BY <1>5 DEF Save
  <2> QED BY <1>a, <2>1, <2>2, <2>3, KeepsExclusive
<1>6. ASSUME NEW e \in ToSet(staged) PROVE staged # <<>>
  BY <1>6 DEF ToSet
<1> QED BY <1>1, <1>2, <1>3, <1>4, <1>5, <1>6 DEF ReaderStep

\* A refused or failed answer changes neither stage; a stale one empties both.
LEMMA FailureEmptiesOrKeeps ==
  ASSUME NEW reply, ReportFailure(reply)
  PROVE  UNCHANGED <<staged, move>> \/ (staged' = <<>> /\ move' = None)
BY DEF ReportFailure, Discard

LEMMA HandlerKeeps ==
  ASSUME ExclInv, NEW h \in Handlers, HandlerStep(h)
  PROVE  ExclInv'
<1>a. h \in Actors /\ PcOK /\ Exclusive
  BY DEF Actors, ExclInv
<1>b. \A g \in Handlers : g # h => pc[g] = "idle"
  BY OthersIdle DEF HandlerStep, Preview, Extract, Applied, MoveApplied
<1>1. CASE Preview(h)
  <2>1. move = None
    BY <1>1 DEF Preview, ExclInv, Checked
  <2>2. Moves1(h, "idle") \/ Moves1(h, "refresh")
    BY <1>a, <1>1, SettleMoves, RefreshPendingMoves DEF Preview
  <2>3. move' = None
    BY <1>1, <2>1, FailureEmptiesOrKeeps DEF Preview
  <2> QED BY <1>b, <2>2, <2>3, LastOneEnds DEF Exclusive
<1>2. CASE Extract(h)
  <2>1. staged = <<>>
    BY <1>2 DEF Extract, ExclInv, Checked
  <2>2. Moves1(h, "idle") \/ Moves1(h, "refresh")
    BY <1>a, <1>2, SettleMoves, RefreshPendingMoves DEF Extract
  <2>3. staged' = <<>>
    BY <1>2, <2>1, FailureEmptiesOrKeeps DEF Extract
  <2> QED BY <1>b, <2>2, <2>3, LastOneEnds DEF Exclusive
<1>3. CASE Applied(h)
  <2>1. Moves1(h, "idle")
    BY <1>a, <1>3, SettleMoves DEF Applied
  <2>2. Exclusive'
    BY <1>a, <1>3 DEF Applied, Spend, Discard, Exclusive
  <2> QED BY <1>b, <2>1, <2>2, LastOneEnds
<1>4. CASE MoveApplied(h)
  <2>1. Moves1(h, "idle")
    BY <1>a, <1>4, SettleMoves DEF MoveApplied
  <2>2. Exclusive'
    BY <1>a, <1>4 DEF MoveApplied, Discard, Exclusive
  <2> QED BY <1>b, <2>1, <2>2, LastOneEnds
<1> QED BY <1>1, <1>2, <1>3, <1>4 DEF HandlerStep

LEMMA RefreshKeeps ==
  ASSUME ExclInv, NEW a \in Actors, Refresh(a)
  PROVE  ExclInv'
<1>1. Moves1(a, "idle")
  BY SettleMoves DEF Refresh, ExclInv
<1>2. UNCHANGED <<staged, move>> \/ (staged' = <<>> /\ move' = None)
  BY FailureEmptiesOrKeeps DEF Refresh
<1> QED BY <1>1, <1>2, KeepsExclusive

\* The core answers, the file changes: no handler moves and no stage changes.
LEMMA CoreKeeps ==
  ASSUME ExclInv,
         \/ \E a \in Actors : CoreReads(a) \/ CoreWrites(a) \/ Timeout(a)
         \/ CoreWritesLate \/ ExternalEdit \/ WindowCloses \/ UNCHANGED vars
  PROVE  ExclInv'
<1>1. UNCHANGED <<pc, staged, move>>
  BY DEF CoreReads, CoreWrites, Timeout, CoreWritesLate, ExternalEdit, WindowCloses, vars
<1> QED BY <1>1 DEF ExclInv, PcOK, OneWaits, Checked, Exclusive

\* The watcher and the redraw: both stages go or neither changes, and only the
\* redraw is woken.
LEMMA RedrawKeeps ==
  ASSUME ExclInv, ChangeSeen \/ Drawn
  PROVE  ExclInv'
<1>a. Draw \in Actors /\ Draw \notin Handlers /\ PcOK
  BY StagingAssumption DEF Actors, ExclInv
<1>1. CASE ChangeSeen
  <2>1. UNCHANGED <<staged, move>> \/ (staged' = <<>> /\ move' = None)
    BY <1>1 DEF ChangeSeen, Discard
  <2>2. PcOK' /\ \A h \in Handlers : pc'[h] = pc[h]
    <3>1. CASE fresh
      BY <1>1, <3>1, <1>a DEF ChangeSeen, PcOK
    <3>2. CASE ~fresh
      <4>1. pc' = [pc EXCEPT ![Draw] = IF pc[Draw] = "idle" THEN "resolve" ELSE pc[Draw]]
        BY <1>1, <3>2 DEF ChangeSeen
      <4> QED BY <4>1, <1>a DEF PcOK, Actors
    <3> QED BY <3>1, <3>2
  <2> QED BY <2>1, <2>2 DEF ExclInv, OneWaits, Checked, Exclusive
<1>2. CASE Drawn
  <2>1. Moves1(Draw, "idle") \/ Moves1(Draw, "refresh")
    BY <1>a, <1>2, SettleMoves, RefreshPendingMoves DEF Drawn
  <2>2. UNCHANGED <<staged, move>>
    BY <1>2 DEF Drawn
  <2> QED BY <1>a, <2>1, <2>2, KeepsExclusive
<1> QED BY <1>1, <1>2

LEMMA InitExcludes ==
  ASSUME Init PROVE ExclInv
BY DEF Init, ExclInv, PcOK, OneWaits, Checked, Exclusive, Actors

LEMMA StepExcludes ==
  ASSUME Patient, ExclInv, [Next]_vars PROVE ExclInv'
<1>1. CASE \E h \in Handlers : ReaderStep(h)
  BY <1>1, ReaderKeeps
<1>2. CASE \E h \in Handlers : HandlerStep(h)
  BY <1>2, HandlerKeeps
<1>3. CASE \E a \in Actors : Refresh(a)
  BY <1>3, RefreshKeeps
<1>4. CASE ChangeSeen \/ Drawn
  BY <1>4, RedrawKeeps
<1> QED BY <1>1, <1>2, <1>3, <1>4, CoreKeeps DEF Next
-----------------------------------------------------------------------------
(* The lists of staged edits: what the operations on them keep.            *)

\* Staging.set once for each of a list, as the fold unwinds it.
SetFold(base, more, g) ==
  g = [s \in SUBSET (DOMAIN more) |->
         IF s = {} THEN base ELSE Set(g[s \ {Max(s)}], more[Max(s)])]

\* SetAll is that fold.
LEMMA SetAllIs ==
  ASSUME NEW base, NEW more
  PROVE  SetAll(base, more) = (CHOOSE g : SetFold(base, more, g))[DOMAIN more]
BY DEF SetAll, FoldLeft, MapThenFoldSet, SetFold

\* The lists a set of a list goes through.
SetTrail(r, A, base, more, n) ==
  /\ r[0] = base /\ SetAll(base, more) = r[n]
  /\ \A k \in 0..n : r[k] \in A
  /\ \A k \in 1..n : r[k] = Set(r[k - 1], more[k])

\* Setting a list sets its entries one after the other.
LEMMA SetAllTrail ==
  ASSUME NEW A, NEW base \in A, NEW n \in Nat, NEW more, DOMAIN more = 1..n,
         \A t \in A, i \in 1..n : Set(t, more[i]) \in A
  PROVE  \E r : SetTrail(r, A, base, more, n)
<1> DEFINE T == [p \in A \X (1..n) |-> Set(p[1], more[p[2]])]
<1>1. T \in [A \X (1..n) -> A]
  <2> HIDE DEF Set
  <2> QED OBVIOUS
<1>2. PICK g \in [SUBSET (1..n) -> A] : Folds(g, n, base, T)
  <2> HIDE DEF T
  <2> QED BY <1>1, FoldExists
<1>3. ASSUME NEW s \in SUBSET (1..n), s # {}
      PROVE  T[<<g[s \ {Max(s)}], Max(s)>>] = Set(g[s \ {Max(s)}], more[Max(s)])
  <2>1. Max(s) \in 1..n /\ s \ {Max(s)} \in SUBSET (1..n)
    BY <1>3, MaxIsGreatest
  <2>2. <<g[s \ {Max(s)}], Max(s)>> \in A \X (1..n)
    BY <2>1
  <2> QED BY <2>2
<1>4. SetFold(base, more, g)
  <2> HIDE DEF T
  <2> QED BY <1>2, <1>3 DEF Folds, SetFold
<1> DEFINE f == CHOOSE h : SetFold(base, more, h)
<1>5. SetFold(base, more, f)
  BY <1>4
<1> HIDE DEF f
<1> DEFINE r == [k \in 0..n |-> f[1..k]]
<1>6. r[0] = base
  <2>1. 1..0 = {} /\ {} \in SUBSET (DOMAIN more)
    OBVIOUS
  <2>2. f[1..0] = base
    BY <1>5, <2>1 DEF SetFold
  <2> QED BY <2>2
<1>7. ASSUME NEW k \in 1..n PROVE r[k] = Set(r[k - 1], more[k])
  <2> HIDE DEF T
  <2>1. k \in 1..k /\ k \in 0..n /\ k - 1 \in 0..n /\ 1..k \subseteq 1..n
    OBVIOUS
  <2>2. 1..k # {} /\ 1..k \in SUBSET (DOMAIN more)
    BY <2>1
  <2>3. Max(1..k) = k /\ (1..k) \ {k} = 1..(k - 1)
    <3>1. k - 1 \in Nat /\ (k - 1) + 1 = k
      OBVIOUS
    <3>2. /\ Max(1..((k - 1) + 1)) = (k - 1) + 1
          /\ (1..((k - 1) + 1)) \ {(k - 1) + 1} = 1..(k - 1)
      BY <3>1, MaxOfPrefix
    <3> QED BY <3>1, <3>2
  <2>4. f[1..k] = Set(f[(1..k) \ {Max(1..k)}], more[Max(1..k)])
    BY <1>5, <2>2 DEF SetFold
  <2>5. f[1..k] = Set(f[1..(k - 1)], more[k])
    BY <2>3, <2>4
  <2>6. r[k] = f[1..k] /\ r[k - 1] = f[1..(k - 1)]
    BY <2>1
  <2> QED BY <2>5, <2>6
<1>8. SetAll(base, more) = r[n]
  <2>1. SetAll(base, more) = f[1..n]
    BY SetAllIs DEF f
  <2> QED BY <2>1
<1> HIDE DEF r
<1> DEFINE K == {k \in Nat : k <= n => r[k] \in A}
<1>9. 0 \in K
  BY <1>6
<1>10. ASSUME NEW k \in Nat, k \in K PROVE k + 1 \in K
  <2> SUFFICES ASSUME k + 1 <= n PROVE r[k + 1] \in A
    OBVIOUS
  <2>1. k + 1 \in 1..n /\ (k + 1) - 1 = k /\ r[k] \in A
    BY <1>10
  <2>2. r[k + 1] = Set(r[k], more[k + 1])
    BY <1>7, <2>1
  <2> QED BY <2>1, <2>2
<1>11. \A k \in Nat : k \in K
  <2> HIDE DEF K
  <2> QED BY <1>9, <1>10, NatSet
<1>12. \A k \in 0..n : r[k] \in A
  BY <1>11
<1> QED BY <1>6, <1>7, <1>8, <1>12 DEF SetTrail

\* What every set keeps, setting them all keeps.
LEMMA SetAllSteps ==
  ASSUME NEW A, NEW base \in A, NEW n \in Nat, NEW more, DOMAIN more = 1..n,
         \A t \in A, i \in 1..n : Set(t, more[i]) \in A
  PROVE  SetAll(base, more) \in A
<1>1. PICK r : SetTrail(r, A, base, more, n)
  BY SetAllTrail
<1> QED BY <1>1 DEF SetTrail

\* A set loses no key.
LEMMA SetWorks ==
  ASSUME NEW E, NEW entries \in Seq(E), NEW e \in E
  PROVE  /\ Set(entries, e) \in Seq(E)
         /\ \A x \in ToSet(entries) : \E y \in ToSet(Set(entries, e)) : y.key = x.key
<1> DEFINE Has(x) == x.key = e.key
           I == {i \in 1..Len(entries) : Has(entries[i])}
           n == SelectInSeq(entries, LAMBDA x : x.key = e.key)
<1>1. n = IF I # {} THEN Min(I) ELSE 0
  BY DEF SelectInSeq
<1>2. DOMAIN entries = 1..Len(entries) /\ Len(entries) \in Nat
  OBVIOUS
<1>3. CASE I = {}
  <2>1. Set(entries, e) = Append(entries, e)
    BY <1>1, <1>3 DEF Set
  <2> QED BY <2>1, <1>2 DEF ToSet
<1>4. CASE I # {}
  <2>1. Min(I) \in I
    <3>1. I \subseteq Nat
      BY <1>2
    <3> HIDE DEF I
    <3> QED BY <3>1, <1>4, MinIsLeast
  <2>2. n \in 1..Len(entries) /\ entries[n].key = e.key
    BY <1>1, <1>4, <2>1
  <2>3. Set(entries, e) = [entries EXCEPT ![n] = e]
    BY <2>2 DEF Set
  <2> HIDE DEF n
  <2> QED BY <2>2, <2>3, <1>2, ExceptSeq DEF ToSet
<1> QED BY <1>3, <1>4


\* What RemoveAt leaves, position by position.
LEMMA RemoveAtIs ==
  ASSUME NEW E, NEW s \in Seq(E), NEW n \in 1..Len(s)
  PROVE  LET y == RemoveAt(s, n)
         IN  /\ y \in Seq(E) /\ Len(y) = Len(s) - 1
             /\ \A i \in 1..(n - 1) : y[i] = s[i]
             /\ \A i \in n..(Len(s) - 1) : y[i] = s[i + 1]
<1> DEFINE y == RemoveAt(s, n)
           a == SubSeq(s, 1, n - 1)
           b == SubSeq(s, n + 1, Len(s))
<1>2. DOMAIN s = 1..Len(s) /\ Len(s) \in Nat
  OBVIOUS
<1>4. /\ a \in Seq(E) /\ Len(a) = n - 1
      /\ \A i \in 1..(n - 1) : a[i] = s[i]
  BY <1>2
<1>5. /\ b \in Seq(E) /\ Len(b) = Len(s) - n
      /\ \A i \in 1..(Len(s) - n) : b[i] = s[n + i]
  <2>1. n + 1 \in 1..(Len(s) + 1) /\ Len(s) \in n..Len(s) /\ Len(s) - (n + 1) + 1 = Len(s) - n
    BY <1>2
  <2>2. /\ b \in Seq(E) /\ Len(b) = Len(s) - (n + 1) + 1
        /\ \A i \in 1..(Len(s) - (n + 1) + 1) : b[i] = s[n + 1 + i - 1]
    <3>1. n + 1 \in Int /\ Len(s) \in Int /\ \A i \in (n + 1)..Len(s) : s[i] \in E
      BY <1>2
    <3>2. /\ b \in Seq(E) /\ Len(b) = IF n + 1 <= Len(s) THEN Len(s) - (n + 1) + 1 ELSE 0
          /\ \A i \in 1..(Len(s) - (n + 1) + 1) : b[i] = s[n + 1 + i - 1]
      BY <3>1, SubSeqProperties
    <3>3. CASE n = Len(s)
      <4>1. ~(n + 1 <= Len(s)) /\ Len(s) - (n + 1) + 1 = 0
        BY <1>2, <3>3
      <4> QED BY <3>2, <4>1
    <3>4. CASE n # Len(s)
      <4>1. n + 1 <= Len(s)
        <5> DEFINE m == Len(s)
        <5>1. m \in Nat /\ n \in 1..m /\ n # m
          BY <1>2, <3>4
        <5> HIDE DEF m
        <5>2. n + 1 <= m
          BY <5>1
        <5> QED BY <5>2 DEF m
      <4> QED BY <3>2, <4>1
    <3> QED BY <3>3, <3>4
  <2>3. \A i \in 1..(Len(s) - n) : n + 1 + i - 1 = n + i
    BY <1>2
  <2> QED BY <2>1, <2>2, <2>3
<1>6. y = a \o b
  BY DEF RemoveAt
<1> HIDE DEF a, b, y
<1>7. /\ y \in Seq(E) /\ Len(y) = Len(a) + Len(b)
      /\ \A i \in 1..(Len(a) + Len(b)) : y[i] = IF i <= Len(a) THEN a[i] ELSE b[i - Len(a)]
  BY <1>4, <1>5, <1>6, ConcatProperties
<1>8. Len(y) = Len(s) - 1
  BY <1>2, <1>4, <1>5, <1>7
<1>9. ASSUME NEW i \in 1..(n - 1) PROVE y[i] = s[i]
  <2>1. i <= Len(a) /\ i \in 1..(Len(a) + Len(b))
    BY <1>2, <1>4, <1>5
  <2> QED BY <2>1, <1>4, <1>7
<1>10. ASSUME NEW i \in n..(Len(s) - 1) PROVE y[i] = s[i + 1]
  <2>1. i - (n - 1) \in 1..(Len(s) - n) /\ n + (i - (n - 1)) = i + 1 /\ ~(i <= n - 1)
    BY <1>2
  <2>2. i \in 1..(Len(a) + Len(b))
    BY <1>2, <1>4, <1>5
  <2>3. y[i] = b[i - (n - 1)]
    BY <2>1, <2>2, <1>4, <1>7
  <2> QED BY <2>1, <2>3, <1>5
<1> QED BY <1>7, <1>8, <1>9, <1>10 DEF y

\* Taking a key back takes out its entry, or nothing.
LEMMA WithoutIs ==
  ASSUME NEW E, NEW s \in Seq(E), NEW k
  PROVE  \/ Without(s, k) = s /\ \A i \in 1..Len(s) : s[i].key # k
         \/ \E n \in 1..Len(s) : s[n].key = k /\ Without(s, k) = RemoveAt(s, n)
<1> DEFINE Hit(x) == x.key = k
           I == {i \in 1..Len(s) : Hit(s[i])}
           rest == Without(s, k)
           n == SelectInSeq(s, LAMBDA e : e.key = k)
<1>1. n = IF I # {} THEN Min(I) ELSE 0
  BY DEF SelectInSeq
<1>2. DOMAIN s = 1..Len(s) /\ Len(s) \in Nat
  OBVIOUS
<1>3. CASE I = {}
  <2>1. rest = s
    BY <1>2, <1>3 DEF Without, RemoveFirstMatch
  <2> QED BY <1>3, <2>1
<1>4. CASE I # {}
  <2>1. Min(I) \in I
    <3>1. I \subseteq Nat
      BY <1>2
    <3> HIDE DEF I
    <3> QED BY <3>1, <1>4, MinIsLeast
  <2>2. n \in 1..Len(s) /\ s[n].key = k
    BY <1>1, <1>4, <2>1
  <2>3. rest = RemoveAt(s, n)
    BY <2>2 DEF Without, RemoveFirstMatch
  <2> QED BY <2>2, <2>3
<1> QED BY <1>3, <1>4

\* A removal loses only entries of its key.
LEMMA RemoveWorks ==
  ASSUME NEW E, NEW s \in Seq(E), NEW k
  PROVE  /\ Without(s, k) \in Seq(E)
         /\ ToSet(Without(s, k)) \subseteq ToSet(s)
         /\ \A x \in ToSet(s) : x.key # k => x \in ToSet(Without(s, k))
<1> DEFINE rest == Without(s, k)
<1>2. DOMAIN s = 1..Len(s) /\ Len(s) \in Nat
  OBVIOUS
<1>3. CASE rest = s
  BY <1>3
<1>4. ASSUME NEW n \in 1..Len(s), s[n].key = k, rest = RemoveAt(s, n)
      PROVE  /\ rest \in Seq(E) /\ ToSet(rest) \subseteq ToSet(s)
             /\ \A x \in ToSet(s) : x.key # k => x \in ToSet(rest)
  <2> HIDE DEF rest
  <2>7. /\ rest \in Seq(E) /\ Len(rest) = Len(s) - 1
        /\ \A i \in 1..(n - 1) : rest[i] = s[i]
        /\ \A i \in n..(Len(s) - 1) : rest[i] = s[i + 1]
    BY <1>4, RemoveAtIs
  <2>8. DOMAIN rest = 1..(Len(s) - 1)
    BY <2>7
  <2>9. ASSUME NEW i \in 1..(Len(s) - 1) PROVE rest[i] \in ToSet(s)
    BY <2>7, <1>2, <1>4 DEF ToSet
  <2>10. ASSUME NEW i \in 1..Len(s), s[i].key # k PROVE s[i] \in ToSet(rest)
    <3>1. CASE i < n
      <4>1. i \in 1..(n - 1) /\ i \in 1..(Len(s) - 1)
        BY <3>1, <1>4, <1>2
      <4> QED BY <4>1, <2>7, <2>8 DEF ToSet
    <3>2. CASE i > n
      <4>1. i - 1 \in n..(Len(s) - 1) /\ i - 1 + 1 = i /\ i - 1 \in 1..(Len(s) - 1)
        BY <3>2, <1>4, <1>2
      <4> QED BY <4>1, <2>7, <2>8 DEF ToSet
    <3>3. i # n
      BY <1>4, <2>10
    <3> QED BY <3>1, <3>2, <3>3, <1>4, <1>2
  <2> QED BY <1>2, <2>7, <2>8, <2>9, <2>10 DEF ToSet
<1> QED BY <1>3, <1>4, WithoutIs

-----------------------------------------------------------------------------
(* Nothing is gone untold.                                                 *)

\* An entry is a key and an operation, and a list of them a sequence.
IsEntry(e)   == e = [key |-> e.key, op |-> e.op]
EntryList(s) == s \in Seq(ToSet(s)) /\ \A e \in ToSet(s) : IsEntry(e)
IsJob(j) == j = [entries |-> j.entries, redraw |-> j.redraw, reply |-> j.reply,
                 shown |-> j.shown, wasDisk |-> j.wasDisk]

\* A Save asks for what is staged, and nobody stages more before it is answered;
\* once the core has written, the reader is owed nothing.
SaveOwes(h) ==
  pc[h] = "apply" => /\ owed = {} \/ job[h].entries = staged
                     /\ job[h].reply # None /\ job[h].reply.end = "ok" => owed = {}

KeepInv ==
  /\ EntryList(staged)
  /\ job = [a \in Actors |-> job[a]]
  /\ \A h \in Handlers : pc[h] \in Waits => IsJob(job[h])
  /\ \A h \in Handlers : pc[h] = "preview" => EntryList(job[h].entries)
  /\ \A h \in Handlers : SaveOwes(h)
  /\ KeptUntilTold

\* The job an actor is left with when a stretch ends.
Takes(a, j) == job' = [job EXCEPT ![a] = j]

\* A request leaves a job without a reply.
LEMMA AskTakes ==
  ASSUME NEW a, NEW wait, NEW entries, NEW redraw, Ask(a, wait, entries, redraw)
  PROVE  \E j : Takes(a, j) /\ IsJob(j) /\ j.entries = entries /\ j.reply = None
<1> DEFINE new == [entries |-> entries, redraw |-> redraw, reply |-> None,
                   shown |-> strip.diff, wasDisk |-> disk]
<1>1. IsJob(new) /\ new.entries = entries /\ new.reply = None
  BY DEF IsJob
<1>2. Takes(a, new)
  BY DEF Ask, Takes
<1> HIDE DEF new
<1> QED BY <1>1, <1>2

\* A handler that returns leaves none.
LEMMA SettleTakes ==
  ASSUME NEW a, NEW redraw, Settle(a, redraw)
  PROVE  Takes(a, None)
BY DEF Settle, Takes

\* The end of a stretch that is not the start of a preview or a save.
Ends(a) == \/ Moves1(a, "idle") /\ Takes(a, None)
           \/ Moves1(a, "refresh") /\ \E j : Takes(a, j) /\ IsJob(j)

\* A handler that returns ends its stretch.
LEMMA SettleEnds ==
  ASSUME PcOK, NEW a \in Actors, NEW redraw, Settle(a, redraw)
  PROVE  Ends(a)
BY SettleMoves, SettleTakes DEF Ends

\* So does one that shows the strip, at once or after a preview.
LEMMA RefreshPendingEnds ==
  ASSUME PcOK, NEW a \in Actors, NEW entries, NEW mv, NEW redraw,
         RefreshPending(a, entries, mv, redraw)
  PROVE  Ends(a)
<1>1. CASE Settle(a, redraw)
  BY <1>1, SettleEnds
<1>2. CASE Ask(a, "refresh", entries, redraw)
  <2>1. "refresh" \in Waits
    BY DEF Waits
  <2> QED BY <1>2, <2>1, AskMoves, AskTakes DEF Ends
<1> QED BY <1>1, <1>2 DEF RefreshPending

\* After it nobody but a waits for anything new.
LEMMA EndsJobs ==
  ASSUME KeepInv, PcOK, NEW a \in Actors, Ends(a)
  PROVE  /\ job' = [b \in Actors |-> job'[b]]
         /\ \A h \in Handlers : pc'[h] \in Waits => IsJob(job'[h])
         /\ \A h \in Handlers : /\ pc'[h] = "preview" => pc[h] = "preview" /\ job'[h] = job[h]
                                /\ pc'[h] = "apply" => pc[h] = "apply" /\ job'[h] = job[h]
<1>1. PICK j : /\ Takes(a, j)
               /\ Moves1(a, "idle") \/ (Moves1(a, "refresh") /\ IsJob(j))
  BY DEF Ends
<1>2. job' = [b \in Actors |-> IF b = a THEN j ELSE job[b]]
  BY <1>1 DEF KeepInv, Takes
<1>3. \A h \in Handlers : h # a => pc'[h] = pc[h]
  BY <1>1 DEF Moves1
<1>4. \A h \in Handlers : job'[h] = IF h = a THEN j ELSE job[h]
  BY <1>2 DEF Actors
<1>5. ASSUME NEW h \in Handlers, pc'[h] \in Waits PROVE IsJob(job'[h])
  BY <1>1, <1>3, <1>4, <1>5 DEF KeepInv, Moves1, Waits
<1>6. ASSUME NEW h \in Handlers, pc'[h] \in {"preview", "apply"}
      PROVE  pc'[h] = pc[h] /\ job'[h] = job[h]
  BY <1>1, <1>3, <1>4, <1>6 DEF Moves1
<1>7. job' = [b \in Actors |-> job'[b]]
  BY <1>2
<1> QED BY <1>5, <1>6, <1>7

\* The empty list.
LEMMA NothingStaged ==
  EntryList(<<>>) /\ ToSet(<<>>) = {}
<1>1. ToSet(<<>>) = {}
  BY DEF ToSet
<1> QED BY <1>1 DEF EntryList

\* A stretch that ends with the stages as they were, or discarded and said to be.
LEMMA EndsKept ==
  ASSUME KeepInv, PcOK, NEW a \in Actors, Ends(a),
         UNCHANGED <<staged, owed>> \/ (staged' = <<>> /\ owed' = {})
  PROVE  KeepInv'
<1>1. /\ job' = [b \in Actors |-> job'[b]]
      /\ \A h \in Handlers : pc'[h] \in Waits => IsJob(job'[h])
      /\ \A h \in Handlers : /\ pc'[h] = "preview" => pc[h] = "preview" /\ job'[h] = job[h]
                             /\ pc'[h] = "apply" => pc[h] = "apply" /\ job'[h] = job[h]
  BY EndsJobs
<1>2. EntryList(staged') /\ KeptUntilTold'
  BY NothingStaged DEF KeepInv, KeptUntilTold, Bares
<1>3. \A h \in Handlers : SaveOwes(h)'
  BY <1>1 DEF KeepInv, SaveOwes
<1>4. \A h \in Handlers : pc'[h] = "preview" => EntryList(job'[h].entries)
  BY <1>1 DEF KeepInv
<1> HIDE DEF EntryList, IsJob
<1> QED BY <1>1, <1>2, <1>3, <1>4 DEF KeepInv

\* The one waiting handler ends, whatever it staged.
LEMMA LastEndsKept ==
  ASSUME KeepInv, PcOK, NEW h \in Handlers, \A g \in Handlers : g # h => pc[g] = "idle",
         pc[h] # "apply", Ends(h), EntryList(staged'), KeptUntilTold'
  PROVE  KeepInv'
<1>a. h \in Actors
  BY DEF Actors
<1>1. /\ job' = [b \in Actors |-> job'[b]]
      /\ \A g \in Handlers : pc'[g] \in Waits => IsJob(job'[g])
      /\ \A g \in Handlers : /\ pc'[g] = "preview" => pc[g] = "preview" /\ job'[g] = job[g]
                             /\ pc'[g] = "apply" => pc[g] = "apply" /\ job'[g] = job[g]
  BY <1>a, EndsJobs
<1>2. \A g \in Handlers : SaveOwes(g)'
  BY <1>1 DEF SaveOwes
<1>3. \A g \in Handlers : pc'[g] = "preview" => EntryList(job'[g].entries)
  BY <1>1 DEF KeepInv
<1> QED BY <1>1, <1>2, <1>3 DEF KeepInv

\* A press that asks the core and stages nothing yet.
LEMMA AskKept ==
  ASSUME KeepInv, PcOK, NEW h \in Handlers, \A g \in Handlers : pc[g] = "idle",
         NEW wait \in Waits, NEW entries, NEW redraw, Ask(h, wait, entries, redraw),
         wait = "preview" => EntryList(entries),
         wait = "apply" => entries = staged,
         UNCHANGED <<staged, owed>>
  PROVE  KeepInv'
<1>1. PICK j : Takes(h, j) /\ IsJob(j) /\ j.entries = entries /\ j.reply = None
  BY AskTakes
<1>2. h \in Actors /\ job' = [b \in Actors |-> IF b = h THEN j ELSE job[b]]
  BY <1>1 DEF KeepInv, Takes, Actors
<1>3. Moves1(h, wait)
  BY <1>2, AskMoves
<1>4. /\ job'[h] = j
      /\ \A g \in Handlers : g # h => pc'[g] = "idle"
      /\ pc'[h] = wait
  BY <1>2, <1>3 DEF Moves1
<1>5. \A g \in Handlers : pc'[g] \in Waits => IsJob(job'[g])
  BY <1>1, <1>4 DEF Waits
<1>6. \A g \in Handlers : pc'[g] = "preview" => EntryList(job'[g].entries)
  BY <1>1, <1>4
<1>7. \A g \in Handlers : SaveOwes(g)'
  BY <1>1, <1>4 DEF SaveOwes
<1>8. job' = [b \in Actors |-> job'[b]]
  BY <1>2
<1>9. EntryList(staged') /\ KeptUntilTold'
  BY DEF KeepInv, KeptUntilTold, Bares
<1> QED BY <1>5, <1>6, <1>7, <1>8, <1>9 DEF KeepInv

\* A set entry leaves a list of entries.
LEMMA SetList ==
  ASSUME NEW entries, EntryList(entries), NEW e, IsEntry(e)
  PROVE  EntryList(Set(entries, e))
<1> DEFINE E == ToSet(entries) \cup {e}
<1>1. entries \in Seq(E)
  <2>1. entries \in Seq(ToSet(entries))
    BY DEF EntryList
  <2> QED BY <2>1, SeqMonotonic
<1>2. Set(entries, e) \in Seq(E)
  <2> HIDE DEF E
  <2> e \in E
    BY DEF E
  <2> QED BY <1>1, SetWorks
<1> DEFINE t == Set(entries, e)
<1> HIDE DEF t
<1>3. t \in Seq(E)
  BY <1>2 DEF t
<1>4. ToSet(t) \subseteq E
  BY <1>3 DEF ToSet
<1>5. t \in Seq(ToSet(t))
  BY <1>3 DEF ToSet
<1>6. \A x \in ToSet(t) : IsEntry(x)
  BY <1>4 DEF EntryList
<1> QED BY <1>5, <1>6 DEF EntryList, t

\* An entry without its range has the same key.
LEMMA BareKey ==
  ASSUME NEW x, IsEntry(x)
  PROVE  Bare(x).key = x.key
BY DEF IsEntry, Bare

\* Recording the ranges changes no key.
LEMMA RecordList ==
  ASSUME NEW entries, EntryList(entries), NEW reply
  PROVE  EntryList(Record(entries, reply))
<1> DEFINE R(i) == [entries[i] EXCEPT !.op.expect = reply.ranges[i]]
           t == Record(entries, reply)
<1>1. DOMAIN entries = 1..Len(entries) /\ Len(entries) \in Nat
  BY DEF EntryList
<1>2. t = [i \in 1..Len(entries) |-> R(i)]
  BY <1>1 DEF Record
<1>3. ASSUME NEW i \in 1..Len(entries) PROVE IsEntry(t[i])
  <2>1. IsEntry(entries[i])
    BY <1>1 DEF EntryList, ToSet
  <2>2. t[i] = R(i)
    BY <1>2
  <2> HIDE DEF t
  <2> QED BY <2>1, <2>2 DEF IsEntry
<1> HIDE DEF t, R
<1>4. ToSet(t) = {t[i] : i \in 1..Len(entries)}
  BY <1>2 DEF ToSet
<1>5. t \in Seq(ToSet(t))
  BY <1>1, <1>2, <1>4
<1> QED BY <1>3, <1>4, <1>5 DEF EntryList, t

\* Setting a list leaves every key that was staged staged.
LEMMA SetAllKeeps ==
  ASSUME NEW base, EntryList(base), NEW more, EntryList(more)
  PROVE  /\ EntryList(SetAll(base, more))
         /\ \A x \in ToSet(base) : \E y \in ToSet(SetAll(base, more)) : y.key = x.key
<1> DEFINE E == ToSet(base) \cup ToSet(more)
           Covers(t) == \A x \in ToSet(base) : \E y \in ToSet(t) : y.key = x.key
           A == {t \in Seq(E) : Covers(t)}
           n == Len(more)
<1>1. DOMAIN more = 1..n /\ n \in Nat
  BY DEF EntryList
<1>2. base \in A
  <2>1. base \in Seq(ToSet(base))
    BY DEF EntryList
  <2>2. base \in Seq(E)
    BY <2>1, SeqMonotonic
  <2> QED BY <2>2
<1>3. ASSUME NEW t \in A, NEW i \in 1..n PROVE Set(t, more[i]) \in A
  <2>1. more[i] \in E
    BY <1>1 DEF ToSet
  <2>2. t \in Seq(E) /\ Covers(t)
    OBVIOUS
  <2> DEFINE u == Set(t, more[i])
  <2> HIDE DEF E
  <2>3. u \in Seq(E) /\ \A x \in ToSet(t) : \E y \in ToSet(u) : y.key = x.key
    BY <2>1, <2>2, SetWorks
  <2> HIDE DEF u
  <2>4. Covers(u)
    BY <2>2, <2>3
  <2> QED BY <2>3, <2>4 DEF u
<1>4. SetAll(base, more) \in A
  <2> HIDE DEF A, n
  <2> QED BY <1>1, <1>2, <1>3, SetAllSteps
<1> DEFINE t == SetAll(base, more)
<1>5. t \in Seq(E) /\ Covers(t)
  <2> HIDE DEF t
  <2> t \in A
    BY <1>4 DEF t
  <2> QED OBVIOUS
<1> HIDE DEF t, Covers
<1>6. ToSet(t) \subseteq E /\ t \in Seq(ToSet(t))
  BY <1>5 DEF ToSet
<1>7. EntryList(t)
  BY <1>6 DEF EntryList
<1> QED BY <1>5, <1>7 DEF t, Covers

LEMMA BaresOf ==
  ASSUME NEW s, EntryList(s), NEW e \in Bares(s)
  PROVE  \E x \in ToSet(s) : e = Bare(x) /\ e.key = x.key
BY BareKey DEF Bares, EntryList

\* What was owed is staged, under the same key; and a set that is staged at once
\* is staged.
LEMMA PreviewKept ==
  ASSUME ExclInv, KeepInv, NEW h \in Handlers, Preview(h)
  PROVE  KeepInv'
<1>a. h \in Actors /\ PcOK /\ pc[h] = "preview"
  BY DEF Actors, ExclInv, Preview
<1>b. \A g \in Handlers : g # h => pc[g] = "idle"
  BY <1>a, OthersIdle
<1> DEFINE reply == job[h].reply
           all == SetAll(staged, Record(job[h].entries, reply))
<1>1. CASE ReportFailure(reply) /\ Settle(h, FALSE)
  <2>1. Ends(h)
    BY <1>a, <1>1, SettleEnds
  <2>2. UNCHANGED <<staged, owed>> \/ (staged' = <<>> /\ owed' = {})
    BY <1>1 DEF ReportFailure, Discard
  <2> QED BY <1>a, <2>1, <2>2, EndsKept
<1>2. CASE /\ staged' = all
           /\ owed' = {e \in owed : \A x \in ToSet(all) : x.key # e.key} \cup Bares(all)
           /\ RefreshPending(h, all, move, FALSE)
  <2>1. EntryList(all) /\ \A x \in ToSet(staged) : \E y \in ToSet(all) : y.key = x.key
    <3>1. EntryList(staged) /\ EntryList(Record(job[h].entries, reply))
      BY <1>a, RecordList DEF KeepInv
    <3> QED BY <3>1, SetAllKeeps
  <2> HIDE DEF all
  <2>2. ASSUME NEW e \in owed PROVE \E y \in ToSet(all) : y.key = e.key
    <3>1. e \in Bares(staged) /\ EntryList(staged)
      BY <2>2 DEF KeepInv, KeptUntilTold
    <3> QED BY <2>1, <3>1, BaresOf
  <2>3. KeptUntilTold'
    BY <1>2, <2>2 DEF KeptUntilTold, Bares
  <2>4. Ends(h)
    BY <1>a, <1>2, RefreshPendingEnds
  <2> QED BY <1>a, <1>b, <1>2, <2>1, <2>3, <2>4, LastEndsKept
<1> QED BY <1>1, <1>2 DEF Preview

\* What is still owed after an unstage is still staged.
LEMMA UnstageKept ==
  ASSUME Patient, ExclInv, KeepInv, NEW h \in Handlers, NEW k, Unstage(h, k)
  PROVE  KeepInv'
<1> DEFINE rest == Without(staged, k)
<1>a. h \in Actors /\ PcOK /\ \A g \in Handlers : pc[g] = "idle"
  BY PressAlone DEF Actors, ExclInv, Unstage
<1>1. /\ staged' = rest
      /\ owed' = {e \in owed : e.key # k}
      /\ RefreshPending(h, rest, move, TRUE)
  BY DEF Unstage
<1>2. EntryList(staged) /\ staged \in Seq(ToSet(staged))
  BY DEF KeepInv, EntryList
<1>3. /\ rest \in Seq(ToSet(staged))
      /\ ToSet(rest) \subseteq ToSet(staged)
      /\ \A x \in ToSet(staged) : x.key # k => x \in ToSet(rest)
  BY <1>2, RemoveWorks
<1> HIDE DEF rest
<1>4. rest \in Seq(ToSet(rest))
  BY <1>3 DEF ToSet
<1>5. EntryList(rest)
  BY <1>2, <1>3, <1>4 DEF EntryList
<1>6. ASSUME NEW e \in owed, e.key # k PROVE e \in Bares(rest)
  <2>1. e \in Bares(staged)
    BY <1>6 DEF KeepInv, KeptUntilTold
  <2>2. PICK x \in ToSet(staged) : e = Bare(x) /\ e.key = x.key
    BY <1>2, <2>1, BaresOf
  <2>3. x \in ToSet(rest)
    BY <1>3, <1>6, <2>2
  <2> QED BY <2>2, <2>3 DEF Bares
<1>7. KeptUntilTold'
  BY <1>1, <1>6 DEF KeptUntilTold, Bares
<1>8. Ends(h)
  BY <1>a, <1>1, RefreshPendingEnds
<1>9. pc[h] # "apply"
  BY <1>a
<1> QED BY <1>a, <1>1, <1>5, <1>7, <1>8, <1>9, LastEndsKept

\* The reader keeps the invariant.
LEMMA ReaderKept ==
  ASSUME Patient, ExclInv, KeepInv, NEW h \in Handlers, ReaderStep(h)
  PROVE  KeepInv'
<1>a. h \in Actors /\ PcOK /\ {"preview", "extract", "apply", "applyMove"} \subseteq Waits
  BY DEF Actors, ExclInv, Waits
<1>1. ASSUME NEW op, Stage(h, op) PROVE KeepInv'
  <2>1. \A g \in Handlers : pc[g] = "idle"
    BY <1>1, PressAlone DEF Stage
  <2>2. Ask(h, "preview", Set(staged, Entry(op)), FALSE) /\ UNCHANGED <<staged, owed>>
    BY <1>1 DEF Stage
  <2>3. IsEntry(Entry(op))
    BY DEF IsEntry, Entry
  <2>4. EntryList(Set(staged, Entry(op)))
    BY <2>3, SetList DEF KeepInv
  <2> QED BY <1>a, <2>1, <2>2, <2>4, AskKept
<1>2. ASSUME NEW op, StageMove(h, op) PROVE KeepInv'
  <2>1. \A g \in Handlers : pc[g] = "idle"
    BY <1>2, PressAlone DEF StageMove
  <2>2. Ask(h, "extract", <<Entry(op)>>, FALSE) /\ UNCHANGED <<staged, owed>>
    BY <1>2 DEF StageMove
  <2> QED BY <1>a, <2>1, <2>2, AskKept
<1>3. CASE DiscardAll(h)
  <2>1. Ends(h) /\ staged' = <<>> /\ owed' = {}
    BY <1>a, <1>3, SettleEnds DEF DiscardAll, Discard
  <2> QED BY <1>a, <2>1, EndsKept
<1>4. CASE Save(h)
  <2>1. \A g \in Handlers : pc[g] = "idle"
    BY <1>4, PressAlone DEF Save
  <2>2. UNCHANGED <<staged, owed>>
    BY <1>4 DEF Save
  <2>3. Ask(h, "applyMove", <<move.entry>>, TRUE) \/ Ask(h, "apply", staged, TRUE)
    BY <1>4 DEF Save
  <2> QED BY <1>a, <2>1, <2>2, <2>3, AskKept
<1> QED BY <1>1, <1>2, <1>3, <1>4, UnstageKept DEF ReaderStep

\* An answer to a Save: what was written is owed no more, and what was not is
\* still staged, or said to be gone.
LEMMA AppliedKept ==
  ASSUME ExclInv, KeepInv, NEW h \in Handlers, Applied(h)
  PROVE  KeepInv'
<1>1. h \in Actors /\ PcOK
  BY DEF Actors, ExclInv
<1>2. Ends(h)
  BY <1>1, SettleEnds DEF Applied
<1>3. job[h].reply.end = "ok" => owed = {}
  BY DEF KeepInv, SaveOwes, Applied
<1>4. UNCHANGED <<staged, owed>> \/ (staged' = <<>> /\ owed' = {})
  BY <1>3 DEF Applied, Spend, Discard
<1> QED BY <1>1, <1>2, <1>4, EndsKept

\* So does every answer a handler gets,
LEMMA HandlerKept ==
  ASSUME ExclInv, KeepInv, NEW h \in Handlers, HandlerStep(h)
  PROVE  KeepInv'
<1>a. h \in Actors /\ PcOK
  BY DEF Actors, ExclInv
<1>1. CASE Extract(h)
  <2>1. Ends(h)
    BY <1>a, <1>1, SettleEnds, RefreshPendingEnds DEF Extract
  <2>2. UNCHANGED <<staged, owed>> \/ (staged' = <<>> /\ owed' = {})
    BY <1>1 DEF Extract, ReportFailure, Discard
  <2> QED BY <1>a, <2>1, <2>2, EndsKept
<1>2. CASE MoveApplied(h)
  <2>1. Ends(h)
    BY <1>a, <1>2, SettleEnds DEF MoveApplied
  <2>2. UNCHANGED <<staged, owed>> \/ (staged' = <<>> /\ owed' = {})
    BY <1>2 DEF MoveApplied, Discard
  <2> QED BY <1>a, <2>1, <2>2, EndsKept
<1> QED BY <1>1, <1>2, PreviewKept, AppliedKept DEF HandlerStep

\* and the answer to a preview for the strip.
LEMMA RefreshKept ==
  ASSUME ExclInv, KeepInv, NEW a \in Actors, Refresh(a)
  PROVE  KeepInv'
<1>1. PcOK /\ Ends(a)
  BY SettleEnds DEF ExclInv, Refresh
<1>2. UNCHANGED <<staged, owed>> \/ (staged' = <<>> /\ owed' = {})
  BY DEF Refresh, ReportFailure, Discard
<1> QED BY <1>1, <1>2, EndsKept

\* What the core writes was staged by the reader, who is owed that much less.
LEMMA WrittenOwes ==
  ASSUME NEW entries, Written(entries)
  PROVE  /\ owed' \subseteq owed
         /\ Run(disk, Ops(entries)).end = "ok" => owed' = owed \ Bares(entries)
BY DEF Written

\* The core, other programs and timeouts: nothing is staged or unstaged.
LEMMA CoreKept ==
  ASSUME ExclInv, KeepInv,
         \/ \E a \in Actors : CoreReads(a) \/ CoreWrites(a) \/ Timeout(a)
         \/ CoreWritesLate \/ ExternalEdit \/ WindowCloses \/ UNCHANGED vars
  PROVE  KeepInv'
<1>a. UNCHANGED <<pc, staged>>
  BY DEF CoreReads, CoreWrites, Timeout, CoreWritesLate, ExternalEdit, WindowCloses, vars
<1>b. owed' \subseteq owed => EntryList(staged') /\ KeptUntilTold'
  BY <1>a DEF KeepInv, KeptUntilTold, Bares
<1>1. ASSUME owed' \subseteq owed, UNCHANGED job PROVE KeepInv'
  <2>1. \A h \in Handlers : SaveOwes(h)'
    BY <1>a, <1>1 DEF KeepInv, SaveOwes
  <2> HIDE DEF EntryList, IsJob
  <2> QED BY <1>a, <1>b, <1>1, <2>1 DEF KeepInv
<1>2. ASSUME NEW a \in Actors, NEW reply, owed' \subseteq owed,
             \/ job' = [job EXCEPT ![a].reply = reply]
             \/ job' = [job EXCEPT ![a].reply = reply, ![a].wasDisk = disk],
             a \in Handlers /\ pc[a] = "apply" /\ reply.end = "ok" => owed' = {}
      PROVE  KeepInv'
  <2>1. \A g \in Actors : g # a => job'[g] = job[g]
    BY <1>2 DEF KeepInv
  <2>2. ASSUME a \in Handlers, pc[a] \in Waits
        PROVE  IsJob(job'[a]) /\ job'[a].entries = job[a].entries /\ job'[a].reply = reply
    <3>1. IsJob(job[a]) /\ a \in DOMAIN job
      BY <2>2 DEF KeepInv
    <3> QED BY <1>2, <3>1 DEF IsJob
  <2>3. \A h \in Handlers : SaveOwes(h)'
    BY <1>a, <1>2, <2>1, <2>2 DEF KeepInv, SaveOwes, Actors, Waits
  <2>4. \A h \in Handlers : pc'[h] \in Waits => IsJob(job'[h])
    BY <1>a, <2>1, <2>2 DEF KeepInv, Actors
  <2>5. \A h \in Handlers : pc'[h] = "preview" => EntryList(job'[h].entries)
    BY <1>a, <2>1, <2>2 DEF KeepInv, Actors, Waits
  <2>6. job' = [b \in Actors |-> job'[b]]
    BY <1>2 DEF KeepInv
  <2> QED BY <1>b, <1>2, <2>3, <2>4, <2>5, <2>6 DEF KeepInv
<1>3. ASSUME NEW a \in Actors, CoreReads(a) PROVE KeepInv'
  <2>1. a \in Handlers => pc[a] # "apply"
    BY <1>3 DEF CoreReads, Writes
  <2> QED BY <1>2, <1>3, <2>1 DEF CoreReads
<1>4. ASSUME NEW a \in Actors, CoreWrites(a) PROVE KeepInv'
  <2> DEFINE reply == Run(disk, Ops(job[a].entries))
  <2> HIDE DEF reply
  <2>1. job' = [job EXCEPT ![a].reply = reply]
    BY <1>4 DEF CoreWrites, reply
  <2>2. owed' \subseteq owed /\ (reply.end = "ok" => owed' = owed \ Bares(job[a].entries))
    BY <1>4, WrittenOwes DEF CoreWrites, reply
  <2>3. ASSUME a \in Handlers, pc[a] = "apply", reply.end = "ok" PROVE owed' = {}
    <3>1. owed = {} \/ job[a].entries = staged
      BY <2>3 DEF KeepInv, SaveOwes
    <3> QED BY <2>2, <2>3, <3>1 DEF KeepInv, KeptUntilTold
  <2> QED BY <1>2, <2>1, <2>2, <2>3
<1>5. ASSUME NEW a \in Actors, Timeout(a) PROVE KeepInv'
  <2>1. job' = [job EXCEPT ![a].reply = Failed] /\ UNCHANGED owed /\ Failed.end # "ok"
    BY <1>5 DEF Timeout, Failed
  <2> HIDE DEF Failed
  <2> QED BY <1>2, <2>1
<1>6. CASE CoreWritesLate
  BY <1>1, <1>6, WrittenOwes DEF CoreWritesLate
<1>7. CASE ExternalEdit \/ WindowCloses \/ UNCHANGED vars
  BY <1>1, <1>7 DEF ExternalEdit, WindowCloses, vars
<1> QED BY <1>3, <1>4, <1>5, <1>6, <1>7

\* The watcher and the redraw discard everything or nothing.
LEMMA RedrawKept ==
  ASSUME ExclInv, KeepInv, ChangeSeen \/ Drawn
  PROVE  KeepInv'
<1>a. Draw \in Actors /\ Draw \notin Handlers /\ PcOK
  BY StagingAssumption DEF Actors, ExclInv
<1>1. CASE ChangeSeen
  <2>1. UNCHANGED <<staged, owed>> \/ (staged' = <<>> /\ owed' = {})
    BY <1>1 DEF ChangeSeen, Discard
  <2>2. UNCHANGED job /\ \A h \in Handlers : pc'[h] = pc[h]
    <3>1. CASE fresh
      BY <1>1, <3>1 DEF ChangeSeen
    <3>2. CASE ~fresh
      <4>1. /\ pc' = [pc EXCEPT ![Draw] = IF pc[Draw] = "idle" THEN "resolve" ELSE pc[Draw]]
            /\ UNCHANGED job
        BY <1>1, <3>2 DEF ChangeSeen
      <4> QED BY <4>1, <1>a DEF PcOK, Actors
    <3> QED BY <3>1, <3>2
  <2>3. EntryList(staged') /\ KeptUntilTold'
    BY <2>1, NothingStaged DEF KeepInv, KeptUntilTold, Bares
  <2>4. \A h \in Handlers : SaveOwes(h)'
    BY <2>1, <2>2 DEF KeepInv, SaveOwes
  <2> QED BY <2>2, <2>3, <2>4 DEF KeepInv
<1>2. CASE Drawn
  <2>1. Ends(Draw)
    BY <1>a, <1>2, SettleEnds, RefreshPendingEnds DEF Drawn
  <2>2. UNCHANGED <<staged, owed>>
    BY <1>2 DEF Drawn
  <2> QED BY <1>a, <2>1, <2>2, EndsKept
<1> QED BY <1>1, <1>2

\* Nothing a reader was shown as staged is gone unless it was written, taken back
\* or said to be discarded, whatever other programs save, whichever write goes
\* unanswered and lands later, and however many edits are staged: as long as the
\* reader waits for one answer before the next press.
THEOREM WorkIsKept == ASSUME Patient PROVE Spec => []KeptUntilTold
<1>1. Init => ExclInv /\ KeepInv
  <2> SUFFICES ASSUME Init PROVE ExclInv /\ KeepInv
    OBVIOUS
  <2>1. EntryList(staged) /\ KeptUntilTold
    BY NothingStaged DEF Init, KeptUntilTold
  <2> QED BY <2>1, InitExcludes DEF Init, KeepInv, SaveOwes, Actors, Waits
<1>2. ExclInv /\ KeepInv /\ [Next]_vars => (ExclInv /\ KeepInv)'
  <2> SUFFICES ASSUME ExclInv, KeepInv, [Next]_vars PROVE KeepInv'
    BY StepExcludes
  <2>1. CASE \E h \in Handlers : ReaderStep(h)
    BY <2>1, ReaderKept
  <2>2. CASE \E h \in Handlers : HandlerStep(h)
    BY <2>2, HandlerKept
  <2>3. CASE \E a \in Actors : Refresh(a)
    BY <2>3, RefreshKept
  <2>4. CASE ChangeSeen \/ Drawn
    BY <2>4, RedrawKept
  <2> QED BY <2>1, <2>2, <2>3, <2>4, CoreKept DEF Next
<1>3. KeepInv => KeptUntilTold
  BY DEF KeepInv
<1> QED BY <1>1, <1>2, <1>3, PTL DEF Spec

-----------------------------------------------------------------------------
(* The core's run of a list of operations: which lines it leaves, and that   *)
(* two runs of one list do to a key's line the same.                         *)

\* Documents as the program meets them: a key the file starts with has one line.
Docs == {d \in Seq(Lines) : \A i, j \in 1..Len(d) :
           i # j /\ d[i].key \in Keys => d[i].key # d[j].key}

\* What a document holds for a key: its one line, or nothing.
LEMMA OneLine ==
  ASSUME NEW d \in Docs, NEW k \in Keys, NEW i \in 1..Len(d), d[i].key = k
  PROVE  Find(d, k) = i /\ LinesOf(d, k) = <<d[i]>>
<1> DEFINE Hit(l) == l.key = k
           I  == {j \in 1..Len(d) : Hit(d[j])}
           at == {j \in DOMAIN d : d[j].key = k}
           Nth(n) == CHOOSE j \in at : Cardinality({m \in at : m <= j}) = n
<1>a. d \in Seq(Lines) /\ DOMAIN d = 1..Len(d) /\ Len(d) \in Nat
  BY DEF Docs
<1>1. I = {i} /\ at = {i}
  BY <1>a DEF Docs
<1>2. Find(d, k) = i
  <2>1. Find(d, k) = IF I # {} THEN Min(I) ELSE 0
    BY DEF Find, SelectInSeq
  <2>2. Min({i}) = i
    <3>1. {i} \subseteq Nat /\ {i} # {}
      BY <1>a
    <3>2. Min({i}) \in {i}
      BY <3>1, MinIsLeast
    <3> QED BY <3>2
  <2> HIDE DEF I
  <2> QED BY <1>1, <2>1, <2>2
<1>3. Cardinality({i}) = 1
  BY FS_Singleton
<1>4. Nth(1) = i
  <2>1. {m \in {i} : m <= i} = {i}
    BY <1>a
  <2> QED BY <1>1, <1>3, <2>1
<1>5. LinesOf(d, k) = [n \in 1..Cardinality(at) |-> d[Nth(n)]]
  BY DEF LinesOf
<1> HIDE DEF at, Nth
<1>6. LinesOf(d, k) = [n \in 1..1 |-> d[i]]
  <2>1. Cardinality(at) = 1
    BY <1>1, <1>3
  <2>2. ASSUME NEW n \in 1..1 PROVE d[Nth(n)] = d[i]
    <3>1. n = 1
      OBVIOUS
    <3> QED BY <1>4, <3>1
  <2> QED BY <1>5, <2>1, <2>2
<1> QED BY <1>2, <1>6

\* What a document holds for a key it has no line of: nothing.
LEMMA NoLine ==
  ASSUME NEW d \in Seq(Lines), NEW k, \A i \in 1..Len(d) : d[i].key # k
  PROVE  Find(d, k) = 0 /\ LinesOf(d, k) = <<>>
<1> DEFINE Hit(l) == l.key = k
           I  == {j \in 1..Len(d) : Hit(d[j])}
           at == {j \in DOMAIN d : d[j].key = k}
<1>1. I = {} /\ at = {}
  OBVIOUS
<1>2. Find(d, k) = 0
  <2>1. Find(d, k) = IF I # {} THEN Min(I) ELSE 0
    BY DEF Find, SelectInSeq
  <2> HIDE DEF I
  <2> QED BY <1>1, <2>1
<1>3. Cardinality({}) = 0
  BY FS_EmptySet
<1>5. LinesOf(d, k) = [n \in 1..Cardinality(at) |-> 
          d[CHOOSE j \in at : Cardinality({m \in at : m <= j}) = n]]
  BY DEF LinesOf
<1> HIDE DEF at
<1>6. 1..Cardinality(at) = {}
  BY <1>1, <1>3
<1> QED BY <1>2, <1>5, <1>6

\* Where the lines of a key are in a document, and how many.
At(d, k)    == {i \in DOMAIN d : d[i].key = k}
Low(S, j)   == {m \in S : m <= j}
Times(d, k) == Cardinality(At(d, k))

\* The lines of a key, by their ranks.
LEMMA LinesAre ==
  ASSUME NEW d, NEW k
  PROVE  LinesOf(d, k) = [n \in 1..Times(d, k) |-> d[CHOOSE i \in At(d, k) : Cardinality(Low(At(d, k), i)) = n]]
BY DEF LinesOf, At, Low, Times

\* Where a line has its key, in a document.
LEMMA AtFinite ==
  ASSUME NEW d \in Seq(Lines), NEW k
  PROVE  At(d, k) \subseteq Nat /\ IsFiniteSet(At(d, k)) /\ Times(d, k) \in Nat
<1>1. At(d, k) \subseteq 1..Len(d) /\ Len(d) \in Nat
  BY DEF At
<1>2. IsFiniteSet(1..Len(d))
  BY <1>1, FS_Interval
<1>3. IsFiniteSet(At(d, k))
  BY <1>1, <1>2, FS_Subset
<1> QED BY <1>1, <1>3, FS_CardinalityType DEF Times

\* One number of a finite set has a given rank among them.
LEMMA Ranked ==
  ASSUME NEW S \in SUBSET Nat, IsFiniteSet(S), NEW x \in 1..Cardinality(S)
  PROVE  \E j \in S : /\ Cardinality(Low(S, j)) = x
                      /\ \A i \in S : Cardinality(Low(S, i)) = x => i = j
<1> DEFINE c == Cardinality(S)
           f == [j \in S |-> Cardinality(Low(S, j))]
<1>1. c \in Nat
  BY FS_CardinalityType
<1>2. ASSUME NEW j \in S
      PROVE  IsFiniteSet(Low(S, j)) /\ Cardinality(Low(S, j)) \in 1..c
  <2>1. Low(S, j) \in SUBSET S /\ j \in Low(S, j)
    BY DEF Low
  <2>2. IsFiniteSet(Low(S, j)) /\ Cardinality(Low(S, j)) <= c
    BY <2>1, FS_Subset
  <2>3. Cardinality(Low(S, j)) \in Nat /\ Cardinality(Low(S, j)) # 0
    BY <2>1, <2>2, FS_CardinalityType, FS_EmptySet
  <2> QED BY <1>1, <2>2, <2>3
<1>3. ASSUME NEW i \in S, NEW j \in S, i < j
      PROVE  Cardinality(Low(S, i)) < Cardinality(Low(S, j))
  <2>1. j \notin Low(S, i) /\ Low(S, i) \cup {j} \in SUBSET Low(S, j)
    <3>1. i \in Nat /\ j \in Nat /\ \A m \in S : m \in Nat
      OBVIOUS
    <3>2. j \notin Low(S, i) /\ j \in Low(S, j)
      BY <1>3, <3>1 DEF Low
    <3>3. ASSUME NEW m \in Low(S, i) PROVE m \in Low(S, j)
      BY <1>3, <3>1 DEF Low
    <3> QED BY <3>2, <3>3
  <2>2. Cardinality(Low(S, i) \cup {j}) = Cardinality(Low(S, i)) + 1
    <3>1. IsFiniteSet(Low(S, i))
      BY <1>2
    <3> QED BY <2>1, <3>1, FS_AddElement
  <2>3. Cardinality(Low(S, i) \cup {j}) <= Cardinality(Low(S, j))
    <3>1. IsFiniteSet(Low(S, j))
      BY <1>2
    <3> QED BY <2>1, <3>1, FS_Subset
  <2> QED BY <1>2, <2>2, <2>3
<1>4. f \in Injection(S, 1..c)
  <2>1. f \in [S -> 1..c]
    BY <1>2
  <2>2. ASSUME NEW i \in S, NEW j \in S, f[i] = f[j] PROVE i = j
    <3>1. i < j \/ j < i \/ i = j
      OBVIOUS
    <3> QED BY <1>2, <1>3, <2>2, <3>1
  <2> HIDE DEF f
  <2> QED BY <2>1, <2>2 DEF Injection, IsInjective
<1>5. IsFiniteSet(1..c) /\ Cardinality(1..c) = c
  BY <1>1, FS_Interval
<1>6. f \in Surjection(S, 1..c)
  <2> HIDE DEF f
  <2> QED BY <1>4, <1>5, FS_Injection
<1>7. PICK j \in S : f[j] = x
  <2> HIDE DEF f
  <2> QED BY <1>6 DEF Surjection
<1>8. \A i \in S : f[i] = x => i = j
  BY <1>7, <1>2, <1>3
<1> QED BY <1>7, <1>8

\* Lines of a key moved in order are the same lines.
LEMMA LinesCarried ==
  ASSUME NEW d \in Seq(Lines), NEW e \in Seq(Lines), NEW k,
         NEW f \in Bijection(At(e, k), At(d, k)),
         \A i, j \in At(e, k) : i <= j <=> f[i] <= f[j],
         \A j \in At(e, k) : e[j] = d[f[j]]
  PROVE  LinesOf(e, k) = LinesOf(d, k)
<1> DEFINE A == At(d, k)
           B == At(e, k)
           c == Times(d, k)
<1>1. /\ A \in SUBSET Nat /\ IsFiniteSet(A) /\ B \in SUBSET Nat /\ IsFiniteSet(B) /\ c \in Nat
  BY AtFinite
<1>2. Times(e, k) = c
  BY <1>1, FS_Bijection DEF ExistsBijection, Times
<1>3. ASSUME NEW x \in 1..c
      PROVE  e[CHOOSE i \in B : Cardinality(Low(B, i)) = x] = d[CHOOSE i \in A : Cardinality(Low(A, i)) = x]
  <2>1. PICK i \in B : /\ Cardinality(Low(B, i)) = x
                       /\ \A j \in B : Cardinality(Low(B, j)) = x => j = i
    BY <1>1, <1>2, Ranked DEF Times
  <2>2. PICK j \in A : /\ Cardinality(Low(A, j)) = x
                       /\ \A m \in A : Cardinality(Low(A, m)) = x => m = j
    BY <1>1, Ranked DEF Times
  <2>3. f[i] = j
    <3> DEFINE g == [m \in Low(B, i) |-> f[m]]
    <3>0. /\ f \in [B -> A] /\ \A m \in A : \E n \in B : f[n] = m
          /\ \A m, n \in B : f[m] = f[n] => m = n
      BY DEF Bijection, Injection, IsInjective, Surjection
    <3>1. Low(B, i) \subseteq B /\ IsFiniteSet(Low(B, i))
      BY <1>1, FS_Subset DEF Low
    <3>2. g \in [Low(B, i) -> Low(A, f[i])]
      BY <3>0, <3>1 DEF Low
    <3>3. \A m, n \in Low(B, i) : g[m] = g[n] => m = n
      BY <3>0, <3>1
    <3>4. \A m \in Low(A, f[i]) : \E n \in Low(B, i) : g[n] = m
      BY <3>0 DEF Low
    <3> HIDE DEF g
    <3>5. g \in Bijection(Low(B, i), Low(A, f[i]))
      BY <3>2, <3>3, <3>4 DEF Bijection, Injection, IsInjective, Surjection
    <3>6. Cardinality(Low(A, f[i])) = x
      BY <2>1, <3>1, <3>5, FS_Bijection DEF ExistsBijection
    <3> QED BY <2>2, <3>0, <3>6
  <2>4. (CHOOSE m \in B : Cardinality(Low(B, m)) = x) = i
    <3> HIDE DEF B
    <3> QED BY <2>1
  <2>5. (CHOOSE m \in A : Cardinality(Low(A, m)) = x) = j
    <3> HIDE DEF A
    <3> QED BY <2>2
  <2> QED BY <2>3, <2>4, <2>5
<1>4. /\ LinesOf(e, k) = [x \in 1..c |-> e[CHOOSE i \in B : Cardinality(Low(B, i)) = x]]
      /\ LinesOf(d, k) = [x \in 1..c |-> d[CHOOSE i \in A : Cardinality(Low(A, i)) = x]]
  BY <1>2, LinesAre
<1> HIDE DEF A, B, c
<1> QED BY <1>3, <1>4

\* and lines that stayed where they were.
LEMMA LinesSame ==
  ASSUME NEW d \in Seq(Lines), NEW e \in Seq(Lines), NEW k,
         At(e, k) = At(d, k), \A j \in At(d, k) : e[j] = d[j]
  PROVE  LinesOf(e, k) = LinesOf(d, k)
<1> DEFINE f == [j \in At(e, k) |-> j]
<1>1. f \in Bijection(At(e, k), At(d, k))
  BY DEF Bijection, Injection, IsInjective, Surjection
<1>2. /\ \A i, j \in At(e, k) : i <= j <=> f[i] <= f[j]
      /\ \A j \in At(e, k) : e[j] = d[f[j]]
  OBVIOUS
<1> HIDE DEF f
<1> QED BY <1>1, <1>2, LinesCarried

Reworded(d, i, t) == [d EXCEPT ![i].text = t]

\* One line reads differently: only its key's text changes.
LEMMA Replaced ==
  ASSUME NEW d \in Docs, NEW i \in 1..Len(d), d[i].key \in Keys, NEW t \in Texts
  PROVE  LET y == Reworded(d, i, t)
         IN  /\ y \in Docs /\ Len(y) = Len(d)
             /\ \A j \in 1..Len(d) : y[j] = IF j = i THEN Line(d[i].key, t) ELSE d[j]
             /\ LinesOf(y, d[i].key) = <<Line(d[i].key, t)>>
             /\ \A k : k # d[i].key => LinesOf(y, k) = LinesOf(d, k)
<1> DEFINE y == Reworded(d, i, t)
<1>a. d \in Seq(Lines) /\ DOMAIN d = 1..Len(d) /\ Len(d) \in Nat
  BY DEF Docs
<1>b. d[i] \in Lines
  BY <1>a
<1>1. [d[i] EXCEPT !.text = t] = Line(d[i].key, t) /\ Line(d[i].key, t) \in Lines
  BY <1>b DEF Lines, Line
<1> DEFINE u == [d[i] EXCEPT !.text = t]
<1>2. y = [d EXCEPT ![i] = u]
  BY DEF Reworded
<1> HIDE DEF u, y
<1>3. /\ y \in Seq(Lines) /\ Len(y) = Len(d)
      /\ \A j \in 1..Len(d) : y[j] = IF j = i THEN Line(d[i].key, t) ELSE d[j]
  BY <1>a, <1>1, <1>2, ExceptSeq DEF u
<1>4. \A j \in 1..Len(d) : y[j].key = d[j].key
  BY <1>3 DEF Line
<1>5. y \in Docs
  BY <1>3, <1>4 DEF Docs
<1>6. LinesOf(y, d[i].key) = <<Line(d[i].key, t)>>
  BY <1>3, <1>4, <1>5, OneLine
<1>7. ASSUME NEW k, k # d[i].key PROVE LinesOf(y, k) = LinesOf(d, k)
  <2>1. At(y, k) = At(d, k)
    BY <1>a, <1>3, <1>4 DEF At
  <2>2. \A j \in At(d, k) : y[j] = d[j]
    BY <1>a, <1>3, <1>7 DEF At
  <2> QED BY <1>a, <1>3, <2>1, <2>2, LinesSame
<1> QED BY <1>3, <1>5, <1>6, <1>7 DEF y

\* A line is added, of a key no line had at the start.
LEMMA Added ==
  ASSUME NEW d \in Docs, NEW l \in Lines, l.key \notin Keys
  PROVE  LET y == Append(d, l)
         IN  /\ y \in Docs /\ Len(y) = Len(d) + 1
             /\ \A k : k # l.key => LinesOf(y, k) = LinesOf(d, k)
             /\ Times(y, l.key) = Times(d, l.key) + 1
<1> DEFINE y == Append(d, l)
<1>a. d \in Seq(Lines) /\ DOMAIN d = 1..Len(d) /\ Len(d) \in Nat
  BY DEF Docs
<1>3. /\ y \in Seq(Lines) /\ Len(y) = Len(d) + 1
      /\ \A j \in 1..Len(d) : y[j] = d[j]
      /\ y[Len(d) + 1] = l
  BY <1>a
<1> HIDE DEF y
<1>5. y \in Docs
  <2> SUFFICES ASSUME NEW i \in 1..Len(y), NEW j \in 1..Len(y), i # j, y[i].key \in Keys
               PROVE  y[i].key # y[j].key
    BY <1>3 DEF Docs
  <2>1. i \in 1..Len(d)
    BY <1>3, <1>a
  <2>2. CASE j \in 1..Len(d)
    BY <2>1, <2>2, <1>3 DEF Docs
  <2>3. CASE j = Len(d) + 1
    BY <2>1, <2>3, <1>3
  <2> QED BY <2>2, <2>3, <1>3, <1>a
<1>6. \A j \in DOMAIN y : j \in DOMAIN d \/ (j = Len(d) + 1 /\ y[j] = l)
  BY <1>3, <1>a
<1>7. ASSUME NEW k, k # l.key PROVE LinesOf(y, k) = LinesOf(d, k)
  <2>1. At(y, k) = At(d, k)
    BY <1>a, <1>3, <1>6, <1>7 DEF At
  <2>2. \A j \in At(d, k) : y[j] = d[j]
    BY <1>a, <1>3 DEF At
  <2> QED BY <1>a, <1>3, <2>1, <2>2, LinesSame
<1>8. Times(y, l.key) = Times(d, l.key) + 1
  <2>1. At(y, l.key) = At(d, l.key) \cup {Len(d) + 1} /\ Len(d) + 1 \notin At(d, l.key)
    BY <1>a, <1>3, <1>6 DEF At
  <2>2. IsFiniteSet(At(d, l.key))
    BY <1>a, AtFinite
  <2> QED BY <2>1, <2>2, FS_AddElement DEF Times
<1> QED BY <1>3, <1>5, <1>7, <1>8 DEF y

\* A line is taken out.
LEMMA Removed ==
  ASSUME NEW d \in Docs, NEW n \in 1..Len(d), d[n].key \in Keys
  PROVE  LET y == RemoveAt(d, n)
         IN  /\ y \in Docs
             /\ LinesOf(y, d[n].key) = <<>>
             /\ \A k : k # d[n].key => LinesOf(y, k) = LinesOf(d, k)
<1> DEFINE y == RemoveAt(d, n)
<1>a. d \in Seq(Lines) /\ DOMAIN d = 1..Len(d) /\ Len(d) \in Nat
  BY DEF Docs
<1>3. /\ y \in Seq(Lines) /\ Len(y) = Len(d) - 1
      /\ \A i \in 1..(n - 1) : y[i] = d[i]
      /\ \A i \in n..(Len(d) - 1) : y[i] = d[i + 1]
  BY <1>a, RemoveAtIs
<1> HIDE DEF y
<1> DEFINE From(i) == IF i < n THEN i ELSE i + 1
<1>4. \A i \in 1..Len(y) : From(i) \in 1..Len(d) /\ From(i) # n /\ y[i] = d[From(i)]
  <2> SUFFICES ASSUME NEW i \in 1..Len(y)
               PROVE  From(i) \in 1..Len(d) /\ From(i) # n /\ y[i] = d[From(i)]
    OBVIOUS
  <2>1. CASE i < n
    <3>1. i \in 1..(n - 1) /\ i \in 1..Len(d)
      BY <2>1, <1>a, <1>3
    <3> QED BY <2>1, <3>1, <1>3
  <2>2. CASE ~(i < n)
    <3>1. i \in n..(Len(d) - 1) /\ i + 1 \in 1..Len(d) /\ i + 1 # n
      BY <2>2, <1>a, <1>3
    <3> QED BY <2>2, <3>1, <1>3
  <2> QED BY <2>1, <2>2
<1>5. \A i, j \in 1..Len(y) : (i # j => From(i) # From(j)) /\ (i <= j <=> From(i) <= From(j))
  <2> SUFFICES ASSUME NEW i \in 1..Len(y), NEW j \in 1..Len(y)
               PROVE  (i # j => From(i) # From(j)) /\ (i <= j <=> From(i) <= From(j))
    OBVIOUS
  <2>1. i \in Int /\ j \in Int
    OBVIOUS
  <2> QED BY <2>1, <1>a
<1>6. ASSUME NEW j \in 1..Len(d), j # n PROVE \E i \in 1..Len(y) : From(i) = j
  <2>1. CASE j < n
    <3>1. j \in 1..Len(y) /\ From(j) = j
      BY <1>6, <2>1, <1>a, <1>3
    <3> QED BY <3>1
  <2>2. CASE ~(j < n)
    <3>1. j - 1 \in 1..Len(y) /\ From(j - 1) = j
      BY <1>6, <2>2, <1>a, <1>3
    <3> QED BY <3>1
  <2> QED BY <2>1, <2>2
<1> HIDE DEF From
<1>7. y \in Docs
  <2> SUFFICES ASSUME NEW i \in 1..Len(y), NEW j \in 1..Len(y), i # j, y[i].key \in Keys
               PROVE  y[i].key # y[j].key
    BY <1>3 DEF Docs
  <2>1. y[i] = d[From(i)] /\ y[j] = d[From(j)] /\ From(i) # From(j)
    BY <1>4, <1>5
  <2>2. From(i) \in 1..Len(d) /\ From(j) \in 1..Len(d)
    BY <1>4
  <2> QED BY <2>1, <2>2 DEF Docs
<1>8. LinesOf(y, d[n].key) = <<>>
  <2>1. \A i \in 1..Len(y) : y[i].key # d[n].key
    BY <1>4 DEF Docs
  <2> QED BY <1>3, <2>1, NoLine
<1>9. ASSUME NEW k, k # d[n].key PROVE LinesOf(y, k) = LinesOf(d, k)
  <2> DEFINE f == [i \in At(y, k) |-> From(i)]
  <2>1. \A i \in At(y, k) : i \in 1..Len(y) /\ From(i) \in At(d, k)
    BY <1>a, <1>3, <1>4 DEF At
  <2>2. ASSUME NEW j \in At(d, k) PROVE \E i \in At(y, k) : From(i) = j
    <3>1. j \in 1..Len(d) /\ d[j].key = k /\ j # n
      BY <1>a, <1>9 DEF At
    <3>2. PICK i \in 1..Len(y) : From(i) = j
      BY <1>6, <3>1
    <3>3. y[i].key = k /\ i \in DOMAIN y
      BY <1>3, <1>4, <3>1, <3>2
    <3> QED BY <3>2, <3>3 DEF At
  <2>3. f \in Bijection(At(y, k), At(d, k))
    BY <1>5, <2>1, <2>2 DEF Bijection, Injection, IsInjective, Surjection
  <2>4. /\ \A i, j \in At(y, k) : i <= j <=> f[i] <= f[j]
        /\ \A i \in At(y, k) : y[i] = d[f[i]]
    BY <1>4, <1>5, <2>1
  <2> HIDE DEF f
  <2> QED BY <1>a, <1>3, <2>3, <2>4, LinesCarried
<1> QED BY <1>7, <1>8, <1>9 DEF y

\* A list of operations the pane can send: on lines that are there, or a new one.
IsOp(op) ==
  /\ op.kind \in Kinds
  /\ op.kind = "insert_sequence_entry" => op.key \in NewKeys /\ op.text \in Texts
  /\ op.kind = "replace_scalar" => op.key \in Keys /\ op.text \in Texts
  /\ op.kind = "delete_key" => op.key \in Keys

\* The same lines in the same places, the texts of Keys aside.
SameShape(x, y) ==
  /\ Len(y) = Len(x)
  /\ \A j \in 1..Len(x) : y[j].key = x[j].key /\ (x[j].key \notin Keys => y[j] = x[j])

\* What an operation that finds its place does, line by line.
LEMMA PerformWorks ==
  ASSUME NEW x \in Docs, NEW op, IsOp(op), Locate(x, op) # None
  PROVE  LET y == Perform(x, op)
             r == Locate(x, op)
         IN  /\ y \in Docs
             /\ \A k : k # op.key => LinesOf(y, k) = LinesOf(x, k)
             /\ op.kind # "insert_sequence_entry" =>
                  /\ r.text \in Texts
                  /\ LinesOf(x, op.key) = <<Line(op.key, r.text)>>
                  /\ LinesOf(y, op.key) = After(op)
             /\ op.kind = "insert_sequence_entry" =>
                  Len(y) = Len(x) + 1 /\ Times(y, op.key) = Times(x, op.key) + 1
             /\ op.kind = "replace_scalar" => SameShape(x, y)
<1> DEFINE y == Perform(x, op)
           r == Locate(x, op)
           k0 == op.key
<1>a. x \in Seq(Lines) /\ Len(x) \in Nat
  BY DEF Docs
<1>1. CASE op.kind = "insert_sequence_entry"
  <2>1. y = Append(x, Line(op.key, op.text))
    BY <1>1 DEF Perform
  <2>2. Line(op.key, op.text) \in Lines /\ Line(op.key, op.text).key \notin Keys
    BY <1>1, StagingAssumption DEF IsOp, Line, Lines
  <2> DEFINE l == Line(op.key, op.text)
  <2>4. l.key = op.key
    BY DEF Line
  <2> HIDE DEF l
  <2>3. /\ y \in Docs /\ Len(y) = Len(x) + 1 /\ Times(y, op.key) = Times(x, op.key) + 1
        /\ \A k : k # op.key => LinesOf(y, k) = LinesOf(x, k)
    BY <2>1, <2>2, <2>4, Added DEF l
  <2> QED BY <1>1, <2>3
<1>2. CASE op.kind # "insert_sequence_entry"
  <2>1. k0 \in Keys
    BY <1>2 DEF IsOp, Kinds
  <2>2. Find(x, k0) # 0
    BY <1>2 DEF Locate
  <2>3. PICK i \in 1..Len(x) : x[i].key = k0
    BY <1>a, <2>2, NoLine
  <2>4. Find(x, k0) = i /\ LinesOf(x, k0) = <<x[i]>>
    BY <2>1, <2>3, OneLine
  <2>5. r.text = x[i].text
    BY <1>2, <2>2, <2>4 DEF Locate
  <2>6. x[i] = Line(k0, r.text) /\ r.text \in Texts
    <3>1. x[i] \in Lines
      BY <1>a
    <3> HIDE DEF r
    <3> QED BY <2>3, <2>5, <3>1 DEF Line, Lines
  <2>7. CASE op.kind = "replace_scalar"
    <3>1. y = Reworded(x, i, op.text) /\ op.text \in Texts
      BY <2>4, <2>7 DEF Perform, Reworded, IsOp
    <3>2. After(op) = <<Line(k0, op.text)>>
      BY <2>7 DEF After
    <3> HIDE DEF y, r, k0
    <3>3. /\ y \in Docs /\ Len(y) = Len(x)
          /\ \A j \in 1..Len(x) : y[j] = IF j = i THEN Line(x[i].key, op.text) ELSE x[j]
          /\ LinesOf(y, x[i].key) = <<Line(x[i].key, op.text)>>
          /\ \A k : k # x[i].key => LinesOf(y, k) = LinesOf(x, k)
      BY <2>1, <2>3, <3>1, Replaced
    <3>4. SameShape(x, y)
      BY <2>1, <2>3, <3>3 DEF SameShape, Line
    <3> QED BY <1>2, <2>3, <2>4, <2>6, <3>2, <3>3, <3>4 DEF y, r, k0
  <2>8. CASE op.kind = "delete_key"
    <3>1. y = RemoveAt(x, i)
      BY <2>4, <2>8 DEF Perform
    <3>2. After(op) = <<>>
      BY <2>8 DEF After
    <3> HIDE DEF y, r, k0
    <3>3. /\ y \in Docs
          /\ LinesOf(y, x[i].key) = <<>>
          /\ \A k : k # x[i].key => LinesOf(y, k) = LinesOf(x, k)
      BY <2>1, <2>3, <3>1, Removed
    <3> QED BY <2>3, <2>4, <2>6, <2>8, <3>2, <3>3 DEF y, r, k0
  <2> QED BY <1>2, <2>7, <2>8 DEF IsOp, Kinds
<1> QED BY <1>1, <1>2

\* The bytes above a line are a number of bytes: the fold of Offset unwound.
OffsetFold(doc, g) ==
  g = [s \in SUBSET (DOMAIN doc) |->
         IF s = {} THEN 0 ELSE g[s \ {Max(s)}] + Width[doc[Max(s)].text]]

\* Where a line starts, with the fold that counts it opened.
LEMMA OffsetIs ==
  ASSUME NEW doc, NEW i
  PROVE  Offset(doc, i) = (CHOOSE g : OffsetFold(SubSeq(doc, 1, i - 1), g))
                            [DOMAIN SubSeq(doc, 1, i - 1)]
BY DEF Offset, FoldLeft, MapThenFoldSet, OffsetFold

\* A line starts at a number of bytes.
LEMMA OffsetNat ==
  ASSUME NEW doc \in Seq(Lines), NEW i \in 1..(Len(doc) + 1)
  PROVE  Offset(doc, i) \in Nat
<1> DEFINE above == SubSeq(doc, 1, i - 1)
           n == i - 1
           T == [p \in Nat \X (1..n) |-> p[1] + Width[above[p[2]].text]]
<1>1. n \in Nat /\ DOMAIN above = 1..n /\ \A j \in 1..n : above[j] = doc[j] /\ j \in 1..Len(doc)
  OBVIOUS
<1> HIDE DEF above, n
<1>2. \A j \in 1..n : above[j].text \in Texts
  <2>1. \A j \in 1..n : above[j] \in Lines
    BY <1>1
  <2> QED BY <2>1 DEF Lines
<1>3. \A j \in 1..n : Width[above[j].text] \in Nat
  BY <1>2, EditRunAssumption
<1>4. T \in [Nat \X (1..n) -> Nat]
  <2> SUFFICES ASSUME NEW p \in Nat \X (1..n) PROVE p[1] + Width[above[p[2]].text] \in Nat
    OBVIOUS
  <2>1. p[1] \in Nat /\ p[2] \in 1..n
    OBVIOUS
  <2>2. Width[above[p[2]].text] \in Nat
    BY <1>3, <2>1
  <2> QED BY <2>1, <2>2
<1>5. PICK g \in [SUBSET (1..n) -> Nat] : Folds(g, n, 0, T)
  <2> HIDE DEF T
  <2> QED BY <1>1, <1>4, FoldExists
<1>6. ASSUME NEW s \in SUBSET (1..n), s # {}
      PROVE  T[<<g[s \ {Max(s)}], Max(s)>>] = g[s \ {Max(s)}] + Width[above[Max(s)].text]
  <2>1. Max(s) \in 1..n /\ s \ {Max(s)} \in SUBSET (1..n)
    BY <1>1, <1>6, MaxIsGreatest
  <2>2. <<g[s \ {Max(s)}], Max(s)>> \in Nat \X (1..n)
    BY <2>1
  <2> QED BY <2>2
<1>7. OffsetFold(above, g)
  <2> HIDE DEF T
  <2> QED BY <1>1, <1>5, <1>6 DEF Folds, OffsetFold
<1> DEFINE f == CHOOSE h : OffsetFold(above, h)
<1>8. OffsetFold(above, f)
  BY <1>7
<1> HIDE DEF f
<1> DEFINE K == {k \in Nat : k <= n => f[1..k] \in Nat}
<1>9. 0 \in K
  <2>1. 1..0 = {} /\ {} \in SUBSET (DOMAIN above)
    OBVIOUS
  <2> QED BY <1>8, <2>1 DEF OffsetFold
<1>10. ASSUME NEW k \in Nat, k \in K PROVE k + 1 \in K
  <2> SUFFICES ASSUME k + 1 <= n PROVE f[1..(k + 1)] \in Nat
    OBVIOUS
  <2>1. k + 1 \in 1..(k + 1) /\ k + 1 \in 1..n /\ 1..(k + 1) \subseteq 1..n
    BY <1>1
  <2>2. 1..(k + 1) # {} /\ 1..(k + 1) \in SUBSET (DOMAIN above)
    BY <1>1, <2>1
  <2>3. Max(1..(k + 1)) = k + 1 /\ (1..(k + 1)) \ {k + 1} = 1..k
    BY MaxOfPrefix
  <2>4. f[1..(k + 1)] = f[(1..(k + 1)) \ {Max(1..(k + 1))}] + Width[above[Max(1..(k + 1))].text]
    BY <1>8, <2>2 DEF OffsetFold
  <2>5. f[1..(k + 1)] = f[1..k] + Width[above[k + 1].text]
    BY <2>3, <2>4
  <2>6. f[1..k] \in Nat
    BY <1>1, <1>10
  <2> QED BY <1>3, <2>1, <2>5, <2>6
<1>11. f[1..n] \in Nat
  <2> HIDE DEF K
  <2>1. n \in K
    BY <1>1, <1>9, <1>10, NatSet
  <2> QED BY <1>1, <2>1 DEF K
<1> QED BY <1>1, <1>11, OffsetIs DEF above, f

\* An operation that does not find its place is about a line that is not there.
LEMMA Missing ==
  ASSUME NEW x \in Docs, NEW op, IsOp(op), Locate(x, op) = None
  PROVE  op.kind # "insert_sequence_entry" /\ op.key \in Keys /\ LinesOf(x, op.key) = <<>>
<1>a. x \in Seq(Lines) /\ Len(x) \in Nat
  BY DEF Docs
<1>b. \A i \in 1..(Len(x) + 1) : Offset(x, i) \in Nat
  BY <1>a, OffsetNat
<1> DEFINE Span(start, end, text) == [start |-> start, end |-> end, text |-> text]
<1>1. op.kind # "insert_sequence_entry"
  <2> SUFFICES ASSUME op.kind = "insert_sequence_entry" PROVE FALSE
    OBVIOUS
  <2>1. Locate(x, op) = Span(Offset(x, Len(x) + 1), Offset(x, Len(x) + 1), None)
    BY DEF Locate
  <2>2. Offset(x, Len(x) + 1) \in Nat
    BY <1>a, <1>b
  <2>3. Span(Offset(x, Len(x) + 1), Offset(x, Len(x) + 1), None)
          \in [start : Nat, end : Nat, text : Texts \cup {None}]
    BY <2>2
  <2> QED BY <2>1, <2>3, EditRunAssumption
<1>2. op.key \in Keys
  BY <1>1 DEF IsOp, Kinds
<1>3. ASSUME NEW i \in 1..Len(x), x[i].key = op.key PROVE FALSE
  <2>1. Find(x, op.key) = i /\ i # 0
    BY <1>2, <1>3, OneLine
  <2>2. Locate(x, op) = Span(Offset(x, i), Offset(x, i + 1), x[i].text)
    BY <1>1, <2>1 DEF Locate
  <2>3. x[i].text \in Texts /\ i + 1 \in 1..(Len(x) + 1) /\ i \in 1..(Len(x) + 1)
    <3>1. x[i] \in Lines
      BY <1>a
    <3>2. x[i].text \in Texts
      BY <3>1 DEF Lines
    <3> QED BY <1>a, <3>2
  <2>4. Offset(x, i) \in Nat /\ Offset(x, i + 1) \in Nat
    BY <1>b, <2>3
  <2>5. Span(Offset(x, i), Offset(x, i + 1), x[i].text)
          \in [start : Nat, end : Nat, text : Texts \cup {None}]
    BY <2>3, <2>4
  <2> QED BY <2>2, <2>5, EditRunAssumption
<1>4. LinesOf(x, op.key) = <<>>
  BY <1>a, <1>3, NoLine
<1> QED BY <1>1, <1>2, <1>4

-----------------------------------------------------------------------------
(* A run, turn by turn.                                                    *)

Start(src) == [end |-> "ok", doc |-> src, ranges |-> <<>>]

\* Where each operation of a list may land.
Landings(ops, n) == {Locate(x, ops[i]) : x \in Docs, i \in 1..n}
Sofars(ops, n)   == [end : {"ok", "stale", "refused"}, doc : Docs, ranges : Seq(Landings(ops, n))]

\* The states a run goes through.
Trail(st, src, ops, n) ==
  /\ st \in [0..n -> Sofars(ops, n)]
  /\ st[0] = Start(src)
  /\ \A i \in 1..n : st[i] = Turn(st[i - 1], ops[i])

\* The fold of Run, unwound.
RunFold(src, ops, g) ==
  g = [s \in SUBSET (DOMAIN ops) |->
         IF s = {} THEN Start(src) ELSE Turn(g[s \ {Max(s)}], ops[Max(s)])]

Ended(src, ops) == FoldLeft(Turn, [end |-> "ok", doc |-> src, ranges |-> <<>>], ops)

\* A run, with the fold over its operations opened.
LEMMA RunIs ==
  ASSUME NEW src, NEW ops
  PROVE  Ended(src, ops) = (CHOOSE g : RunFold(src, ops, g))[DOMAIN ops]
BY DEF Ended, FoldLeft, MapThenFoldSet, RunFold, Start

\* A turn leaves a document, and ranges where operations land.
LEMMA TurnStays ==
  ASSUME NEW n \in Nat, NEW ops, \A j \in 1..n : IsOp(ops[j]),
         NEW s \in Sofars(ops, n), NEW i \in 1..n
  PROVE  Turn(s, ops[i]) \in Sofars(ops, n)
<1> DEFINE op == ops[i]
           range == Locate(s.doc, op)
           R == Landings(ops, n)
<1>1. s.doc \in Docs /\ s.ranges \in Seq(R) /\ range \in R
  BY DEF Sofars, Landings
<1>2. s = [end |-> s.end, doc |-> s.doc, ranges |-> s.ranges]
  BY DEF Sofars
<1> HIDE DEF R
<1>3. CASE s.end # "ok"
  BY <1>3 DEF Turn
<1>4. CASE s.end = "ok" /\ range = None
  <2>1. Turn(s, op) = [s EXCEPT !.end = "refused"]
    BY <1>4 DEF Turn
  <2>2. [s EXCEPT !.end = "refused"] = [end |-> "refused", doc |-> s.doc, ranges |-> s.ranges]
    BY <1>2
  <2> QED BY <1>1, <2>1, <2>2 DEF Sofars, R
<1>5. CASE s.end = "ok" /\ range # None /\ ~Met(range, op.expect)
  <2>1. Turn(s, op) = [s EXCEPT !.end = "stale"]
    BY <1>5 DEF Turn
  <2>2. [s EXCEPT !.end = "stale"] = [end |-> "stale", doc |-> s.doc, ranges |-> s.ranges]
    BY <1>2
  <2> QED BY <1>1, <2>1, <2>2 DEF Sofars, R
<1>6. CASE s.end = "ok" /\ range # None /\ Met(range, op.expect)
  <2>1. Turn(s, op) = [end |-> "ok", doc |-> Perform(s.doc, op), ranges |-> Append(s.ranges, range)]
    BY <1>6 DEF Turn
  <2>2. Perform(s.doc, op) \in Docs
    BY <1>1, <1>6, PerformWorks
  <2>3. Append(s.ranges, range) \in Seq(R)
    BY <1>1
  <2> QED BY <2>1, <2>2, <2>3 DEF Sofars, R
<1> QED BY <1>3, <1>4, <1>5, <1>6

\* A run goes through one state after each operation, and ends in the last.
LEMMA RunTrail ==
  ASSUME NEW src \in Docs, NEW n \in Nat, NEW ops, DOMAIN ops = 1..n,
         \A i \in 1..n : IsOp(ops[i])
  PROVE  \E st : Trail(st, src, ops, n) /\ Ended(src, ops) = st[n]
<1> DEFINE A == Sofars(ops, n)
           base == Start(src)
           T == [p \in A \X (1..n) |-> Turn(p[1], ops[p[2]])]
<1>1. base \in A
  BY DEF Start, Sofars
<1>2. \A s \in A, i \in 1..n : Turn(s, ops[i]) \in A
  BY TurnStays
<1> HIDE DEF A, base
<1>4. T \in [A \X (1..n) -> A]
  BY <1>2
<1>5. PICK g \in [SUBSET (1..n) -> A] : Folds(g, n, base, T)
  <2> HIDE DEF T
  <2> QED BY <1>1, <1>4, FoldExists
<1>6. ASSUME NEW s \in SUBSET (1..n), s # {}
      PROVE  T[<<g[s \ {Max(s)}], Max(s)>>] = Turn(g[s \ {Max(s)}], ops[Max(s)])
  <2>1. Max(s) \in 1..n /\ s \ {Max(s)} \in SUBSET (1..n)
    BY <1>6, MaxIsGreatest
  <2>2. <<g[s \ {Max(s)}], Max(s)>> \in A \X (1..n)
    BY <2>1
  <2> QED BY <2>2
<1>7. RunFold(src, ops, g)
  <2> HIDE DEF T
  <2> QED BY <1>5, <1>6 DEF Folds, RunFold, base
<1> DEFINE f == CHOOSE h : RunFold(src, ops, h)
<1>8. RunFold(src, ops, f)
  BY <1>7
<1> HIDE DEF f, T
<1>9. f[{}] = base
  <2>1. {} \in SUBSET (DOMAIN ops)
    OBVIOUS
  <2> QED BY <1>8, <2>1 DEF RunFold, base
<1>10. ASSUME NEW k \in Nat, k + 1 <= n PROVE f[1..(k + 1)] = Turn(f[1..k], ops[k + 1])
  <2>1. k + 1 \in 1..(k + 1) /\ k + 1 \in 1..n /\ 1..(k + 1) \subseteq 1..n
    BY <1>10
  <2>2. 1..(k + 1) # {} /\ 1..(k + 1) \in SUBSET (DOMAIN ops)
    BY <2>1
  <2>3. Max(1..(k + 1)) = k + 1 /\ (1..(k + 1)) \ {k + 1} = 1..k
    BY MaxOfPrefix
  <2>4. f[1..(k + 1)] = Turn(f[(1..(k + 1)) \ {Max(1..(k + 1))}], ops[Max(1..(k + 1))])
    BY <1>8, <2>2 DEF RunFold
  <2> QED BY <2>3, <2>4
<1> DEFINE K == {k \in Nat : k <= n => f[1..k] \in A}
<1>11. 0 \in K
  <2>1. 1..0 = {}
    OBVIOUS
  <2> QED BY <1>1, <1>9, <2>1
<1>12. ASSUME NEW k \in Nat, k \in K PROVE k + 1 \in K
  <2> SUFFICES ASSUME k + 1 <= n PROVE f[1..(k + 1)] \in A
    OBVIOUS
  <2>1. f[1..k] \in A /\ k + 1 \in 1..n
    BY <1>12
  <2>2. f[1..(k + 1)] = Turn(f[1..k], ops[k + 1])
    BY <1>10
  <2> QED BY <1>2, <2>1, <2>2
<1>13. \A k \in 0..n : f[1..k] \in A
  <2> HIDE DEF K
  <2>1. Nat \subseteq K
    BY <1>11, <1>12, NatSet
  <2> QED BY <2>1 DEF K
<1> DEFINE st == [k \in 0..n |-> f[1..k]]
<1>14. st \in [0..n -> A] /\ st[0] = base
  <2>1. 1..0 = {} /\ 0 \in 0..n
    OBVIOUS
  <2> QED BY <1>9, <1>13, <2>1
<1>15. ASSUME NEW i \in 1..n PROVE st[i] = Turn(st[i - 1], ops[i])
  <2>1. i - 1 \in Nat /\ i - 1 + 1 = i /\ i - 1 \in 0..n /\ i \in 0..n
    OBVIOUS
  <2>2. f[1..(i - 1 + 1)] = Turn(f[1..(i - 1)], ops[i - 1 + 1])
    BY <1>10, <2>1
  <2> QED BY <2>1, <2>2
<1>16. st[n] = Ended(src, ops)
  <2>1. n \in 0..n
    OBVIOUS
  <2> QED BY <2>1, RunIs DEF f
<1> HIDE DEF st
<1>17. Trail(st, src, ops, n)
  BY <1>14, <1>15 DEF Trail, A, base
<1> QED BY <1>16, <1>17

\* The i-th turn found its place, met what was expected there and did its work.
Turned(st, ops, i) ==
  LET range == Locate(st[i - 1].doc, ops[i])
  IN  /\ range # None /\ Met(range, ops[i].expect)
      /\ st[i].doc = Perform(st[i - 1].doc, ops[i])
      /\ st[i].ranges = Append(st[i - 1].ranges, range)

\* A run that is still going at the end was going all along.
LEMMA TrailTurns ==
  ASSUME NEW src, NEW ops, NEW n \in Nat, NEW st, Trail(st, src, ops, n),
         NEW m \in 0..n, st[m].end = "ok"
  PROVE  /\ \A i \in 0..m : st[i].end = "ok"
         /\ \A i \in 1..m : Turned(st, ops, i)
<1>1. ASSUME NEW i \in 1..n, st[i].end = "ok" PROVE st[i - 1].end = "ok"
  <2>1. st[i] = Turn(st[i - 1], ops[i])
    BY DEF Trail
  <2> QED BY <1>1, <2>1 DEF Turn
<1> DEFINE K == {k \in Nat : k <= m => st[m - k].end = "ok"}
<1>2. 0 \in K
  <2>1. m - 0 = m
    OBVIOUS
  <2> QED BY <2>1
<1>3. ASSUME NEW k \in Nat, k \in K PROVE k + 1 \in K
  <2> SUFFICES ASSUME k + 1 <= m PROVE st[m - (k + 1)].end = "ok"
    OBVIOUS
  <2>1. m - k \in 1..n /\ m - k - 1 = m - (k + 1) /\ st[m - k].end = "ok"
    BY <1>3
  <2>2. st[m - k - 1].end = "ok"
    BY <1>1, <2>1
  <2> QED BY <2>1, <2>2
<1>4. \A i \in 0..m : st[i].end = "ok"
  <2> HIDE DEF K
  <2>1. Nat \subseteq K
    BY <1>2, <1>3, NatSet
  <2> SUFFICES ASSUME NEW i \in 0..m PROVE st[i].end = "ok"
    OBVIOUS
  <2>2. m - i \in Nat /\ m - i <= m /\ m - (m - i) = i
    OBVIOUS
  <2>3. st[m - (m - i)].end = "ok"
    BY <2>1, <2>2 DEF K
  <2> QED BY <2>2, <2>3
<1>5. ASSUME NEW i \in 1..m PROVE Turned(st, ops, i)
  <2> DEFINE s == st[i - 1]
             range == Locate(s.doc, ops[i])
  <2>1. st[i].end = "ok" /\ s.end = "ok"
    BY <1>4
  <2>2. i \in 1..n
    OBVIOUS
  <2>3. st[i] = Turn(s, ops[i])
    BY <2>2 DEF Trail
  <2>a. s = [end |-> s.end, doc |-> s.doc, ranges |-> s.ranges]
    <3>1. s \in Sofars(ops, n)
      <4>1. i - 1 \in 0..n
        OBVIOUS
      <4> QED BY <4>1 DEF Trail
    <3> QED BY <3>1 DEF Sofars
  <2>4. range # None
    <3> SUFFICES ASSUME range = None PROVE FALSE
      OBVIOUS
    <3>1. st[i] = [s EXCEPT !.end = "refused"]
      BY <2>1, <2>3 DEF Turn
    <3> HIDE DEF s, range
    <3>2. st[i].end = "refused"
      BY <3>1, <2>a
    <3> QED BY <2>1, <3>2
  <2>5. Met(range, ops[i].expect)
    <3> SUFFICES ASSUME ~Met(range, ops[i].expect) PROVE FALSE
      OBVIOUS
    <3>1. st[i] = [s EXCEPT !.end = "stale"]
      BY <2>1, <2>3, <2>4 DEF Turn
    <3> HIDE DEF s, range
    <3>2. st[i].end = "stale"
      BY <3>1, <2>a
    <3> QED BY <2>1, <3>2
  <2>6. st[i] = [end |-> "ok", doc |-> Perform(s.doc, ops[i]), ranges |-> Append(s.ranges, range)]
    BY <2>1, <2>3, <2>4, <2>5 DEF Turn
  <2> HIDE DEF s, range
  <2>7. st[i].doc = Perform(s.doc, ops[i]) /\ st[i].ranges = Append(s.ranges, range)
    BY <2>6
  <2> QED BY <2>4, <2>5, <2>7 DEF s, range, Turned
<1> QED BY <1>4, <1>5

-----------------------------------------------------------------------------
(* Two runs of the same operations.                                        *)

\* A range recorded for a line holds its text.
HeldOp(op) == op.kind # "insert_sequence_entry" => op.expect # None /\ op.expect.text # None

EachHeld(ops, n) == \A i \in 1..n : IsOp(ops[i]) /\ HeldOp(ops[i])

\* Every line of y is a line of x, texts aside.
Within(y, x) == \A k \in Keys : LinesOf(y, k) # <<>> => LinesOf(x, k) # <<>>

\* From x0 to x and from y0 to y each line changes the same way, or not at all.
Agree(x0, x, y0, y) ==
  \A k \in Keys : \/ LinesOf(x, k) = LinesOf(x0, k) /\ LinesOf(y, k) = LinesOf(y0, k)
                  \/ LinesOf(x0, k) = LinesOf(y0, k) /\ LinesOf(x, k) = LinesOf(y, k)

\* What one turn does, line by line.
TurnDoes(x, op, y) ==
  /\ \A k : k # op.key => LinesOf(y, k) = LinesOf(x, k)
  /\ op.kind # "insert_sequence_entry" =>
       /\ LinesOf(x, op.key) # <<>>
       /\ HeldOp(op) => LinesOf(x, op.key) = <<Line(op.key, op.expect.text)>>
       /\ LinesOf(y, op.key) = After(op)
  /\ op.kind = "insert_sequence_entry" =>
       Len(y) = Len(x) + 1 /\ Times(y, op.key) = Times(x, op.key) + 1
  /\ op.kind = "replace_scalar" => SameShape(x, y)

\* In a run that has gone well so far every turn was performed.
LEMMA TrailWorks ==
  ASSUME NEW src, NEW ops, NEW n \in Nat, NEW st, Trail(st, src, ops, n),
         \A i \in 1..n : IsOp(ops[i]), NEW m \in 0..n, st[m].end = "ok"
  PROVE  /\ \A i \in 0..m : st[i].doc \in Docs
         /\ \A i \in 1..m : TurnDoes(st[i - 1].doc, ops[i], st[i].doc)
<1>1. \A i \in 0..m : st[i].doc \in Docs
  BY DEF Trail, Sofars
<1>0. \A i \in 1..m : Turned(st, ops, i)
  BY TrailTurns
<1>2. ASSUME NEW i \in 1..m PROVE TurnDoes(st[i - 1].doc, ops[i], st[i].doc)
  <2> DEFINE x == st[i - 1].doc
             y == st[i].doc
             op == ops[i]
             range == Locate(x, op)
  <2>1. range # None /\ Met(range, op.expect) /\ y = Perform(x, op)
    BY <1>0 DEF Turned
  <2>2. x \in Docs /\ IsOp(op)
    BY <1>1
  <2> HIDE DEF x, y, op
  <2>3. /\ \A k : k # op.key => LinesOf(y, k) = LinesOf(x, k)
        /\ op.kind # "insert_sequence_entry" =>
             /\ LinesOf(x, op.key) = <<Line(op.key, range.text)>>
             /\ LinesOf(y, op.key) = After(op)
        /\ op.kind = "insert_sequence_entry" =>
             Len(y) = Len(x) + 1 /\ Times(y, op.key) = Times(x, op.key) + 1
        /\ op.kind = "replace_scalar" => SameShape(x, y)
    BY <2>1, <2>2, PerformWorks
  <2> HIDE DEF range
  <2>4. HeldOp(op) /\ op.kind # "insert_sequence_entry" => range.text = op.expect.text
    BY <2>1 DEF HeldOp, Met
  <2>5. TurnDoes(x, op, y)
    <3>1. <<Line(op.key, range.text)>> # <<>>
      OBVIOUS
    <3> QED BY <2>3, <2>4, <3>1 DEF TurnDoes
  <2> QED BY <2>5 DEF x, y, op
<1> QED BY <1>1, <1>2

\* One more turn on both sides.
LEMMA AgreeTurn ==
  ASSUME NEW x0, NEW x, NEW x1, NEW y0, NEW y, NEW y1, NEW op, IsOp(op), HeldOp(op),
         TurnDoes(x, op, x1), TurnDoes(y, op, y1), Agree(x0, x, y0, y)
  PROVE  Agree(x0, x1, y0, y1)
<1> SUFFICES ASSUME NEW k \in Keys
             PROVE  \/ LinesOf(x1, k) = LinesOf(x0, k) /\ LinesOf(y1, k) = LinesOf(y0, k)
                    \/ LinesOf(x0, k) = LinesOf(y0, k) /\ LinesOf(x1, k) = LinesOf(y1, k)
  BY DEF Agree
<1>1. \/ LinesOf(x, k) = LinesOf(x0, k) /\ LinesOf(y, k) = LinesOf(y0, k)
      \/ LinesOf(x0, k) = LinesOf(y0, k) /\ LinesOf(x, k) = LinesOf(y, k)
  BY DEF Agree
<1>2. CASE k # op.key
  <2>1. LinesOf(x1, k) = LinesOf(x, k) /\ LinesOf(y1, k) = LinesOf(y, k)
    BY <1>2 DEF TurnDoes
  <2> QED BY <1>1, <2>1
<1>3. CASE k = op.key
  <2>1. op.kind # "insert_sequence_entry"
    BY <1>3, StagingAssumption DEF IsOp
  <2>2. LinesOf(x, k) = LinesOf(y, k) /\ LinesOf(x1, k) = LinesOf(y1, k)
    BY <1>3, <2>1 DEF TurnDoes
  <2> QED BY <1>1, <2>2
<1> QED BY <1>2, <1>3

\* Two runs of the same operations, each gone well, made of every key the same change.
LEMMA RunsAgree ==
  ASSUME NEW x, NEW y, NEW ops, NEW n \in Nat, EachHeld(ops, n),
         NEW s, Trail(s, x, ops, n), NEW t, Trail(t, y, ops, n),
         NEW m \in 0..n, s[m].end = "ok", t[m].end = "ok"
  PROVE  Agree(x, s[m].doc, y, t[m].doc)
<1>a. \A i \in 1..n : IsOp(ops[i]) /\ HeldOp(ops[i])
  BY DEF EachHeld
<1>b. \A i \in 1..m : /\ TurnDoes(s[i - 1].doc, ops[i], s[i].doc)
                      /\ TurnDoes(t[i - 1].doc, ops[i], t[i].doc)
  BY <1>a, TrailWorks
<1> DEFINE K == {k \in Nat : k <= m => Agree(x, s[k].doc, y, t[k].doc)}
<1>1. 0 \in K
  <2>1. s[0].doc = x /\ t[0].doc = y
    BY DEF Trail, Start
  <2> QED BY <2>1 DEF Agree
<1>2. ASSUME NEW k \in Nat, k \in K PROVE k + 1 \in K
  <2> SUFFICES ASSUME k + 1 <= m PROVE Agree(x, s[k + 1].doc, y, t[k + 1].doc)
    OBVIOUS
  <2>1. k + 1 \in 1..m /\ k + 1 \in 1..n /\ k + 1 - 1 = k /\ Agree(x, s[k].doc, y, t[k].doc)
    BY <1>2
  <2>2. TurnDoes(s[k].doc, ops[k + 1], s[k + 1].doc) /\ TurnDoes(t[k].doc, ops[k + 1], t[k + 1].doc)
    BY <1>b, <2>1
  <2> QED BY <1>a, <2>1, <2>2, AgreeTurn
<1>3. m \in K
  <2> HIDE DEF K
  <2>1. m \in Nat
    OBVIOUS
  <2> QED BY <1>1, <1>2, <2>1, NatSet
<1> QED BY <1>3

\* A run takes lines out and puts none of the pane's back.
LEMMA WithinTurn ==
  ASSUME NEW x, NEW y, NEW op, IsOp(op), TurnDoes(x, op, y)
  PROVE  Within(y, x)
<1> SUFFICES ASSUME NEW k \in Keys, LinesOf(y, k) # <<>> PROVE LinesOf(x, k) # <<>>
  BY DEF Within
<1>1. CASE k # op.key
  BY <1>1 DEF TurnDoes
<1>2. CASE k = op.key
  <2>1. op.kind # "insert_sequence_entry"
    BY <1>2, StagingAssumption DEF IsOp
  <2> QED BY <1>2, <2>1 DEF TurnDoes
<1> QED BY <1>1, <1>2

\* What a run has at the end it had in between: no line of the file comes back.
LEMMA RunWithin ==
  ASSUME NEW src, NEW ops, NEW n \in Nat, \A i \in 1..n : IsOp(ops[i]),
         NEW st, Trail(st, src, ops, n), NEW m \in 0..n, st[m].end = "ok", NEW i \in 0..m
  PROVE  Within(st[m].doc, st[i].doc)
<1>b. \A j \in 1..m : TurnDoes(st[j - 1].doc, ops[j], st[j].doc)
  BY TrailWorks
<1> DEFINE K == {k \in Nat : i + k <= m => Within(st[i + k].doc, st[i].doc)}
<1>1. 0 \in K
  <2>1. i + 0 = i
    OBVIOUS
  <2> QED BY <2>1 DEF Within
<1>2. ASSUME NEW k \in Nat, k \in K PROVE k + 1 \in K
  <2> SUFFICES ASSUME i + (k + 1) <= m PROVE Within(st[i + (k + 1)].doc, st[i].doc)
    OBVIOUS
  <2> DEFINE j == i + (k + 1)
  <2>1. j \in 1..m /\ j \in 1..n /\ j - 1 = i + k /\ Within(st[i + k].doc, st[i].doc)
    BY <1>2
  <2> HIDE DEF j
  <2>2. Within(st[j].doc, st[j - 1].doc)
    BY <1>b, <2>1, WithinTurn
  <2>3. Within(st[j].doc, st[i].doc)
    BY <2>1, <2>2 DEF Within
  <2> QED BY <2>3 DEF j
<1>3. m - i \in K
  <2> HIDE DEF K
  <2>1. m - i \in Nat
    OBVIOUS
  <2> QED BY <1>1, <1>2, <2>1, NatSet
<1>4. i + (m - i) = m /\ i + (m - i) <= m
  OBVIOUS
<1> QED BY <1>3, <1>4

\* A run that only rewords lines leaves them where they are; one that adds and
\* takes none out is longer at the end.
LEMMA RewordsInPlace ==
  ASSUME NEW src, NEW ops, NEW n \in Nat, \A i \in 1..n : IsOp(ops[i]),
         NEW st, Trail(st, src, ops, n), st[n].end = "ok",
         \A i \in 1..n : ops[i].kind = "replace_scalar"
  PROVE  SameShape(src, st[n].doc)
<1>a. n \in 0..n
  OBVIOUS
<1>b. /\ \A i \in 0..n : st[i].doc \in Docs
      /\ \A i \in 1..n : TurnDoes(st[i - 1].doc, ops[i], st[i].doc)
  BY <1>a, TrailWorks
<1>c. st[0].doc = src
  BY DEF Trail, Start
<1> DEFINE K == {k \in Nat : k <= n => SameShape(src, st[k].doc)}
<1>1. 0 \in K
  BY <1>c DEF SameShape
<1>2. ASSUME NEW k \in Nat, k \in K PROVE k + 1 \in K
  <2> SUFFICES ASSUME k + 1 <= n PROVE SameShape(src, st[k + 1].doc)
    OBVIOUS
  <2>1. k + 1 \in 1..n /\ k + 1 - 1 = k /\ SameShape(src, st[k].doc)
    BY <1>2
  <2>2. SameShape(st[k].doc, st[k + 1].doc)
    BY <1>b, <2>1 DEF TurnDoes
  <2> QED BY <2>1, <2>2 DEF SameShape
<1>3. n \in K
  <2> HIDE DEF K
  <2> QED BY <1>1, <1>2, NatSet
<1> QED BY <1>3

\* A run that inserts and takes nothing out leaves a longer file.
LEMMA AddsLengthen ==
  ASSUME NEW src, NEW ops, NEW n \in Nat, \A i \in 1..n : IsOp(ops[i]),
         NEW st, Trail(st, src, ops, n), st[n].end = "ok",
         \A i \in 1..n : ops[i].kind # "delete_key",
         NEW j \in 1..n, ops[j].kind = "insert_sequence_entry"
  PROVE  Len(st[n].doc) > Len(src)
<1>a. n \in 0..n
  OBVIOUS
<1>b. /\ \A i \in 0..n : st[i].doc \in Docs
      /\ \A i \in 1..n : TurnDoes(st[i - 1].doc, ops[i], st[i].doc)
  BY <1>a, TrailWorks
<1>c. st[0].doc = src
  BY DEF Trail, Start
<1>d. \A i \in 0..n : Len(st[i].doc) \in Nat
  BY <1>b DEF Docs
<1>e. \A i \in 1..n : /\ Len(st[i].doc) >= Len(st[i - 1].doc)
                      /\ i = j => Len(st[i].doc) > Len(st[i - 1].doc)
  <2> SUFFICES ASSUME NEW i \in 1..n
               PROVE  /\ Len(st[i].doc) >= Len(st[i - 1].doc)
                      /\ i = j => Len(st[i].doc) > Len(st[i - 1].doc)
    OBVIOUS
  <2>1. i - 1 \in 0..n /\ Len(st[i - 1].doc) \in Nat
    <3>1. i - 1 \in 0..n
      OBVIOUS
    <3> QED BY <1>d, <3>1
  <2>2. TurnDoes(st[i - 1].doc, ops[i], st[i].doc) /\ IsOp(ops[i]) /\ ops[i].kind # "delete_key"
    BY <1>b
  <2>3. CASE ops[i].kind = "insert_sequence_entry"
    <3>1. Len(st[i].doc) = Len(st[i - 1].doc) + 1
      BY <2>2, <2>3 DEF TurnDoes
    <3> QED BY <2>1, <3>1
  <2>4. CASE ops[i].kind = "replace_scalar"
    <3>1. Len(st[i].doc) = Len(st[i - 1].doc)
      BY <2>2, <2>4 DEF TurnDoes, SameShape
    <3> QED BY <2>1, <2>4, <3>1
  <2> QED BY <2>2, <2>3, <2>4 DEF IsOp, Kinds
<1> DEFINE K == {k \in Nat : k <= n => /\ Len(st[k].doc) >= Len(src)
                                       /\ k >= j => Len(st[k].doc) > Len(src)}
<1>1. 0 \in K
  <2>1. Len(st[0].doc) = Len(src) /\ Len(src) \in Nat /\ ~(0 >= j)
    <3>1. 0 \in 0..n
      OBVIOUS
    <3> QED BY <1>c, <1>d, <3>1
  <2> QED BY <2>1
<1>2. ASSUME NEW k \in Nat, k \in K PROVE k + 1 \in K
  <2> SUFFICES ASSUME k + 1 <= n
               PROVE  /\ Len(st[k + 1].doc) >= Len(src)
                      /\ k + 1 >= j => Len(st[k + 1].doc) > Len(src)
    OBVIOUS
  <2>1. /\ k + 1 \in 1..n /\ k + 1 - 1 = k /\ k \in 0..n /\ k + 1 \in 0..n /\ 0 \in 0..n
        /\ Len(st[k].doc) >= Len(src) /\ (k >= j => Len(st[k].doc) > Len(src))
    BY <1>2
  <2>2. Len(st[k + 1].doc) >= Len(st[k].doc) /\ (k + 1 = j => Len(st[k + 1].doc) > Len(st[k].doc))
    BY <1>e, <2>1
  <2>3. Len(st[k].doc) \in Nat /\ Len(st[k + 1].doc) \in Nat /\ Len(src) \in Nat
    BY <1>c, <1>d, <2>1
  <2> DEFINE a == Len(st[k].doc)
             b == Len(st[k + 1].doc)
             c == Len(src)
  <2>4. /\ a \in Nat /\ b \in Nat /\ c \in Nat /\ a >= c /\ (k >= j => a > c)
        /\ b >= a /\ (k + 1 = j => b > a)
    BY <2>1, <2>2, <2>3
  <2> HIDE DEF a, b, c
  <2>5. b >= c /\ (k + 1 >= j => b > c)
    BY <2>4
  <2> QED BY <2>5 DEF b, c
<1>3. n \in K
  <2> HIDE DEF K
  <2> QED BY <1>1, <1>2, NatSet
<1> QED BY <1>3

\* So a run that leaves the document as it was only reworded lines.
LEMMA OnlyRewords ==
  ASSUME NEW src, NEW ops, NEW n \in Nat, \A i \in 1..n : IsOp(ops[i]),
         NEW st, Trail(st, src, ops, n), st[n].end = "ok", st[n].doc = src
  PROVE  \A i \in 1..n : ops[i].kind = "replace_scalar"
<1>a. n \in 0..n /\ 0 \in 0..n
  OBVIOUS
<1>b. /\ \A i \in 0..n : st[i].end = "ok" /\ st[i].doc \in Docs
      /\ \A i \in 1..n : TurnDoes(st[i - 1].doc, ops[i], st[i].doc)
  BY <1>a, TrailWorks, TrailTurns
<1>c. st[0].doc = src
  BY DEF Trail, Start
<1>1. ASSUME NEW j \in 1..n, ops[j].kind = "delete_key" PROVE FALSE
  <2>1. j \in 0..n /\ j - 1 \in 0..n /\ 0 \in 0..(j - 1)
    OBVIOUS
  <2>2. Within(st[n].doc, st[j].doc)
    BY <1>a, <2>1, RunWithin
  <2>3. Within(st[j - 1].doc, st[0].doc)
    <3>1. st[j - 1].end = "ok"
      BY <1>b, <2>1
    <3> QED BY <2>1, <3>1, RunWithin
  <2> DEFINE k == ops[j].key
  <2>4. k \in Keys /\ LinesOf(st[j - 1].doc, k) # <<>> /\ LinesOf(st[j].doc, k) = <<>>
    <3>1. TurnDoes(st[j - 1].doc, ops[j], st[j].doc) /\ IsOp(ops[j])
      BY <1>b
    <3>2. After(ops[j]) = <<>>
      BY <1>1 DEF After
    <3> QED BY <1>1, <3>1, <3>2 DEF TurnDoes, IsOp
  <2> HIDE DEF k
  <2>5. LinesOf(src, k) # <<>>
    BY <1>c, <2>3, <2>4 DEF Within
  <2>6. LinesOf(src, k) = <<>>
    BY <2>2, <2>4 DEF Within
  <2> QED BY <2>5, <2>6
<1>2. ASSUME NEW j \in 1..n, ops[j].kind = "insert_sequence_entry" PROVE FALSE
  <2>1. Len(st[n].doc) > Len(src)
    BY <1>1, <1>2, AddsLengthen
  <2>2. Len(src) \in Nat
    BY <1>a, <1>b, <1>c DEF Docs
  <2> QED BY <2>1, <2>2
<1> QED BY <1>1, <1>2 DEF IsOp, Kinds

\* And operations that leave one document as it was leave every other.
LEMMA NoChange ==
  ASSUME NEW x, NEW y, NEW ops, NEW n \in Nat, EachHeld(ops, n),
         NEW s, Trail(s, x, ops, n), NEW t, Trail(t, y, ops, n),
         s[n].end = "ok", t[n].end = "ok", s[n].doc = x
  PROVE  t[n].doc = y
<1>a. n \in 0..n /\ 0 \in 0..n /\ \A i \in 1..n : IsOp(ops[i])
  BY DEF EachHeld
<1>b. y \in Docs /\ t[n].doc \in Docs
  <2>1. t[0].doc = y
    BY DEF Trail, Start
  <2> QED BY <1>a, <2>1 DEF Trail, Sofars
<1>1. SameShape(y, t[n].doc)
  <2>1. \A i \in 1..n : ops[i].kind = "replace_scalar"
    BY <1>a, OnlyRewords
  <2> QED BY <1>a, <2>1, RewordsInPlace
<1>2. \A k \in Keys : LinesOf(t[n].doc, k) = LinesOf(y, k)
  <2>1. Agree(x, s[n].doc, y, t[n].doc)
    BY <1>a, RunsAgree
  <2> QED BY <2>1 DEF Agree
<1> DEFINE z == t[n].doc
<1> HIDE DEF z
<1>3. ASSUME NEW j \in 1..Len(y) PROVE z[j] = y[j]
  <2>1. Len(z) = Len(y) /\ z[j].key = y[j].key /\ (y[j].key \notin Keys => z[j] = y[j])
    BY <1>1 DEF SameShape, z
  <2>2. CASE y[j].key \in Keys
    <3>1. LinesOf(y, y[j].key) = <<y[j]>>
      BY <1>b, <2>2, OneLine
    <3>2. LinesOf(z, y[j].key) = <<z[j]>>
      BY <1>b, <2>1, <2>2, OneLine DEF z
    <3>3. <<z[j]>> = <<y[j]>>
      BY <1>2, <2>2, <3>1, <3>2 DEF z
    <3> QED BY <3>3
  <2> QED BY <2>1, <2>2
<1>4. z = y
  <2>1. z \in Seq(Lines) /\ y \in Seq(Lines) /\ Len(z) = Len(y)
    BY <1>b, <1>1 DEF Docs, SameShape, z
  <2> QED BY <1>3, <2>1, SeqEqual
<1> QED BY <1>4 DEF z
-----------------------------------------------------------------------------
(* What an answer says of every other document.                            *)

OfKeys(diff) == {d \in diff : d[1] \in Keys}

\* The diff, of the lines the file starts with.
LEMMA DiffOfKeys ==
  ASSUME NEW x \in Docs, NEW y \in Docs
  PROVE  OfKeys(Diff(x, y)) = {<<k, LinesOf(x, k), LinesOf(y, k)>> :
                                 k \in {j \in Keys : LinesOf(x, j) # LinesOf(y, j)}}
<1> DEFINE all == {l.key : l \in ToSet(x) \cup ToSet(y)}
           changed == {k \in all : LinesOf(x, k) # LinesOf(y, k)}
<1>1. Diff(x, y) = {<<k, LinesOf(x, k), LinesOf(y, k)>> : k \in changed}
  BY DEF Diff
<1>2. ASSUME NEW k \in Keys, LinesOf(x, k) # LinesOf(y, k) PROVE k \in all
  <2>a. x \in Seq(Lines) /\ y \in Seq(Lines) /\ DOMAIN x = 1..Len(x) /\ DOMAIN y = 1..Len(y)
    BY DEF Docs
  <2>1. (\A i \in 1..Len(x) : x[i].key # k) => LinesOf(x, k) = <<>>
    BY <2>a, NoLine
  <2>2. (\A i \in 1..Len(y) : y[i].key # k) => LinesOf(y, k) = <<>>
    BY <2>a, NoLine
  <2>3. (\E i \in 1..Len(x) : x[i].key = k) \/ (\E i \in 1..Len(y) : y[i].key = k)
    BY <1>2, <2>1, <2>2
  <2> QED BY <2>a, <2>3 DEF ToSet
<1> HIDE DEF all
<1>3. {k \in changed : k \in Keys} = {j \in Keys : LinesOf(x, j) # LinesOf(y, j)}
  BY <1>2
<1> HIDE DEF changed
<1>4. OfKeys(Diff(x, y)) = {<<k, LinesOf(x, k), LinesOf(y, k)>> : k \in {j \in changed : j \in Keys}}
  BY <1>1 DEF OfKeys
<1> QED BY <1>3, <1>4

\* The list of a request: n operations, each about a line that is there or a new
\* one, each with the text it was staged on.
HeldAsk(ops) == \E n \in Nat : DOMAIN ops = 1..n /\ EachHeld(ops, n)

\* An answer that is not ErrNoChange is the run's last turn.
LEMMA RunEnds ==
  ASSUME NEW src \in Docs, NEW ops, NEW n \in Nat, DOMAIN ops = 1..n,
         \A i \in 1..n : IsOp(ops[i])
  PROVE  \E st : /\ Trail(st, src, ops, n)
                 /\ Run(src, ops).end = "ok" =>
                      st[n].end = "ok" /\ st[n].doc # src /\ Run(src, ops) = st[n]
                 /\ Run(src, ops).end = "refused" =>
                      (st[n].end = "ok" /\ st[n].doc = src) \/ st[n].end = "refused"
                 /\ Run(src, ops).end \in {"ok", "stale", "refused"}
                 /\ Run(src, ops) = [st[n] EXCEPT !.end = Run(src, ops).end]
<1>1. PICK st : Trail(st, src, ops, n) /\ Ended(src, ops) = st[n]
  BY RunTrail
<1> DEFINE last == st[n]
<1>2. Run(src, ops) = IF last.end = "ok" /\ last.doc = src THEN [last EXCEPT !.end = "refused"] ELSE last
  BY <1>1 DEF Run, Ended
<1>3. /\ last = [end |-> last.end, doc |-> last.doc, ranges |-> last.ranges]
      /\ last.end \in {"ok", "stale", "refused"}
  <2>1. last \in Sofars(ops, n)
    BY <1>1 DEF Trail
  <2> QED BY <2>1 DEF Sofars
<1> HIDE DEF last
<1>4. CASE last.end = "ok" /\ last.doc = src
  <2>1. Run(src, ops) = [end |-> "refused", doc |-> last.doc, ranges |-> last.ranges]
    BY <1>2, <1>3, <1>4
  <2> QED BY <1>1, <1>2, <1>3, <1>4, <2>1 DEF last
<1>5. CASE ~(last.end = "ok" /\ last.doc = src)
  <2>1. Run(src, ops) = last
    BY <1>2, <1>5
  <2>2. last = [last EXCEPT !.end = last.end]
    BY <1>3
  <2> QED BY <1>1, <1>3, <1>5, <2>1, <2>2 DEF last
<1> QED BY <1>4, <1>5

\* Two answers to the same request show the same diff, whatever the documents,
LEMMA SameDiff ==
  ASSUME NEW x \in Docs, NEW y \in Docs, NEW ops, HeldAsk(ops),
         Run(x, ops).end = "ok", Run(y, ops).end = "ok"
  PROVE  OfKeys(Diff(x, Run(x, ops).doc)) = OfKeys(Diff(y, Run(y, ops).doc))
<1>1. PICK n \in Nat : DOMAIN ops = 1..n /\ EachHeld(ops, n)
  BY DEF HeldAsk
<1>a. \A i \in 1..n : IsOp(ops[i])
  BY <1>1 DEF EachHeld
<1>b. n \in 0..n
  OBVIOUS
<1>2. PICK s : Trail(s, x, ops, n) /\ s[n].end = "ok" /\ Run(x, ops) = s[n]
  BY <1>1, <1>a, RunEnds
<1>3. PICK t : Trail(t, y, ops, n) /\ t[n].end = "ok" /\ Run(y, ops) = t[n]
  BY <1>1, <1>a, RunEnds
<1> DEFINE u == s[n].doc
           v == t[n].doc
<1>4. Agree(x, u, y, v)
  BY <1>1, <1>2, <1>3, <1>b, RunsAgree
<1>5. u \in Docs /\ v \in Docs
  BY <1>2, <1>3, <1>b DEF Trail, Sofars
<1> HIDE DEF u, v
<1>6. \A k \in Keys : /\ LinesOf(x, k) # LinesOf(u, k) <=> LinesOf(y, k) # LinesOf(v, k)
                      /\ LinesOf(x, k) # LinesOf(u, k) =>
                           LinesOf(x, k) = LinesOf(y, k) /\ LinesOf(u, k) = LinesOf(v, k)
  BY <1>4 DEF Agree
<1>7. OfKeys(Diff(x, u)) = OfKeys(Diff(y, v))
  <2> DEFINE X == {j \in Keys : LinesOf(x, j) # LinesOf(u, j)}
             Y == {j \in Keys : LinesOf(y, j) # LinesOf(v, j)}
  <2>1. X = Y
    BY <1>6
  <2>2. \A k \in X : <<k, LinesOf(x, k), LinesOf(u, k)>> = <<k, LinesOf(y, k), LinesOf(v, k)>>
    BY <1>6
  <2>3. OfKeys(Diff(x, u)) = {<<k, LinesOf(x, k), LinesOf(u, k)>> : k \in X}
    BY <1>5, DiffOfKeys
  <2>4. OfKeys(Diff(y, v)) = {<<k, LinesOf(y, k), LinesOf(v, k)>> : k \in Y}
    BY <1>5, DiffOfKeys
  <2> HIDE DEF X, Y
  <2> QED BY <2>1, <2>2, <2>3, <2>4
<1> QED BY <1>2, <1>3, <1>7 DEF u, v

\* A refusal that is not for want of a change is for want of a line.
LEMMA RefusedAt ==
  ASSUME NEW src, NEW n \in Nat, NEW ops, \A i \in 1..n : IsOp(ops[i]),
         NEW s, Trail(s, src, ops, n), s[n].end = "refused"
  PROVE  \E i \in 1..n : /\ s[i - 1].end = "ok" /\ s[i - 1].doc \in Docs
                         /\ ops[i].kind # "insert_sequence_entry" /\ ops[i].key \in Keys
                         /\ LinesOf(s[i - 1].doc, ops[i].key) = <<>>
<1> DEFINE T == {i \in Nat : i <= n /\ s[i].end = "refused"}
<1>1. PICK i \in T : \A j \in T : i <= j
  <2>1. n \in T /\ T \subseteq Nat
    OBVIOUS
  <2> HIDE DEF T
  <2> QED BY <2>1, LeastNumber
<1>2. s[0].end = "ok"
  BY DEF Trail, Start
<1>3. i \in 1..n /\ i - 1 \in 0..n /\ i - 1 \notin T /\ s[i].end = "refused"
  BY <1>1, <1>2
<1>4. s[i - 1].end # "refused" /\ s[i] = Turn(s[i - 1], ops[i])
  BY <1>3 DEF Trail
<1>5. s[i - 1].end = "ok" /\ Locate(s[i - 1].doc, ops[i]) = None
  <2> DEFINE p == s[i - 1]
  <2>1. p = [end |-> p.end, doc |-> p.doc, ranges |-> p.ranges]
    <3>1. p \in Sofars(ops, n)
      BY <1>3 DEF Trail
    <3> QED BY <3>1 DEF Sofars
  <2>2. p.end = "ok"
    BY <1>3, <1>4 DEF Turn
  <2>3. Locate(p.doc, ops[i]) = None
    <3> SUFFICES ASSUME Locate(p.doc, ops[i]) # None PROVE FALSE
      OBVIOUS
    <3>1. CASE Met(Locate(p.doc, ops[i]), ops[i].expect)
      <4>1. s[i].end = "ok"
        BY <1>4, <2>2, <3>1 DEF Turn
      <4> QED BY <1>3, <4>1
    <3>2. CASE ~Met(Locate(p.doc, ops[i]), ops[i].expect)
      <4>1. s[i] = [p EXCEPT !.end = "stale"]
        BY <1>4, <2>2, <3>2 DEF Turn
      <4> HIDE DEF p
      <4>2. s[i].end = "stale"
        BY <2>1, <4>1
      <4> QED BY <1>3, <4>2
    <3> QED BY <3>1, <3>2
  <2> QED BY <2>2, <2>3
<1>6. s[i - 1].doc \in Docs
  BY <1>3 DEF Trail, Sofars
<1>7. ops[i].kind # "insert_sequence_entry" /\ ops[i].key \in Keys /\ LinesOf(s[i - 1].doc, ops[i].key) = <<>>
  BY <1>3, <1>5, <1>6, Missing
<1> QED BY <1>3, <1>5, <1>6, <1>7

\* and what was refused once stays refused while no line comes back.
LEMMA StaysRefused ==
  ASSUME NEW x \in Docs, NEW y \in Docs, Within(y, x), NEW ops, HeldAsk(ops),
         Run(x, ops).end = "refused"
  PROVE  Run(y, ops).end # "ok"
<1> SUFFICES ASSUME Run(y, ops).end = "ok" PROVE FALSE
  OBVIOUS
<1>1. PICK n \in Nat : DOMAIN ops = 1..n /\ EachHeld(ops, n)
  BY DEF HeldAsk
<1>a. \A i \in 1..n : IsOp(ops[i]) /\ HeldOp(ops[i])
  BY <1>1 DEF EachHeld
<1>b. n \in 0..n /\ 0 \in 0..n
  OBVIOUS
<1>2. PICK s : /\ Trail(s, x, ops, n)
               /\ (s[n].end = "ok" /\ s[n].doc = x) \/ s[n].end = "refused"
  BY <1>1, <1>a, RunEnds
<1>3. PICK t : Trail(t, y, ops, n) /\ t[n].end = "ok" /\ t[n].doc # y
  BY <1>1, <1>a, RunEnds
<1>4. CASE s[n].end = "ok" /\ s[n].doc = x
  BY <1>1, <1>2, <1>3, <1>4, NoChange
<1>5. CASE s[n].end = "refused"
  <2>1. PICK i \in 1..n : /\ s[i - 1].end = "ok" /\ s[i - 1].doc \in Docs
                         /\ ops[i].kind # "insert_sequence_entry" /\ ops[i].key \in Keys
                         /\ LinesOf(s[i - 1].doc, ops[i].key) = <<>>
    BY <1>2, <1>a, <1>5, RefusedAt
  <2>3. i - 1 \in 0..n
    OBVIOUS
  <2> DEFINE k == ops[i].key
  <2>7. ops[i].kind # "insert_sequence_entry" /\ k \in Keys /\ LinesOf(s[i - 1].doc, k) = <<>>
    BY <2>1
  <2>8. LinesOf(t[i - 1].doc, k) # <<>>
    <3>1. TurnDoes(t[i - 1].doc, ops[i], t[i].doc)
      BY <1>3, <1>a, <1>b, <2>3, TrailWorks
    <3> QED BY <2>7, <3>1 DEF TurnDoes
  <2>9. Agree(x, s[i - 1].doc, y, t[i - 1].doc)
    <3>1. t[i - 1].end = "ok"
      BY <1>3, <1>b, <2>3, TrailTurns
    <3> QED BY <1>1, <1>2, <1>3, <2>1, <2>3, <3>1, RunsAgree
  <2> HIDE DEF k
  <2> QED BY <2>7, <2>8, <2>9 DEF Agree, Within
<1> QED BY <1>2, <1>4, <1>5

-----------------------------------------------------------------------------
(* What lands is what the strip showed.                                    *)

\* An entry the pane holds, before it was previewed and after.
IsRequest(op) == op = [kind |-> op.kind, key |-> op.key, text |-> op.text, expect |-> op.expect]
Asked(e)      == IsEntry(e) /\ IsRequest(e.op) /\ IsOp(e.op)
HeldEntry(e)  == Asked(e) /\ HeldOp(e.op)
AskList(s)    == s \in Seq(ToSet(s)) /\ \A e \in ToSet(s) : Asked(e)
HeldList(s)   == s \in Seq(ToSet(s)) /\ \A e \in ToSet(s) : HeldEntry(e)

\* A diff of lines the model has keys for.
Keyed(diff) == \A d \in diff : d[1] \in Keys \cup NewKeys

\* Whatever document the entries are run on from here on, none of its lines
\* coming back, they change the lines of Keys as the diff says or not at all.
Good(entries, diff, here) ==
  /\ Keyed(diff)
  /\ \A d \in Docs : Within(d, here) /\ Run(d, Ops(entries)).end = "ok"
       => OfKeys(Diff(d, Run(d, Ops(entries)).doc)) = OfKeys(diff)

\* A list of entries and the operations of it have the same places.
LEMMA ListDomain ==
  ASSUME NEW s, s \in Seq(ToSet(s))
  PROVE  /\ Len(s) \in Nat /\ DOMAIN s = 1..Len(s) /\ DOMAIN Ops(s) = 1..Len(s)
         /\ \A i \in 1..Len(s) : s[i] \in ToSet(s) /\ Ops(s)[i] = s[i].op
<1>1. Len(s) \in Nat /\ DOMAIN s = 1..Len(s) /\ \A i \in 1..Len(s) : s[i] \in ToSet(s)
  OBVIOUS
<1> QED BY <1>1 DEF Ops

\* What is held was asked for, and is a request the core can be sent.
LEMMA HeldIsAsked ==
  ASSUME NEW s, HeldList(s)
  PROVE  AskList(s) /\ HeldAsk(Ops(s))
<1>1. s \in Seq(ToSet(s)) /\ \A e \in ToSet(s) : HeldEntry(e)
  BY DEF HeldList
<1>2. /\ Len(s) \in Nat /\ DOMAIN Ops(s) = 1..Len(s)
      /\ \A i \in 1..Len(s) : s[i] \in ToSet(s) /\ Ops(s)[i] = s[i].op
  BY <1>1, ListDomain
<1>3. \A i \in 1..Len(s) : IsOp(Ops(s)[i]) /\ HeldOp(Ops(s)[i])
  BY <1>1, <1>2 DEF HeldEntry, Asked
<1>4. HeldAsk(Ops(s))
  BY <1>2, <1>3 DEF HeldAsk, EachHeld
<1>5. AskList(s)
  BY <1>1 DEF AskList, HeldEntry
<1> QED BY <1>4, <1>5

\* What a run of a request leaves is a document, with no line of Keys come back.
LEMMA RunDoc ==
  ASSUME NEW x \in Docs, NEW s, AskList(s), Run(x, Ops(s)).end = "ok"
  PROVE  Run(x, Ops(s)).doc \in Docs /\ Within(Run(x, Ops(s)).doc, x)
<1> DEFINE n == Len(s)
<1>1. /\ n \in Nat /\ DOMAIN Ops(s) = 1..n
      /\ \A i \in 1..n : IsOp(Ops(s)[i])
  BY ListDomain DEF AskList, Asked
<1> HIDE DEF n
<1>2. PICK st : Trail(st, x, Ops(s), n) /\ st[n].end = "ok" /\ Run(x, Ops(s)) = st[n]
  BY <1>1, RunEnds
<1>3. n \in 0..n /\ 0 \in 0..n
  BY <1>1
<1>4. st[0].doc = x /\ st[n].doc \in Docs
  BY <1>2, <1>3 DEF Trail, Start, Sofars
<1>5. Within(st[n].doc, st[0].doc)
  BY <1>1, <1>2, <1>3, RunWithin
<1> QED BY <1>2, <1>4, <1>5

\* The ranges of an answer, one for each operation, each with the text of its line.
LEMMA RunRanges ==
  ASSUME NEW x \in Docs, NEW s, AskList(s), Run(x, Ops(s)).end = "ok"
  PROVE  \A i \in 1..Len(s) : LET r == Run(x, Ops(s)).ranges[i]
                              IN  /\ r # None
                                  /\ s[i].op.kind # "insert_sequence_entry" => r.text \in Texts
<1> DEFINE n == Len(s)
           ops == Ops(s)
<1>1. /\ n \in Nat /\ DOMAIN ops = 1..n
      /\ \A i \in 1..n : IsOp(ops[i]) /\ ops[i] = s[i].op
  BY ListDomain DEF AskList, Asked
<1> HIDE DEF n, ops
<1>2. PICK st : Trail(st, x, ops, n) /\ st[n].end = "ok" /\ Run(x, ops) = st[n]
  BY <1>1, RunEnds DEF ops
<1>3. n \in 0..n
  BY <1>1
<1>4. \A i \in 1..n : Turned(st, ops, i)
  BY <1>2, <1>3, <1>1, TrailTurns
<1>5. \A i \in 0..n : st[i].doc \in Docs /\ st[i].ranges \in Seq(Landings(ops, n))
  BY <1>2 DEF Trail, Sofars
<1> DEFINE Land(i) == Locate(st[i - 1].doc, ops[i])
           K == {k \in Nat : k <= n => /\ Len(st[k].ranges) = k
                                       /\ \A i \in 1..k : st[k].ranges[i] = Land(i)}
<1> HIDE DEF Land
<1>6. 0 \in K
  <2>1. st[0].ranges = <<>>
    BY <1>2 DEF Trail, Start
  <2> QED BY <2>1
<1>7. ASSUME NEW k \in Nat, k \in K PROVE k + 1 \in K
  <2> SUFFICES ASSUME k + 1 <= n
               PROVE  /\ Len(st[k + 1].ranges) = k + 1
                      /\ \A i \in 1..(k + 1) : st[k + 1].ranges[i] = Land(i)
    OBVIOUS
  <2>1. k + 1 \in 1..n /\ k + 1 - 1 = k /\ k \in 0..n
    BY <1>1
  <2>2. st[k + 1].ranges = Append(st[k].ranges, Land(k + 1))
    BY <1>4, <2>1 DEF Turned, Land
  <2>3. Len(st[k].ranges) = k /\ \A i \in 1..k : st[k].ranges[i] = Land(i)
    BY <1>7, <1>1
  <2>4. st[k].ranges \in Seq(Landings(ops, n))
    BY <1>5, <2>1
  <2> QED BY <2>2, <2>3, <2>4
<1>8. \A i \in 1..n : st[n].ranges[i] = Land(i)
  <2> HIDE DEF K
  <2>1. n \in K
    BY <1>1, <1>6, <1>7, NatSet
  <2> QED BY <1>1, <2>1 DEF K
<1>9. ASSUME NEW i \in 1..n
      PROVE  Land(i) # None /\ (ops[i].kind # "insert_sequence_entry" => Land(i).text \in Texts)
  <2>1. i - 1 \in 0..n
    BY <1>1
  <2>2. Land(i) # None
    BY <1>4 DEF Turned, Land
  <2>3. st[i - 1].doc \in Docs /\ IsOp(ops[i])
    BY <1>1, <1>5, <2>1
  <2> QED BY <2>2, <2>3, PerformWorks DEF Land
<1> QED BY <1>1, <1>2, <1>8, <1>9 DEF n, ops

\* So what was previewed is held with its text once it is recorded.
LEMMA RecordHolds ==
  ASSUME NEW x \in Docs, NEW s, AskList(s), Run(x, Ops(s)).end = "ok"
  PROVE  /\ HeldList(Record(s, Run(x, Ops(s))))
         /\ Len(Record(s, Run(x, Ops(s)))) = Len(s)
<1> DEFINE reply == Run(x, Ops(s))
           R(i) == [s[i] EXCEPT !.op.expect = reply.ranges[i]]
           t == Record(s, reply)
<1>1. \A i \in 1..Len(s) : /\ reply.ranges[i] # None
                           /\ s[i].op.kind # "insert_sequence_entry" => reply.ranges[i].text \in Texts
  BY RunRanges
<1> HIDE DEF reply
<1>2. Len(s) \in Nat /\ DOMAIN s = 1..Len(s) /\ \A i \in 1..Len(s) : Asked(s[i])
  BY ListDomain DEF AskList
<1>3. t = [i \in 1..Len(s) |-> R(i)]
  BY <1>2 DEF Record
<1>4. ASSUME NEW i \in 1..Len(s) PROVE HeldEntry(t[i])
  <2> DEFINE e == s[i]
             u == t[i]
             r == reply.ranges[i]
             op == e.op
  <2>1. IsEntry(e) /\ IsRequest(op) /\ IsOp(op)
    BY <1>2 DEF Asked
  <2>2. u = [e EXCEPT !.op.expect = r]
    BY <1>3
  <2>3. r # None /\ (op.kind # "insert_sequence_entry" => r.text \in Texts)
    BY <1>1
  <2> HIDE DEF t, u, r, e
  <2>4. u = [key |-> e.key, op |-> [op EXCEPT !.expect = r]]
    BY <2>1, <2>2 DEF IsEntry
  <2> HIDE DEF op
  <2>5. [op EXCEPT !.expect = r] = [kind |-> op.kind, key |-> op.key, text |-> op.text, expect |-> r]
    BY <2>1 DEF IsRequest
  <2>6. u = [key |-> e.key, op |-> [kind |-> op.kind, key |-> op.key, text |-> op.text, expect |-> r]]
    BY <2>4, <2>5
  <2>7. IsEntry(u) /\ IsRequest(u.op)
    BY <2>6 DEF IsEntry, IsRequest
  <2>8. u.op.kind = op.kind /\ u.op.key = op.key /\ u.op.text = op.text /\ u.op.expect = r
    BY <2>6
  <2>9. IsOp(u.op)
    BY <2>1, <2>8 DEF IsOp
  <2>10. HeldOp(u.op)
    BY <2>3, <2>8, EditRunAssumption DEF HeldOp
  <2> QED BY <2>7, <2>9, <2>10 DEF HeldEntry, Asked, u
<1> HIDE DEF t, R
<1>5. ToSet(t) = {t[i] : i \in 1..Len(s)} /\ Len(t) = Len(s)
  BY <1>2, <1>3 DEF ToSet
<1>6. t \in Seq(ToSet(t))
  BY <1>2, <1>3, <1>5
<1> QED BY <1>4, <1>5, <1>6 DEF HeldList, t, reply

\* Setting and removing keep a list a list of held, or of asked, entries.
LEMMA SetKeepsAll ==
  ASSUME NEW P, NEW s, s \in Seq(ToSet(s)), ToSet(s) \subseteq P, NEW e \in P
  PROVE  LET t == Set(s, e) IN t \in Seq(ToSet(t)) /\ ToSet(t) \subseteq P
<1>1. s \in Seq(P)
  BY SeqMonotonic
<1>2. Set(s, e) \in Seq(P)
  BY <1>1, SetWorks
<1> DEFINE t == Set(s, e)
<1> HIDE DEF t
<1>3. t \in Seq(P)
  BY <1>2 DEF t
<1>4. ToSet(t) \subseteq P /\ t \in Seq(ToSet(t))
  BY <1>3 DEF ToSet
<1> QED BY <1>4 DEF t

\* Staging one more entry leaves a list of entries,
LEMMA SetAsked ==
  ASSUME NEW s, AskList(s), NEW e, Asked(e)
  PROVE  AskList(Set(s, e))
<1> DEFINE P == ToSet(s) \cup {e}
           t == Set(s, e)
<1>1. s \in Seq(ToSet(s)) /\ ToSet(s) \subseteq P /\ e \in P /\ \A x \in P : Asked(x)
  BY DEF AskList
<1> HIDE DEF P
<1>2. t \in Seq(ToSet(t)) /\ ToSet(t) \subseteq P
  BY <1>1, SetKeepsAll
<1> HIDE DEF t
<1>3. AskList(t)
  BY <1>1, <1>2 DEF AskList
<1> QED BY <1>3 DEF t

\* and staging what a preview answered leaves a list of previewed ones,
LEMMA SetAllHeld ==
  ASSUME NEW base, HeldList(base), NEW more, HeldList(more)
  PROVE  HeldList(SetAll(base, more))
<1> DEFINE P == ToSet(base) \cup ToSet(more)
           A == {t \in Seq(P) : TRUE}
           n == Len(more)
           all == SetAll(base, more)
<1>1. /\ base \in Seq(ToSet(base)) /\ more \in Seq(ToSet(more))
      /\ \A x \in P : HeldEntry(x)
  BY DEF HeldList
<1>2. n \in Nat /\ DOMAIN more = 1..n /\ \A i \in 1..n : more[i] \in P
  BY <1>1, ListDomain
<1>3. base \in Seq(P)
  BY <1>1, SeqMonotonic
<1> HIDE DEF P, n, all
<1>4. \A t \in Seq(P), i \in 1..n : Set(t, more[i]) \in Seq(P)
  BY <1>2, SetWorks
<1>5. all \in Seq(P)
  BY <1>2, <1>3, <1>4, SetAllSteps DEF all
<1>6. ToSet(all) \subseteq P /\ all \in Seq(ToSet(all))
  BY <1>5 DEF ToSet
<1>7. HeldList(all)
  BY <1>1, <1>6 DEF HeldList
<1> QED BY <1>7 DEF all

\* as taking one back does.
LEMMA WithoutHeld ==
  ASSUME NEW s, HeldList(s), NEW k
  PROVE  HeldList(Without(s, k))
<1> DEFINE t == Without(s, k)
           P == ToSet(s)
<1>1. s \in Seq(P) /\ \A x \in P : HeldEntry(x)
  BY DEF HeldList
<1> HIDE DEF P
<1>2. t \in Seq(P)
  BY <1>1, RemoveWorks
<1> HIDE DEF t
<1>3. ToSet(t) \subseteq P /\ t \in Seq(ToSet(t))
  BY <1>2 DEF ToSet
<1>4. HeldList(t)
  BY <1>1, <1>3 DEF HeldList
<1> QED BY <1>4 DEF t

\* No stages are a list of previewed entries.
LEMMA NoneHeld == HeldList(<<>>)
BY NothingStaged DEF HeldList, EntryList

\* A list of one entry.
LEMMA OneEntry ==
  ASSUME NEW e
  PROVE  /\ <<e>> \in Seq(ToSet(<<e>>)) /\ ToSet(<<e>>) = {e} /\ Len(<<e>>) = 1 /\ <<e>>[1] = e
         /\ Ops(<<e>>) = [i \in 1..1 |-> e.op]
<1>1. ToSet(<<e>>) = {e}
  BY DEF ToSet
<1>2. Ops(<<e>>) = [i \in 1..1 |-> e.op]
  BY DEF Ops
<1> QED BY <1>1, <1>2

\* The diff of a document against what a run of a request made of it is good for
\* every other; after a refusal every diff is.
LEMMA DiffKeyed ==
  ASSUME NEW x \in Docs, NEW y \in Docs
  PROVE  Keyed(Diff(x, y))
<1>1. \A l \in ToSet(x) \cup ToSet(y) : l.key \in Keys \cup NewKeys
  <2>1. ToSet(x) \cup ToSet(y) \subseteq Lines
    BY DEF Docs, ToSet
  <2> QED BY <2>1 DEF Lines
<1> QED BY <1>1 DEF Diff, Keyed

\* The diff of a run that went well is good for what was run,
LEMMA AnswerGood ==
  ASSUME NEW s, HeldList(s), NEW x \in Docs, Run(x, Ops(s)).end = "ok", NEW here
  PROVE  Good(s, Diff(x, Run(x, Ops(s)).doc), here)
<1>1. AskList(s) /\ HeldAsk(Ops(s))
  BY HeldIsAsked
<1>2. Keyed(Diff(x, Run(x, Ops(s)).doc))
  BY <1>1, RunDoc, DiffKeyed
<1> QED BY <1>1, <1>2, SameDiff DEF Good

\* and any diff is good for what was refused: it will not be written.
LEMMA RefusedGood ==
  ASSUME NEW s, HeldList(s), NEW x \in Docs, Run(x, Ops(s)).end = "refused",
         NEW here, Within(here, x), NEW diff, Keyed(diff)
  PROVE  Good(s, diff, here)
<1>1. HeldAsk(Ops(s))
  BY HeldIsAsked
<1>2. ASSUME NEW d \in Docs, Within(d, here) PROVE Run(d, Ops(s)).end # "ok"
  <2>1. Within(d, x)
    BY <1>2 DEF Within
  <2> QED BY <1>1, <2>1, StaysRefused
<1> QED BY <1>2 DEF Good

\* Both stay so as the file loses lines.
LEMMA GoodStays ==
  ASSUME NEW s, NEW diff, NEW here, Good(s, diff, here), NEW there, Within(there, here)
  PROVE  Good(s, diff, there)
BY DEF Good, Within

\* A request of one operation is one turn.
LEMMA OneTurn ==
  ASSUME NEW x \in Docs, NEW ops, DOMAIN ops = 1..1, IsOp(ops[1])
  PROVE  Ended(x, ops) = Turn(Start(x), ops[1])
<1>1. \A i \in 1..1 : IsOp(ops[i])
  OBVIOUS
<1>2. 1 \in Nat /\ 1 \in 1..1 /\ 1 - 1 = 0
  OBVIOUS
<1>3. PICK st : Trail(st, x, ops, 1) /\ Ended(x, ops) = st[1]
  BY <1>1, <1>2, RunTrail
<1>4. st[0] = Start(x) /\ st[1] = Turn(st[1 - 1], ops[1])
  BY <1>2, <1>3 DEF Trail
<1> QED BY <1>2, <1>3, <1>4

\* What it answers when it finds its place.
OneAnswer(x, op) == [end |-> "ok", doc |-> Perform(x, op), ranges |-> <<Locate(x, op)>>]

\* The first turn of a run: it goes well where the place is found and met.
LEMMA TurnOne ==
  ASSUME NEW x, NEW op
  PROVE  /\ Turn(Start(x), op).end = "ok"
              => Locate(x, op) # None /\ Met(Locate(x, op), op.expect)
         /\ Locate(x, op) # None /\ Met(Locate(x, op), op.expect)
              => Turn(Start(x), op) = OneAnswer(x, op)
<1> DEFINE range == Locate(x, op)
<1>1. Start(x).end = "ok" /\ Start(x).doc = x /\ Start(x).ranges = <<>>
  BY DEF Start
<1>2. [Start(x) EXCEPT !.end = "refused"].end # "ok" /\ [Start(x) EXCEPT !.end = "stale"].end # "ok"
  BY DEF Start
<1>3. Append(<<>>, range) = <<range>>
  OBVIOUS
<1>4. Turn(Start(x), op) = IF range = None THEN [Start(x) EXCEPT !.end = "refused"]
                           ELSE IF ~Met(range, op.expect) THEN [Start(x) EXCEPT !.end = "stale"]
                           ELSE [end |-> "ok", doc |-> Perform(x, op), ranges |-> <<range>>]
  BY <1>1, <1>3 DEF Turn
<1> HIDE DEF range
<1>5. CASE range = None
  <2>1. Turn(Start(x), op).end # "ok"
    BY <1>2, <1>4, <1>5
  <2> QED BY <1>5, <2>1 DEF range
<1>6. CASE range # None /\ ~Met(range, op.expect)
  <2>1. Turn(Start(x), op).end # "ok"
    BY <1>2, <1>4, <1>6
  <2> QED BY <1>6, <2>1 DEF range
<1>7. CASE range # None /\ Met(range, op.expect)
  <2>1. Turn(Start(x), op) = [end |-> "ok", doc |-> Perform(x, op), ranges |-> <<range>>]
    BY <1>4, <1>7
  <2> QED BY <1>7, <2>1 DEF range, OneAnswer
<1> QED BY <1>5, <1>6, <1>7

\* A request of one operation goes well where that turn does and changes something.
LEMMA OneRun ==
  ASSUME NEW x \in Docs, NEW ops, DOMAIN ops = 1..1, IsOp(ops[1])
  PROVE  /\ Run(x, ops).end = "ok"
              => /\ Locate(x, ops[1]) # None
                 /\ Perform(x, ops[1]) # x /\ Run(x, ops) = OneAnswer(x, ops[1])
         /\ Locate(x, ops[1]) # None /\ Met(Locate(x, ops[1]), ops[1].expect) /\ Perform(x, ops[1]) # x
              => Run(x, ops) = OneAnswer(x, ops[1])
<1> DEFINE op == ops[1]
           last == Turn(Start(x), op)
           range == Locate(x, op)
<1>1. Run(x, ops) = IF last.end = "ok" /\ last.doc = x THEN [last EXCEPT !.end = "refused"] ELSE last
  BY OneTurn DEF Run, Ended
<1>2. /\ last.end = "ok" => range # None /\ Met(range, op.expect)
      /\ range # None /\ Met(range, op.expect) => last = OneAnswer(x, op)
  BY TurnOne
<1>3. OneAnswer(x, op).end = "ok" /\ OneAnswer(x, op).doc = Perform(x, op)
  BY DEF OneAnswer
<1>4. [OneAnswer(x, op) EXCEPT !.end = "refused"].end # "ok"
  BY DEF OneAnswer
<1> HIDE DEF op, last, range
<1>5. CASE last.end = "ok"
  <2>1. range # None /\ last = OneAnswer(x, op)
    BY <1>2, <1>5
  <2>2. CASE Perform(x, op) = x
    <3>1. Run(x, ops).end # "ok"
      BY <1>1, <1>3, <1>4, <2>1, <2>2
    <3> QED BY <2>2, <3>1 DEF op
  <2>3. CASE Perform(x, op) # x
    <3>1. Run(x, ops) = OneAnswer(x, op)
      BY <1>1, <1>3, <2>1, <2>3
    <3> QED BY <2>1, <2>3, <3>1 DEF op, range
  <2> QED BY <2>2, <2>3
<1>6. CASE last.end # "ok"
  <2>1. ~(range # None /\ Met(range, op.expect)) /\ Run(x, ops).end # "ok"
    BY <1>1, <1>2, <1>3, <1>6
  <2> QED BY <2>1 DEF op, range
<1> QED BY <1>5, <1>6

\* A staged move answers as its preview did: it is the same operation, held to the
\* place it was found in.
LEMMA MoveAnswers ==
  ASSUME NEW x \in Docs, NEW e, Asked(e), Run(x, Ops(<<e>>)).end = "ok",
         NEW held, held.op = [e.op EXCEPT !.expect = Run(x, Ops(<<e>>)).ranges[1]]
  PROVE  Run(x, Ops(<<held>>)) = Run(x, Ops(<<e>>))
<1> DEFINE op == e.op
           op2 == held.op
           ops == Ops(<<e>>)
           ops2 == Ops(<<held>>)
           r == Locate(x, op)
<1>1. DOMAIN ops = 1..1 /\ ops[1] = op
  <2>1. ops = [i \in 1..1 |-> op]
    BY OneEntry
  <2> HIDE DEF ops, op
  <2> QED BY <2>1
<1>2. DOMAIN ops2 = 1..1 /\ ops2[1] = op2
  <2>1. ops2 = [i \in 1..1 |-> op2]
    BY OneEntry
  <2> HIDE DEF ops2, op2
  <2> QED BY <2>1
<1>3. IsRequest(op) /\ IsOp(op)
  BY DEF Asked
<1>4. Run(x, ops).end = "ok" /\ op2 = [op EXCEPT !.expect = Run(x, ops).ranges[1]]
  OBVIOUS
<1> SUFFICES Run(x, ops2) = Run(x, ops)
  OBVIOUS
<1> HIDE DEF op, op2, ops, ops2
<1>5. r # None /\ Perform(x, op) # x /\ Run(x, ops) = OneAnswer(x, op)
  BY <1>1, <1>3, <1>4, OneRun
<1>6. Run(x, ops).ranges[1] = r
  BY <1>5 DEF OneAnswer
<1> HIDE DEF r
<1>7. op2 = [kind |-> op.kind, key |-> op.key, text |-> op.text, expect |-> r]
  BY <1>3, <1>4, <1>6 DEF IsRequest
<1>8. op2.kind = op.kind /\ op2.key = op.key /\ op2.text = op.text /\ op2.expect = r
  BY <1>7
<1>9. IsOp(op2)
  BY <1>3, <1>8 DEF IsOp
<1>10. Locate(x, op2) = r /\ Perform(x, op2) = Perform(x, op)
  BY <1>8 DEF Locate, Perform, r
<1>11. Met(r, op2.expect)
  BY <1>8 DEF Met
<1>12. OneAnswer(x, op2) = OneAnswer(x, op)
  BY <1>10 DEF OneAnswer, r
<1>13. Run(x, ops2) = OneAnswer(x, op2)
  BY <1>2, <1>5, <1>9, <1>10, <1>11, OneRun
<1> QED BY <1>5, <1>12, <1>13

\* A document another program has saved is a document, with the same lines.
LEMMA Rewritten ==
  ASSUME NEW d \in Docs, NEW i \in DOMAIN d, NEW t \in Texts
  PROVE  /\ Reworded(d, i, t) \in Docs
         /\ Within(Reworded(d, i, t), d) /\ Within(d, Reworded(d, i, t))
<1> DEFINE y == Reworded(d, i, t)
           u == [d[i] EXCEPT !.text = t]
<1>a. d \in Seq(Lines) /\ DOMAIN d = 1..Len(d) /\ Len(d) \in Nat /\ i \in 1..Len(d)
  BY DEF Docs
<1>1. u \in Lines /\ u.key = d[i].key
  <2>1. d[i] \in Lines
    BY <1>a
  <2> QED BY <2>1 DEF Lines
<1>2. y = [d EXCEPT ![i] = u]
  BY DEF Reworded
<1> HIDE DEF u, y
<1>3. /\ y \in Seq(Lines) /\ Len(y) = Len(d)
      /\ \A j \in 1..Len(d) : y[j] = IF j = i THEN u ELSE d[j]
  BY <1>a, <1>1, <1>2, ExceptSeq
<1>4. \A j \in 1..Len(d) : y[j].key = d[j].key
  BY <1>1, <1>3
<1>5. y \in Docs
  BY <1>3, <1>4 DEF Docs
<1>6. ASSUME NEW k \in Keys, LinesOf(y, k) # <<>> PROVE LinesOf(d, k) # <<>>
  <2>1. PICK j \in 1..Len(y) : y[j].key = k
    BY <1>3, <1>6, NoLine
  <2>2. j \in 1..Len(d) /\ d[j].key = k
    BY <1>3, <1>4, <2>1
  <2>3. LinesOf(d, k) = <<d[j]>>
    BY <2>2, OneLine
  <2> QED BY <2>3
<1>7. ASSUME NEW k \in Keys, LinesOf(d, k) # <<>> PROVE LinesOf(y, k) # <<>>
  <2>1. PICK j \in 1..Len(d) : d[j].key = k
    BY <1>a, <1>7, NoLine
  <2>2. j \in 1..Len(y) /\ y[j].key = k
    BY <1>3, <1>4, <2>1
  <2>3. LinesOf(y, k) = <<y[j]>>
    BY <1>5, <2>2, OneLine
  <2> QED BY <2>3
<1>8. Within(y, d) /\ Within(d, y)
  BY <1>6, <1>7 DEF Within
<1> QED BY <1>5, <1>8 DEF y

-----------------------------------------------------------------------------
(* The invariant.                                                          *)

\* What a waiting actor asked for, and what it knows once it is answered: p where
\* it waits, j its request, d the file.  An answer to a preview is a run on a file
\* that had every line the file has now; a request to write is a list the diff the
\* reader saw is good for.
JobOK(p, j, d) ==
  /\ p \in Waits => IsJob(j)
  /\ p \in {"preview", "extract"} => AskList(j.entries)
  /\ p = "extract" => \E e : Asked(e) /\ j.entries = <<e>>
  /\ p = "refresh" => HeldList(j.entries)
  /\ p \in {"preview", "extract", "refresh"} /\ j.reply # None
       => j.wasDisk \in Docs /\ Within(d, j.wasDisk) /\ j.reply = Run(j.wasDisk, Ops(j.entries))
  /\ p \in {"apply", "applyMove"} => HeldList(j.entries) /\ Good(j.entries, j.shown, d)

JobsOK == /\ job = [a \in Actors |-> job[a]]
          /\ \A a \in Actors : JobOK(pc[a], job[a], disk)

\* The strip speaks for the stages, or is about to: for a move at once, for edits
\* once a preview of them that somebody waits for is answered.
MoveOK    == move # None => /\ HeldEntry(move.entry) /\ strip.diff = move.diff
                            /\ Good(<<move.entry>>, move.diff, disk)
Refreshes == \E a \in Actors : pc[a] = "refresh"
StripOK   == staged = <<>> \/ Good(staged, strip.diff, disk) \/ Refreshes
RefreshOK == \A a \in Actors : pc[a] = "refresh" =>
               (staged = <<>> \/ job[a].entries = staged) /\ move = None

\* A redraw under way while a handler records or writes has nothing to preview.
Busy(p)  == p \in {"preview", "extract", "apply", "applyMove"}
Quiet    == \A h \in Handlers : Busy(pc[h]) /\ pc[Draw] # "idle"
              => staged = <<>> /\ move = None /\ pc[Draw] # "refresh"
SaveOK   == \A h \in Handlers : /\ pc[h] = "apply" => move = None
                                /\ pc[h] = "applyMove" => staged = <<>>
LateOK   == late # None => HeldList(late.entries) /\ Good(late.entries, late.shown, disk)

LandInv ==
  /\ disk \in Docs /\ HeldList(staged) /\ Keyed(strip.diff)
  /\ JobsOK /\ MoveOK /\ StripOK /\ RefreshOK
  /\ pc[Draw] \in {"idle", "resolve", "refresh"} /\ Quiet /\ SaveOK /\ LateOK

\* Nothing a waiting actor knows is lost while no line comes back.
LEMMA JobStays ==
  ASSUME NEW p, NEW j, NEW d, JobOK(p, j, d), NEW d2, Within(d2, d)
  PROVE  JobOK(p, j, d2)
<1>1. \A w : Within(d, w) => Within(d2, w)
  BY DEF Within
<1>2. \A s, diff : Good(s, diff, d) => Good(s, diff, d2)
  BY GoodStays
<1> QED BY <1>1, <1>2 DEF JobOK

\* A file has the lines it has.
LEMMA WithinItself == ASSUME NEW d PROVE Within(d, d)
BY DEF Within

\* Nothing is asked of an actor that waits for no answer.
LEMMA IdleJob ==
  ASSUME NEW p \in {"idle", "resolve"}, NEW j, NEW d PROVE JobOK(p, j, d)
BY DEF JobOK, Waits

\* How a stretch ends: a handler returns, and may wake the redraw.
Rests(a) ==
  /\ Takes(a, None)
  /\ pc'[a] \in {"idle", "resolve"} /\ (a # Draw => pc'[a] = "idle")
  /\ \A b \in Actors : b # a =>
       pc'[b] = pc[b] \/ (b = Draw /\ pc[b] = "idle" /\ pc'[b] = "resolve")

\* A handler that returns has ended its stretch.
LEMMA SettleRests ==
  ASSUME PcOK, NEW a \in Actors, NEW redraw, Settle(a, redraw)
  PROVE  Rests(a)
<1>1. Takes(a, None)
  BY SettleTakes
<1>2. Draw \in Actors
  BY DEF Actors
<1>3. PICK p : /\ pc' = [pc EXCEPT ![a] = "idle", ![Draw] = p]
               /\ p = "resolve" \/ p = (IF a = Draw THEN "idle" ELSE pc[Draw])
               /\ p = "resolve" /\ a # Draw => pc[Draw] = "idle" \/ pc[Draw] = p
  BY DEF Settle
<1>4. pc \in [Actors -> Waits \cup {"idle", "resolve"}]
  BY DEF PcOK
<1>5. \A b \in Actors : pc'[b] = IF b = Draw THEN p ELSE IF b = a THEN "idle" ELSE pc[b]
  BY <1>2, <1>3, <1>4
<1> QED BY <1>1, <1>2, <1>3, <1>5 DEF Rests

\* Or it waits for the core.
Asks(a, wait, entries) ==
  /\ pc' = [pc EXCEPT ![a] = wait]
  /\ \E j : /\ Takes(a, j) /\ IsJob(j) /\ j.entries = entries /\ j.reply = None
            /\ j.shown = strip.diff

\* A handler that asks waits with what it asked.
LEMMA AskAsks ==
  ASSUME NEW a, NEW wait, NEW entries, NEW redraw, Ask(a, wait, entries, redraw)
  PROVE  Asks(a, wait, entries)
<1> DEFINE new == [entries |-> entries, redraw |-> redraw, reply |-> None,
                   shown |-> strip.diff, wasDisk |-> disk]
<1>1. IsJob(new) /\ new.entries = entries /\ new.reply = None /\ new.shown = strip.diff
  BY DEF IsJob
<1>2. Takes(a, new) /\ pc' = [pc EXCEPT ![a] = wait]
  BY DEF Ask, Takes
<1> HIDE DEF new
<1> QED BY <1>1, <1>2 DEF Asks

\* After either, everybody else's request is what it was.
LEMMA RestJobs ==
  ASSUME PcOK, JobsOK, NEW a \in Actors, Rests(a), UNCHANGED disk
  PROVE  JobsOK' /\ \A b \in Actors : b # a => job'[b] = job[b]
<1>1. job' = [b \in Actors |-> IF b = a THEN None ELSE job[b]]
  BY DEF JobsOK, Rests, Takes
<1>2. ASSUME NEW b \in Actors PROVE JobOK(pc'[b], job'[b], disk')
  <2>1. CASE pc'[b] \in {"idle", "resolve"}
    BY <2>1, IdleJob
  <2>2. CASE pc'[b] \notin {"idle", "resolve"}
    <3>1. b # a /\ pc'[b] = pc[b]
      BY <2>2 DEF Rests
    <3>2. job'[b] = job[b] /\ JobOK(pc[b], job[b], disk)
      BY <1>1, <3>1 DEF JobsOK
    <3> QED BY <3>1, <3>2
  <2> QED BY <2>1, <2>2
<1>3. job' = [b \in Actors |-> job'[b]]
  BY <1>1
<1> QED BY <1>1, <1>2, <1>3 DEF JobsOK

\* A request keeps what is known of the waiting actors, if it is of entries as its wait wants.
LEMMA AskJobs ==
  ASSUME PcOK, JobsOK, NEW a \in Actors, NEW wait, NEW entries, Asks(a, wait, entries), UNCHANGED disk,
         wait \in {"preview", "extract"} => AskList(entries),
         wait = "extract" => \E e : Asked(e) /\ entries = <<e>>,
         wait = "refresh" => HeldList(entries),
         wait \in {"apply", "applyMove"} => HeldList(entries) /\ Good(entries, strip.diff, disk)
  PROVE  /\ JobsOK' /\ job'[a].entries = entries /\ pc'[a] = wait
         /\ \A b \in Actors : b # a => pc'[b] = pc[b] /\ job'[b] = job[b]
<1>1. PICK j : /\ Takes(a, j) /\ IsJob(j) /\ j.entries = entries /\ j.reply = None
               /\ j.shown = strip.diff
  BY DEF Asks
<1>2. job' = [b \in Actors |-> IF b = a THEN j ELSE job[b]]
  BY <1>1 DEF JobsOK, Takes
<1>3. pc' = [pc EXCEPT ![a] = wait] /\ pc \in [Actors -> Waits \cup {"idle", "resolve"}]
  BY DEF Asks, PcOK
<1>4. \A b \in Actors : pc'[b] = IF b = a THEN wait ELSE pc[b]
  BY <1>3
<1>5. JobOK(wait, j, disk)
  BY <1>1 DEF JobOK
<1>6. ASSUME NEW b \in Actors PROVE JobOK(pc'[b], job'[b], disk')
  BY <1>2, <1>4, <1>5 DEF JobsOK
<1>7. job' = [b \in Actors |-> job'[b]]
  BY <1>2
<1> QED BY <1>1, <1>2, <1>4, <1>6, <1>7 DEF JobsOK
-----------------------------------------------------------------------------
(* Ends of a stretch keep it.                                              *)

\* A handler that returns, or the redraw that ends, leaving the stages as they
\* were, emptied, or a move just recorded.
LEMMA RestLands ==
  ASSUME ExclInv, LandInv, NEW a \in Actors, Rests(a), UNCHANGED <<disk, late>>,
         a \in Handlers => \A g \in Handlers : g # a => pc[g] = "idle",
         a = Draw => pc[Draw] # "idle",
         staged' \in {staged, <<>>}, Keyed(strip'.diff), MoveOK',
         move' \in {move, None} \/ (a \in Handlers /\ pc[a] = "extract"),
         \/ staged' = <<>>
         \/ strip'.diff = strip.diff /\ pc[a] # "refresh"
         \/ Good(staged', strip'.diff, disk)
  PROVE  LandInv'
<1>a. PcOK /\ JobsOK /\ Draw \notin Handlers /\ Draw \in Actors /\ Handlers \subseteq Actors
  BY StagingAssumption DEF ExclInv, LandInv, Actors
<1>1. JobsOK' /\ \A b \in Actors : b # a => job'[b] = job[b]
  BY <1>a, RestJobs
<1>2. ASSUME NEW b \in Actors, pc'[b] \notin {"idle", "resolve"} PROVE b # a /\ pc'[b] = pc[b]
  BY <1>2 DEF Rests
<1>3. StripOK'
  <2>1. CASE staged' = <<>> \/ Good(staged', strip'.diff, disk)
    BY <2>1 DEF StripOK
  <2>2. CASE staged' = staged /\ strip'.diff = strip.diff /\ pc[a] # "refresh"
    <3>1. CASE Refreshes
      <4>1. PICK b \in Actors : pc[b] = "refresh"
        BY <3>1 DEF Refreshes
      <4>2. pc'[b] = "refresh"
        BY <2>2, <4>1 DEF Rests
      <4> QED BY <4>2 DEF StripOK, Refreshes
    <3>2. CASE ~Refreshes
      <4>1. staged = <<>> \/ Good(staged, strip.diff, disk)
        BY <3>2 DEF LandInv, StripOK
      <4> QED BY <2>2, <4>1 DEF StripOK
    <3> QED BY <3>1, <3>2
  <2> QED BY <2>1, <2>2
<1>4. RefreshOK'
  <2> SUFFICES ASSUME NEW b \in Actors, pc'[b] = "refresh"
               PROVE  (staged' = <<>> \/ job'[b].entries = staged') /\ move' = None
    BY DEF RefreshOK
  <2>1. b # a /\ pc[b] = "refresh" /\ job'[b] = job[b]
    BY <1>1, <1>2
  <2>2. (staged = <<>> \/ job[b].entries = staged) /\ move = None
    BY <2>1 DEF LandInv, RefreshOK
  <2>3. ~(a \in Handlers /\ pc[a] = "extract")
    <3> SUFFICES ASSUME a \in Handlers, pc[a] = "extract" PROVE FALSE
      OBVIOUS
    <3>1. b = Draw
      BY <2>1 DEF Actors
    <3> QED BY <2>1, <3>1 DEF LandInv, Quiet, Busy
  <2> QED BY <2>1, <2>2, <2>3
<1>5. Quiet' /\ SaveOK'
  <2> SUFFICES ASSUME NEW h \in Handlers, Busy(pc'[h])
               PROVE  /\ pc'[Draw] # "idle" => staged' = <<>> /\ move' = None /\ pc'[Draw] # "refresh"
                      /\ pc'[h] = "apply" => move' = None
                      /\ pc'[h] = "applyMove" => staged' = <<>>
    BY DEF Quiet, SaveOK, Busy
  <2>1. h # a /\ pc[h] = pc'[h] /\ pc[h] # "idle" /\ Busy(pc[h])
    BY <1>2, <1>a DEF Busy
  <2>2. a = Draw
    BY <2>1 DEF Actors
  <2>3. staged = <<>> /\ move = None
    BY <2>1, <2>2 DEF LandInv, Quiet
  <2>4. pc'[Draw] # "refresh"
    BY <2>2 DEF Rests
  <2> QED BY <1>a, <2>2, <2>3, <2>4
<1>6. pc'[Draw] \in {"idle", "resolve", "refresh"}
  BY <1>a DEF LandInv, Rests
<1>7. LateOK' /\ disk' \in Docs /\ HeldList(staged')
  <2>1. HeldList(staged')
    BY NoneHeld DEF LandInv
  <2>2. LateOK'
    BY DEF LandInv, LateOK
  <2> QED BY <2>1, <2>2 DEF LandInv
<1> QED BY <1>1, <1>3, <1>4, <1>5, <1>6, <1>7 DEF LandInv

\* A press that asks the core for something, with nothing else in flight.
LEMMA PressLands ==
  ASSUME ExclInv, LandInv, AtRest, NEW h \in Handlers, NEW wait, NEW entries,
         Busy(wait), Asks(h, wait, entries),
         wait \in {"preview", "extract"} => AskList(entries),
         wait = "extract" => \E e : Asked(e) /\ entries = <<e>>,
         wait \in {"apply", "applyMove"} => HeldList(entries) /\ Good(entries, strip.diff, disk),
         wait = "apply" => move = None,
         wait = "applyMove" => staged = <<>>,
         UNCHANGED <<disk, staged, move, strip, late>>
  PROVE  LandInv'
<1>a. PcOK /\ JobsOK /\ h \in Actors /\ h # Draw /\ Draw \in Actors /\ wait # "refresh" /\ wait # "idle"
  BY StagingAssumption DEF ExclInv, LandInv, Actors, Busy
<1>1. /\ JobsOK' /\ pc'[h] = wait
      /\ \A b \in Actors : b # h => pc'[b] = pc[b] /\ job'[b] = job[b]
  BY <1>a, AskJobs
<1>2. \A b \in Actors : b # h => pc'[b] = "idle"
  BY <1>1 DEF AtRest
<1>3. StripOK' /\ MoveOK' /\ LateOK'
  <2>1. ~Refreshes
    BY DEF Refreshes, AtRest
  <2>2. StripOK'
    BY <2>1 DEF LandInv, StripOK
  <2>3. MoveOK' /\ LateOK'
    BY DEF LandInv, MoveOK, LateOK
  <2> QED BY <2>2, <2>3
<1>4. RefreshOK'
  BY <1>1, <1>2, <1>a DEF RefreshOK
<1>5. Quiet' /\ SaveOK'
  BY <1>1, <1>2, <1>a DEF Quiet, SaveOK, Actors, Busy
<1>6. pc'[Draw] \in {"idle", "resolve", "refresh"}
  BY <1>2, <1>a
<1>7. disk' \in Docs /\ HeldList(staged') /\ Keyed(strip'.diff)
  BY DEF LandInv
<1> QED BY <1>1, <1>3, <1>4, <1>5, <1>6, <1>7 DEF LandInv

\* Whoever asks for the strip of what is staged now.
LEMMA AskLands ==
  ASSUME ExclInv, LandInv, NEW a \in Actors, NEW entries, Asks(a, "refresh", entries),
         entries # <<>>, staged' = entries, HeldList(entries), move' = None,
         a \in Handlers => \A g \in Handlers : g # a => pc[g] = "idle",
         a = Draw => pc[Draw] # "idle" /\ staged' = staged,
         a \in Handlers => pc[Draw] # "refresh",
         UNCHANGED <<disk, strip, late>>
  PROVE  LandInv'
<1>a. PcOK /\ JobsOK /\ Draw \notin Handlers /\ Draw \in Actors /\ Handlers \subseteq Actors
  BY StagingAssumption DEF ExclInv, LandInv, Actors
<1>1. /\ JobsOK' /\ job'[a].entries = entries /\ pc'[a] = "refresh"
      /\ \A b \in Actors : b # a => pc'[b] = pc[b] /\ job'[b] = job[b]
  BY <1>a, AskJobs
<1>2. StripOK' /\ MoveOK' /\ LateOK'
  <2>1. StripOK'
    BY <1>1 DEF StripOK, Refreshes
  <2>2. MoveOK' /\ LateOK'
    BY DEF LandInv, MoveOK, LateOK
  <2> QED BY <2>1, <2>2
<1>3. RefreshOK'
  <2> SUFFICES ASSUME NEW b \in Actors, pc'[b] = "refresh" PROVE job'[b].entries = staged'
    BY DEF RefreshOK
  <2>1. CASE b = a
    BY <1>1, <2>1
  <2>2. CASE b # a
    <3>1. pc[b] = "refresh" /\ job'[b] = job[b]
      BY <1>1, <2>2
    <3>2. a = Draw
      BY <2>2, <3>1 DEF Actors
    <3>3. staged # <<>>
      BY <3>2
    <3> QED BY <3>1, <3>2, <3>3 DEF LandInv, RefreshOK
  <2> QED BY <2>1, <2>2
<1>4. ASSUME NEW h \in Handlers PROVE ~Busy(pc'[h])
  <2>1. CASE h = a
    BY <1>1, <2>1 DEF Busy
  <2>2. CASE h # a /\ a \in Handlers
    <3>1. pc'[h] = "idle"
      BY <1>1, <1>a, <2>2
    <3> QED BY <3>1 DEF Busy
  <2>3. CASE a = Draw
    <3>1. pc'[h] = pc[h] /\ staged # <<>>
      BY <1>1, <1>a, <2>3
    <3> QED BY <2>3, <3>1 DEF LandInv, Quiet
  <2> QED BY <2>1, <2>2, <2>3 DEF Actors
<1>5. Quiet' /\ SaveOK'
  BY <1>4 DEF Quiet, SaveOK, Busy
<1>6. pc'[Draw] \in {"idle", "resolve", "refresh"}
  BY <1>1, <1>a DEF LandInv
<1>7. disk' \in Docs /\ HeldList(staged') /\ Keyed(strip'.diff)
  BY DEF LandInv
<1> QED BY <1>1, <1>2, <1>3, <1>5, <1>6, <1>7 DEF LandInv
-----------------------------------------------------------------------------
(* The reader.                                                             *)

\* What showing the strip does: it ends the stretch, or asks.
LEMMA RefreshPendingDoes ==
  ASSUME PcOK, NEW a \in Actors, NEW entries, NEW mv, NEW redraw,
         RefreshPending(a, entries, mv, redraw)
  PROVE  \/ mv # None /\ strip' = Shown(mv.diff) /\ Rests(a)
         \/ mv = None /\ entries = <<>> /\ strip' = Cleared /\ Rests(a)
         \/ mv = None /\ entries # <<>> /\ UNCHANGED strip /\ Asks(a, "refresh", entries)
BY SettleRests, AskAsks DEF RefreshPending

\* The strips that show nothing show no line without a key.
LEMMA ClearedKeyed ==
  Keyed({}) /\ Keyed(Cleared.diff) /\ Keyed(Stale.diff)
BY DEF Keyed, Cleared, Stale

\* What a reader can ask for is an entry before its preview.
LEMMA EditOpAsked ==
  ASSUME NEW op \in EditOps PROVE Asked(Entry(op))
<1>1. IsRequest(op) /\ IsOp(op)
  <2>1. CASE op \in {Op("replace_scalar", k, t) : k \in Keys, t \in Texts}
    BY <2>1 DEF Op, IsRequest, IsOp, Kinds
  <2>2. CASE op \in {Op("delete_key", k, None) : k \in Keys}
    BY <2>2 DEF Op, IsRequest, IsOp, Kinds
  <2>3. CASE op \in {Op("insert_sequence_entry", k, t) : k \in NewKeys, t \in Texts}
    BY <2>3 DEF Op, IsRequest, IsOp, Kinds
  <2> QED BY <2>1, <2>2, <2>3 DEF EditOps
<1>2. IsEntry(Entry(op)) /\ Entry(op).op = op
  BY DEF IsEntry, Entry
<1> QED BY <1>1, <1>2 DEF Asked

\* A patient reader presses when nothing is in flight.
LEMMA AllAtRest ==
  ASSUME Patient, NEW h \in Handlers, Press(h) PROVE AtRest
BY DEF Press

\* Every press of the reader keeps LandInv: staging an edit,
LEMMA StageLands ==
  ASSUME Patient, ExclInv, LandInv, NEW h \in Handlers, NEW op \in EditOps, Stage(h, op)
  PROVE  LandInv'
<1> DEFINE list == Set(staged, Entry(op))
<1>1. Ask(h, "preview", list, FALSE) /\ UNCHANGED <<disk, late, staged, move, strip>> /\ AtRest
  BY AllAtRest DEF Stage, Press
<1>2. AskList(list)
  <2>1. AskList(staged)
    BY HeldIsAsked DEF LandInv
  <2> QED BY <2>1, EditOpAsked, SetAsked
<1> HIDE DEF list
<1>3. Asks(h, "preview", list)
  BY <1>1, AskAsks
<1> QED BY <1>1, <1>2, <1>3, PressLands DEF Busy

\* staging a move,
LEMMA StageMoveLands ==
  ASSUME Patient, ExclInv, LandInv, NEW h \in Handlers, NEW k \in Keys, NEW t \in Texts,
         StageMove(h, Op("replace_scalar", k, t))
  PROVE  LandInv'
<1> DEFINE e == Entry(Op("replace_scalar", k, t))
<1>1. Ask(h, "extract", <<e>>, FALSE) /\ UNCHANGED <<disk, late, staged, move, strip>> /\ AtRest
  BY AllAtRest DEF StageMove, Press
<1>2. Asked(e)
  <2>1. Op("replace_scalar", k, t) \in EditOps
    BY DEF EditOps
  <2> QED BY <2>1, EditOpAsked
<1> HIDE DEF e
<1>3. AskList(<<e>>)
  BY <1>2, OneEntry DEF AskList
<1>4. Asks(h, "extract", <<e>>)
  BY <1>1, AskAsks
<1>5. \E x : Asked(x) /\ <<e>> = <<x>>
  BY <1>2
<1> QED BY <1>1, <1>3, <1>4, <1>5, PressLands DEF Busy

\* taking a stage back,
LEMMA UnstageLands ==
  ASSUME Patient, ExclInv, LandInv, NEW h \in Handlers, NEW k, Unstage(h, k), staged # <<>>
  PROVE  LandInv'
<1> DEFINE rest == Without(staged, k)
<1>1. /\ staged' = rest /\ UNCHANGED <<move, disk, late>> /\ AtRest
      /\ RefreshPending(h, rest, move, TRUE)
  BY AllAtRest DEF Unstage, Press
<1>2. HeldList(rest)
  BY WithoutHeld DEF LandInv
<1> HIDE DEF rest
<1>3. move = None /\ MoveOK'
  BY <1>1 DEF ExclInv, Exclusive, MoveOK
<1>4. /\ h \in Actors /\ h # Draw /\ Draw \in Actors /\ PcOK /\ pc[h] = "idle" /\ pc[Draw] = "idle"
      /\ \A g \in Handlers : pc[g] = "idle"
  BY <1>1, StagingAssumption DEF Actors, ExclInv, AtRest
<1>5. CASE rest = <<>> /\ strip' = Cleared /\ Rests(h)
  <2>1. Keyed(strip'.diff)
    BY <1>5, ClearedKeyed
  <2> QED BY <1>1, <1>3, <1>4, <1>5, <2>1, RestLands
<1>6. CASE rest # <<>> /\ UNCHANGED strip /\ Asks(h, "refresh", rest)
  BY <1>1, <1>2, <1>3, <1>4, <1>6, AskLands
<1> QED BY <1>1, <1>3, <1>4, <1>5, <1>6, RefreshPendingDoes

\* (a discard leaves nothing staged, and a strip without a diff)
LEMMA DiscardGone ==
  ASSUME LandInv, NEW stale, Discard(stale)
  PROVE  staged' = <<>> /\ move' = None /\ Keyed(strip'.diff) /\ MoveOK'
<1>1. staged' = <<>> /\ move' = None /\ strip' \in {Stale, Cleared, strip}
  BY DEF Discard
<1>2. Keyed(strip.diff)
  BY DEF LandInv
<1> QED BY <1>1, <1>2, ClearedKeyed DEF MoveOK

\* discarding all,
LEMMA DiscardAllLands ==
  ASSUME Patient, ExclInv, LandInv, NEW h \in Handlers, DiscardAll(h)
  PROVE  LandInv'
<1>1. Discard(FALSE) /\ Settle(h, TRUE) /\ UNCHANGED <<disk, late>> /\ AtRest
  BY AllAtRest DEF DiscardAll, Press
<1>2. h \in Actors /\ h # Draw /\ PcOK /\ \A g \in Handlers : pc[g] = "idle"
  BY <1>1, StagingAssumption DEF Actors, ExclInv, AtRest
<1>3. Rests(h)
  BY <1>1, <1>2, SettleRests
<1>4. staged' = <<>> /\ move' = None /\ Keyed(strip'.diff) /\ MoveOK'
  BY <1>1, DiscardGone
<1> QED BY <1>1, <1>2, <1>3, <1>4, RestLands

\* and Save, which asks for what the strip is good for.
LEMMA SaveLands ==
  ASSUME Patient, ExclInv, LandInv, NEW h \in Handlers, Save(h)
  PROVE  LandInv'
<1>1. UNCHANGED <<disk, late, staged, move, strip>> /\ AtRest
  BY AllAtRest DEF Save, Press
<1>2. CASE move # None /\ Ask(h, "applyMove", <<move.entry>>, TRUE)
  <2>1. HeldEntry(move.entry) /\ Good(<<move.entry>>, strip.diff, disk)
    BY <1>2 DEF LandInv, MoveOK
  <2>2. HeldList(<<move.entry>>)
    BY <2>1, OneEntry DEF HeldList
  <2>3. Asks(h, "applyMove", <<move.entry>>)
    BY <1>2, AskAsks
  <2>4. staged = <<>>
    BY <1>2 DEF ExclInv, Exclusive
  <2> QED BY <1>1, <2>1, <2>2, <2>3, <2>4, PressLands DEF Busy
<1>3. CASE move = None /\ staged # <<>> /\ Ask(h, "apply", staged, TRUE)
  <2>1. Good(staged, strip.diff, disk) /\ HeldList(staged)
    BY <1>1, <1>3 DEF LandInv, StripOK, Refreshes, AtRest
  <2>2. Asks(h, "apply", staged)
    BY <1>3, AskAsks
  <2> QED BY <1>1, <1>3, <2>1, <2>2, PressLands DEF Busy
<1> QED BY <1>2, <1>3 DEF Save

\* So each press does.
LEMMA ReaderLands ==
  ASSUME Patient, ExclInv, LandInv, NEW h \in Handlers, ReaderStep(h)
  PROVE  LandInv'
<1>1. ASSUME NEW e \in ToSet(staged), Unstage(h, e.key) PROVE LandInv'
  <2>1. staged # <<>>
    BY <1>1 DEF ToSet
  <2> QED BY <1>1, <2>1, UnstageLands
<1> QED BY <1>1, StageLands, StageMoveLands, DiscardAllLands, SaveLands DEF ReaderStep
-----------------------------------------------------------------------------
(* The answers.                                                            *)

\* A preview is answered by a run, and a run does not fail.
LEMMA RunAnswers ==
  ASSUME NEW x \in Docs, NEW s, AskList(s)
  PROVE  Run(x, Ops(s)).end \in {"ok", "stale", "refused"}
<1> DEFINE n == Len(s)
<1>1. n \in Nat /\ DOMAIN Ops(s) = 1..n /\ \A i \in 1..n : IsOp(Ops(s)[i])
  BY ListDomain DEF AskList, Asked
<1> HIDE DEF n
<1> QED BY <1>1, RunEnds

\* Every answer keeps it: a preview's, whose entries are staged with the ranges it found,
LEMMA PreviewLands ==
  ASSUME ExclInv, LandInv, NEW h \in Handlers, Preview(h)
  PROVE  LandInv'
<1> DEFINE j == job[h]
           reply == j.reply
           all == SetAll(staged, Record(j.entries, reply))
<1>a. /\ h \in Actors /\ h # Draw /\ Draw \in Actors /\ PcOK /\ pc[h] = "preview" /\ reply # None
      /\ \A g \in Handlers : g # h => pc[g] = "idle"
  BY OthersIdle, StagingAssumption DEF Actors, ExclInv, Preview
<1>b. UNCHANGED <<disk, late>> /\ move = None
  BY DEF Preview, ExclInv, Checked
<1>c. JobOK(pc[h], job[h], disk)
  BY <1>a DEF LandInv, JobsOK
<1>d. AskList(j.entries) /\ j.wasDisk \in Docs /\ reply = Run(j.wasDisk, Ops(j.entries))
  BY <1>a, <1>c DEF JobOK
<1>e. pc[Draw] # "refresh"
  BY <1>a DEF LandInv, Quiet, Busy
<1>1. CASE ReportFailure(reply) /\ Settle(h, FALSE)
  <2>1. Rests(h)
    BY <1>a, <1>1, SettleRests
  <2>2. CASE Discard(TRUE)
    BY <1>a, <1>b, <2>1, <2>2, DiscardGone, RestLands
  <2>3. CASE UNCHANGED <<staged, move, strip, owed>>
    <3>1. MoveOK' /\ Keyed(strip'.diff)
      BY <1>b, <2>3 DEF LandInv, MoveOK
    <3> QED BY <1>a, <1>b, <2>1, <2>3, <3>1, RestLands
  <2> QED BY <1>1, <2>2, <2>3 DEF ReportFailure
<1>2. CASE /\ reply.end = "ok" /\ staged' = all /\ UNCHANGED move
           /\ RefreshPending(h, all, move, FALSE)
  <2>1. HeldList(all)
    <3>1. HeldList(Record(j.entries, reply))
      BY <1>d, <1>2, RecordHolds
    <3> QED BY <3>1, SetAllHeld DEF LandInv
  <2> HIDE DEF all
  <2>2. MoveOK'
    BY <1>b, <1>2 DEF MoveOK
  <2>3. CASE all = <<>> /\ strip' = Cleared /\ Rests(h)
    <3>1. Keyed(strip'.diff)
      BY <2>3, ClearedKeyed
    <3> QED BY <1>a, <1>b, <1>2, <2>2, <2>3, <3>1, RestLands
  <2>4. CASE all # <<>> /\ UNCHANGED strip /\ Asks(h, "refresh", all)
    BY <1>a, <1>b, <1>e, <1>2, <2>1, <2>4, AskLands
  <2> QED BY <1>a, <1>b, <1>2, <2>3, <2>4, RefreshPendingDoes
<1> QED BY <1>1, <1>2 DEF Preview

\* What an answered extract has for a move.
LEMMA ExtractHeld ==
  ASSUME NEW x \in Docs, NEW e, Asked(e), Run(x, Ops(<<e>>)).end = "ok", NEW here
  PROVE  LET reply == Run(x, Ops(<<e>>))
             held == [Record(<<e>>, reply)[1] EXCEPT !.key = <<"move", @[2], None>>]
         IN  HeldEntry(held) /\ Good(<<held>>, Diff(x, reply.doc), here)
<1> DEFINE reply == Run(x, Ops(<<e>>))
           rec == Record(<<e>>, reply)
           u == rec[1]
           held == [u EXCEPT !.key = <<"move", @[2], None>>]
<1>1. AskList(<<e>>)
  BY OneEntry DEF AskList
<1>2. HeldList(rec) /\ Len(rec) = 1
  BY <1>1, RecordHolds, OneEntry
<1>3. u.op = [e.op EXCEPT !.expect = reply.ranges[1]]
  <2> HIDE DEF reply
  <2>1. u = [e EXCEPT !.op.expect = reply.ranges[1]]
    BY DEF Record
  <2> HIDE DEF u
  <2> QED BY <2>1 DEF Asked, IsEntry
<1>4. HeldEntry(u)
  <2> HIDE DEF rec
  <2>1. rec \in Seq(ToSet(rec)) /\ 1 \in 1..Len(rec) /\ \A z \in ToSet(rec) : HeldEntry(z)
    BY <1>2 DEF HeldList
  <2>2. rec[1] \in ToSet(rec)
    BY <2>1, ListDomain
  <2> QED BY <2>1, <2>2
<1>a. reply.end = "ok"
  OBVIOUS
<1> HIDE DEF u, rec, reply
<1>5. held = [key |-> <<"move", u.key[2], None>>, op |-> u.op]
  BY <1>4 DEF HeldEntry, Asked, IsEntry
<1>6. held.op = u.op /\ IsEntry(held)
  BY <1>5 DEF IsEntry
<1> HIDE DEF held
<1>7. HeldEntry(held)
  BY <1>4, <1>6 DEF HeldEntry, Asked
<1>8. HeldList(<<held>>)
  BY <1>7, OneEntry DEF HeldList
<1>9. Run(x, Ops(<<held>>)) = reply
  <2>1. held.op = [e.op EXCEPT !.expect = reply.ranges[1]]
    BY <1>3, <1>6
  <2> QED BY <1>a, <2>1, MoveAnswers DEF reply
<1>10. Good(<<held>>, Diff(x, reply.doc), here)
  BY <1>a, <1>8, <1>9, AnswerGood
<1> QED BY <1>7, <1>10 DEF held, u, rec, reply

\* a move's,
LEMMA ExtractLands ==
  ASSUME ExclInv, LandInv, NEW h \in Handlers, Extract(h)
  PROVE  LandInv'
<1> DEFINE j == job[h]
           reply == j.reply
           held  == [Record(j.entries, reply)[1] EXCEPT !.key = <<"move", @[2], None>>]
           mv    == [entry |-> held, diff |-> Diff(j.wasDisk, reply.doc)]
<1>a. /\ h \in Actors /\ h # Draw /\ Draw \in Actors /\ PcOK /\ pc[h] = "extract" /\ reply # None
      /\ \A g \in Handlers : g # h => pc[g] = "idle"
  BY OthersIdle, StagingAssumption DEF Actors, ExclInv, Extract
<1>b. UNCHANGED <<disk, late>> /\ staged = <<>>
  BY DEF Extract, ExclInv, Checked
<1>c. JobOK(pc[h], job[h], disk)
  BY <1>a DEF LandInv, JobsOK
<1>d. PICK e : Asked(e) /\ j.entries = <<e>>
  BY <1>a, <1>c DEF JobOK
<1>e. AskList(j.entries) /\ j.wasDisk \in Docs /\ reply = Run(j.wasDisk, Ops(j.entries))
  BY <1>a, <1>c DEF JobOK
<1>1. CASE ReportFailure(reply) /\ Settle(h, FALSE)
  <2>1. Rests(h)
    BY <1>a, <1>1, SettleRests
  <2>2. CASE Discard(TRUE)
    BY <1>a, <1>b, <2>1, <2>2, DiscardGone, RestLands
  <2>3. CASE UNCHANGED <<staged, move, strip, owed>>
    <3>1. MoveOK' /\ Keyed(strip'.diff)
      BY <1>b, <2>3 DEF LandInv, MoveOK
    <3> QED BY <1>a, <1>b, <2>1, <2>3, <3>1, RestLands
  <2> QED BY <1>1, <2>2, <2>3 DEF ReportFailure
<1>2. CASE /\ reply.end = "ok" /\ move' = mv /\ UNCHANGED <<staged, owed>>
           /\ RefreshPending(h, staged, mv, FALSE)
  <2>1. HeldEntry(held) /\ Good(<<held>>, Diff(j.wasDisk, reply.doc), disk)
    BY <1>d, <1>e, <1>2, ExtractHeld
  <2>2. Keyed(Diff(j.wasDisk, reply.doc))
    <3>1. reply.doc \in Docs
      BY <1>e, <1>2, RunDoc
    <3> QED BY <1>e, <3>1, DiffKeyed
  <2>3. mv.entry = held /\ mv.diff = Diff(j.wasDisk, reply.doc)
    OBVIOUS
  <2> HIDE DEF mv, held
  <2>4. CASE mv # None /\ strip' = Shown(mv.diff) /\ Rests(h)
    <3>1. strip'.diff = mv.diff
      BY <2>4 DEF Shown
    <3>2. MoveOK'
      BY <1>b, <1>2, <2>1, <2>3, <3>1 DEF MoveOK
    <3> QED BY <1>a, <1>b, <1>2, <2>2, <2>3, <2>4, <3>1, <3>2, RestLands
  <2>5. CASE mv = None /\ strip' = Cleared /\ Rests(h)
    <3>1. MoveOK' /\ Keyed(strip'.diff)
      BY <1>2, <2>5, ClearedKeyed DEF MoveOK
    <3> QED BY <1>a, <1>b, <1>2, <2>5, <3>1, RestLands
  <2> QED BY <1>a, <1>b, <1>2, <2>4, <2>5, RefreshPendingDoes
<1> QED BY <1>1, <1>2 DEF Extract

\* a write's,
LEMMA AppliedLands ==
  ASSUME ExclInv, LandInv, NEW h \in Handlers, Applied(h)
  PROVE  LandInv'
<1>a. /\ h \in Actors /\ h # Draw /\ PcOK /\ pc[h] = "apply"
      /\ \A g \in Handlers : g # h => pc[g] = "idle"
  BY OthersIdle, StagingAssumption DEF Actors, ExclInv, Applied
<1>b. UNCHANGED <<disk, late>> /\ move = None
  BY <1>a DEF Applied, LandInv, SaveOK
<1>c. Rests(h)
  BY <1>a, SettleRests DEF Applied
<1>1. CASE staged' = <<>> /\ strip' = Cleared /\ UNCHANGED move
  <2>1. MoveOK' /\ Keyed(strip'.diff)
    BY <1>b, <1>1, ClearedKeyed DEF MoveOK
  <2> QED BY <1>a, <1>b, <1>c, <1>1, <2>1, RestLands
<1>2. CASE Discard(TRUE)
  BY <1>a, <1>b, <1>c, <1>2, DiscardGone, RestLands
<1>3. CASE UNCHANGED <<staged, move, strip, owed>>
  <2>1. MoveOK' /\ Keyed(strip'.diff)
    BY <1>b, <1>3 DEF LandInv, MoveOK
  <2> QED BY <1>a, <1>b, <1>c, <1>3, <2>1, RestLands
<1> QED BY <1>1, <1>2, <1>3 DEF Applied, Spend

\* and a written move's.
LEMMA MoveAppliedLands ==
  ASSUME ExclInv, LandInv, NEW h \in Handlers, MoveApplied(h)
  PROVE  LandInv'
<1>a. /\ h \in Actors /\ h # Draw /\ PcOK /\ pc[h] = "applyMove"
      /\ \A g \in Handlers : g # h => pc[g] = "idle"
  BY OthersIdle, StagingAssumption DEF Actors, ExclInv, MoveApplied
<1>b. UNCHANGED <<disk, late>> /\ staged = <<>>
  BY <1>a DEF MoveApplied, LandInv, SaveOK
<1>c. Rests(h)
  BY <1>a, SettleRests DEF MoveApplied
<1>1. CASE move' = None /\ strip' = Cleared /\ UNCHANGED <<staged, owed>>
  <2>1. MoveOK' /\ Keyed(strip'.diff)
    BY <1>1, ClearedKeyed DEF MoveOK
  <2> QED BY <1>a, <1>b, <1>c, <1>1, <2>1, RestLands
<1>2. CASE Discard(TRUE)
  BY <1>a, <1>b, <1>c, <1>2, DiscardGone, RestLands
<1>3. CASE UNCHANGED <<staged, move, strip, owed>>
  <2>1. MoveOK' /\ Keyed(strip'.diff)
    BY <1>b, <1>3 DEF LandInv, MoveOK
  <2> QED BY <1>a, <1>b, <1>c, <1>3, <2>1, RestLands
<1> QED BY <1>1, <1>2, <1>3 DEF MoveApplied

\* The strip's own preview.  A refusal shows nothing, and what was refused on the
\* file it was run on cannot be written on this one.
LEMMA RefreshLands ==
  ASSUME ExclInv, LandInv, NEW a \in Actors, Refresh(a)
  PROVE  LandInv'
<1> DEFINE j == job[a]
           reply == j.reply
<1>a. PcOK /\ pc[a] = "refresh" /\ reply # None /\ UNCHANGED <<disk, late>>
  BY DEF ExclInv, Refresh
<1>b. /\ a \in Handlers => \A g \in Handlers : g # a => pc[g] = "idle"
      /\ a = Draw => pc[Draw] # "idle"
  BY <1>a, OthersIdle
<1>c. JobOK(pc[a], job[a], disk)
  BY DEF LandInv, JobsOK
<1>d. /\ HeldList(j.entries) /\ j.wasDisk \in Docs /\ Within(disk, j.wasDisk)
      /\ reply = Run(j.wasDisk, Ops(j.entries))
  BY <1>a, <1>c DEF JobOK
<1>e. move = None /\ (staged = <<>> \/ j.entries = staged)
  BY <1>a DEF LandInv, RefreshOK
<1>f. Rests(a)
  BY <1>a, SettleRests DEF Refresh
<1>1. CASE /\ reply.end = "ok" /\ strip' = Shown(Diff(j.wasDisk, reply.doc))
           /\ UNCHANGED <<staged, move, owed>>
  <2>1. Good(j.entries, Diff(j.wasDisk, reply.doc), disk)
    BY <1>d, <1>1, AnswerGood
  <2>2. strip'.diff = Diff(j.wasDisk, reply.doc) /\ Keyed(strip'.diff)
    BY <1>1, <2>1 DEF Shown, Good
  <2>3. MoveOK'
    BY <1>e, <1>1 DEF MoveOK
  <2>4. staged' = <<>> \/ Good(staged', strip'.diff, disk)
    BY <1>e, <1>1, <2>1, <2>2
  <2> QED BY <1>a, <1>b, <1>f, <1>1, <2>2, <2>3, <2>4, RestLands
<1>2. CASE reply.end = "stale" /\ Discard(TRUE)
  BY <1>a, <1>b, <1>f, <1>2, DiscardGone, RestLands
<1>3. CASE reply.end \in {"refused", "failed"} /\ UNCHANGED <<staged, move, strip, owed>>
  <2>1. reply.end = "refused"
    BY <1>d, <1>3, HeldIsAsked, RunAnswers
  <2>2. Keyed(strip'.diff) /\ MoveOK'
    BY <1>e, <1>3 DEF LandInv, MoveOK
  <2>3. Good(j.entries, strip'.diff, disk)
    BY <1>d, <2>1, <2>2, RefusedGood
  <2>4. staged' = <<>> \/ Good(staged', strip'.diff, disk)
    BY <1>e, <1>3, <2>3
  <2> QED BY <1>a, <1>b, <1>f, <1>3, <2>2, <2>4, RestLands
<1> QED BY <1>1, <1>2, <1>3 DEF Refresh, ReportFailure
-----------------------------------------------------------------------------
(* The core, other programs, and the redraw.                               *)

\* Nobody moves: a file comes to hold fewer lines or other texts, and one actor
\* learns of an answer.
LEMMA CoreLands ==
  ASSUME LandInv, UNCHANGED <<pc, staged, move, strip>>, disk' \in Docs, Within(disk', disk),
         job' = [a \in Actors |-> job'[a]],
         \A a \in Actors : \/ job'[a] = job[a]
                           \/ JobOK(pc[a], job'[a], disk') /\ job'[a].entries = job[a].entries,
         LateOK'
  PROVE  LandInv'
<1>1. \A s, diff : Good(s, diff, disk) => Good(s, diff, disk')
  BY GoodStays
<1>2. ASSUME NEW a \in Actors PROVE JobOK(pc'[a], job'[a], disk')
  <2>1. JobOK(pc[a], job[a], disk)
    BY DEF LandInv, JobsOK
  <2>2. JobOK(pc[a], job[a], disk')
    BY <2>1, JobStays
  <2> QED BY <2>2
<1>3. JobsOK' /\ MoveOK' /\ StripOK'
  <2>1. JobsOK'
    BY <1>2 DEF JobsOK
  <2>2. MoveOK'
    BY <1>1 DEF LandInv, MoveOK
  <2>3. StripOK'
    BY <1>1 DEF LandInv, StripOK, Refreshes
  <2> QED BY <2>1, <2>2, <2>3
<1>4. RefreshOK'
  BY DEF LandInv, RefreshOK
<1>5. Quiet' /\ SaveOK'
  BY DEF LandInv, Quiet, SaveOK
<1> QED BY <1>3, <1>4, <1>5 DEF LandInv

\* A write nobody waits for stays good as the file loses lines.
LEMMA LateStays ==
  ASSUME LandInv, Within(disk', disk), UNCHANGED late
  PROVE  LateOK'
BY GoodStays DEF LandInv, LateOK

\* What a write leaves is a document.
LEMMA WrittenDoc ==
  ASSUME LandInv, NEW entries, HeldList(entries), Written(entries)
  PROVE  disk' \in Docs /\ Within(disk', disk)
<1>1. CASE Run(disk, Ops(entries)).end = "ok"
  <2>1. disk' = Run(disk, Ops(entries)).doc
    BY <1>1 DEF Written
  <2>2. Run(disk, Ops(entries)).doc \in Docs /\ Within(Run(disk, Ops(entries)).doc, disk)
    BY <1>1, HeldIsAsked, RunDoc DEF LandInv
  <2> QED BY <2>1, <2>2
<1>2. CASE Run(disk, Ops(entries)).end # "ok"
  <2>1. UNCHANGED disk
    BY <1>2 DEF Written
  <2> QED BY <2>1, WithinItself DEF LandInv
<1> QED BY <1>1, <1>2

\* Every step of the core keeps it: it answers a preview of the file as it is,
LEMMA ReadLands ==
  ASSUME ExclInv, LandInv, NEW a \in Actors, CoreReads(a)
  PROVE  LandInv'
<1> DEFINE j == job[a]
           reply == Run(disk, Ops(j.entries))
           new == [j EXCEPT !.reply = reply, !.wasDisk = disk]
<1>1. pc[a] \in {"preview", "extract", "refresh"} /\ pc[a] \in Waits
  BY DEF CoreReads, Pending, Writes, Waits
<1>2. JobOK(pc[a], j, disk) /\ job = [b \in Actors |-> job[b]]
  BY DEF LandInv, JobsOK
<1>3. IsJob(j)
  BY <1>1, <1>2 DEF JobOK
<1>4. UNCHANGED <<disk, pc, staged, move, strip, late>>
  BY DEF CoreReads
<1>5. job' = [job EXCEPT ![a].reply = reply, ![a].wasDisk = disk]
  BY DEF CoreReads
<1>6. job' = [b \in Actors |-> IF b = a THEN new ELSE job[b]]
  <2> HIDE DEF reply
  <2> QED BY <1>2, <1>5
<1> HIDE DEF reply, j
<1>7. /\ IsJob(new) /\ new.entries = j.entries /\ new.shown = j.shown
      /\ new.reply = reply /\ new.wasDisk = disk
  <2>1. new = [entries |-> j.entries, redraw |-> j.redraw, reply |-> reply,
               shown |-> j.shown, wasDisk |-> disk]
    <3> DEFINE one == [j EXCEPT !.reply = reply]
    <3>1. one = [entries |-> j.entries, redraw |-> j.redraw, reply |-> reply,
                 shown |-> j.shown, wasDisk |-> j.wasDisk]
      BY <1>3 DEF IsJob
    <3>2. new = [one EXCEPT !.wasDisk = disk]
      OBVIOUS
    <3> HIDE DEF one, new
    <3> QED BY <3>1, <3>2
  <2> HIDE DEF new
  <2> QED BY <2>1 DEF IsJob
<1> HIDE DEF new
<1>8. JobOK(pc[a], new, disk)
  <2>1. disk \in Docs /\ Within(disk, disk)
    BY WithinItself DEF LandInv
  <2> QED BY <1>1, <1>2, <1>7, <2>1 DEF JobOK, reply
<1>9. disk' \in Docs /\ Within(disk', disk) /\ LateOK'
  BY <1>4, WithinItself, LateStays DEF LandInv
<1>10. job' = [b \in Actors |-> job'[b]]
  BY <1>6
<1>11. \A b \in Actors : \/ job'[b] = job[b]
                         \/ JobOK(pc[b], job'[b], disk') /\ job'[b].entries = job[b].entries
  BY <1>4, <1>6, <1>7, <1>8 DEF j
<1> QED BY <1>4, <1>9, <1>10, <1>11, CoreLands

\* A write that is answered, or given up on: its list is good for the file as it is.
LEMMA ReplyLands ==
  ASSUME ExclInv, LandInv, NEW a \in Actors, Writes(a), NEW reply,
         job' = [job EXCEPT ![a].reply = reply], UNCHANGED <<pc, staged, move, strip>>,
         disk' \in Docs, Within(disk', disk), LateOK'
  PROVE  LandInv'
<1> DEFINE j == job[a]
           new == [j EXCEPT !.reply = reply]
<1>1. pc[a] \in {"apply", "applyMove"} /\ pc[a] \in Waits
  BY DEF Writes, Waits
<1>2. JobOK(pc[a], j, disk) /\ job = [b \in Actors |-> job[b]]
  BY DEF LandInv, JobsOK
<1>3. JobOK(pc[a], j, disk')
  BY <1>2, JobStays
<1>4. job' = [b \in Actors |-> IF b = a THEN new ELSE job[b]]
  BY <1>2
<1>5. IsJob(j)
  BY <1>1, <1>2 DEF JobOK
<1> HIDE DEF j
<1>6. IsJob(new) /\ new.entries = j.entries /\ new.shown = j.shown
  BY <1>5 DEF IsJob
<1> HIDE DEF new
<1>7. JobOK(pc[a], new, disk')
  BY <1>1, <1>3, <1>6 DEF JobOK
<1>8. job' = [b \in Actors |-> job'[b]]
  BY <1>4
<1>9. \A b \in Actors : \/ job'[b] = job[b]
                        \/ JobOK(pc[b], job'[b], disk') /\ job'[b].entries = job[b].entries
  BY <1>4, <1>6, <1>7 DEF j
<1> QED BY <1>8, <1>9, CoreLands

\* (what a writer asks is a list the diff the reader saw is good for)
LEMMA WriteHeld ==
  ASSUME LandInv, NEW a \in Actors, Writes(a)
  PROVE  HeldList(job[a].entries) /\ Good(job[a].entries, job[a].shown, disk)
<1>1. JobOK(pc[a], job[a], disk)
  BY DEF LandInv, JobsOK
<1> QED BY <1>1 DEF JobOK, Writes

\* it writes,
LEMMA WriteLands ==
  ASSUME ExclInv, LandInv, NEW a \in Actors, CoreWrites(a)
  PROVE  LandInv'
<1>1. Writes(a) /\ Written(job[a].entries) /\ UNCHANGED <<pc, staged, move, strip, late>>
  BY DEF CoreWrites
<1>2. disk' \in Docs /\ Within(disk', disk)
  BY <1>1, WriteHeld, WrittenDoc
<1>3. LateOK'
  BY <1>1, <1>2, LateStays
<1> DEFINE reply == Run(disk, Ops(job[a].entries))
<1>4. job' = [job EXCEPT ![a].reply = reply]
  BY DEF CoreWrites
<1> HIDE DEF reply
<1> QED BY <1>1, <1>2, <1>3, <1>4, ReplyLands

\* it is given up on, its write still to come,
LEMMA TimeoutLands ==
  ASSUME ~LostReads, ExclInv, LandInv, NEW a \in Actors, Timeout(a)
  PROVE  LandInv'
<1>1. Writes(a) /\ UNCHANGED <<disk, pc, staged, move, strip>> /\ late' \in {job[a], None}
  BY DEF Timeout
<1>2. LateOK'
  BY <1>1, WriteHeld DEF LateOK
<1>3. disk' \in Docs /\ Within(disk', disk)
  BY <1>1, WithinItself DEF LandInv
<1>4. job' = [job EXCEPT ![a].reply = Failed]
  BY DEF Timeout
<1> QED BY <1>1, <1>2, <1>3, <1>4, ReplyLands

\* and that write lands.
LEMMA LateLands ==
  ASSUME LandInv, CoreWritesLate
  PROVE  LandInv'
<1>1. late # None /\ late' = None /\ Written(late.entries) /\ UNCHANGED <<pc, job, staged, move, strip>>
  BY DEF CoreWritesLate
<1>2. HeldList(late.entries)
  BY <1>1 DEF LandInv, LateOK
<1>3. disk' \in Docs /\ Within(disk', disk)
  BY <1>1, <1>2, WrittenDoc
<1>4. LateOK'
  BY <1>1 DEF LateOK
<1>5. job' = [a \in Actors |-> job'[a]]
  BY <1>1 DEF LandInv, JobsOK
<1> QED BY <1>1, <1>3, <1>4, <1>5, CoreLands

\* Another program's save keeps it,
LEMMA EditLands ==
  ASSUME LandInv, ExternalEdit
  PROVE  LandInv'
<1>1. PICK i \in DOMAIN disk, t \in Texts : disk' = [disk EXCEPT ![i].text = t]
  BY DEF ExternalEdit
<1>2. disk' = Reworded(disk, i, t)
  BY <1>1 DEF Reworded
<1>3. disk' \in Docs /\ Within(disk', disk)
  BY <1>2, Rewritten DEF LandInv
<1>4. UNCHANGED <<pc, job, staged, move, strip, late>>
  BY DEF ExternalEdit
<1>5. job' = [a \in Actors |-> job'[a]]
  BY <1>4 DEF LandInv, JobsOK
<1> QED BY <1>3, <1>4, <1>5, LateStays, CoreLands

\* and so does what changes neither the file nor a stage,
LEMMA SameLands ==
  ASSUME LandInv, UNCHANGED <<disk, staged, move, strip, pc, job, late>>
  PROVE  LandInv'
<1>1. disk' \in Docs /\ Within(disk', disk)
  BY WithinItself DEF LandInv
<1>2. job' = [a \in Actors |-> job'[a]]
  BY DEF LandInv, JobsOK
<1> QED BY <1>1, <1>2, LateStays, CoreLands

\* The watcher wakes the redraw, and nothing is staged any more.
LEMMA SeenLands ==
  ASSUME ExclInv, LandInv, ChangeSeen
  PROVE  LandInv'
<1>1. CASE fresh
  BY <1>1, SameLands DEF ChangeSeen
<1>2. CASE ~fresh
  <2>a. Draw \in Actors /\ Draw \notin Handlers /\ Handlers \subseteq Actors /\ PcOK
    BY StagingAssumption DEF Actors, ExclInv
  <2>1. pc' = [pc EXCEPT ![Draw] = IF pc[Draw] = "idle" THEN "resolve" ELSE pc[Draw]]
    BY <1>2 DEF ChangeSeen
  <2>2. UNCHANGED <<disk, late, job>>
    BY <1>2 DEF ChangeSeen
  <2>3. \A b \in Actors : \/ pc'[b] = pc[b]
                          \/ b = Draw /\ pc[b] = "idle" /\ pc'[b] = "resolve"
    BY <2>a, <2>1 DEF PcOK
  <2>4. staged' = <<>> /\ move' = None /\ Keyed(strip'.diff)
    <3>1. CASE staged # <<>> \/ move # None
      <4>1. Discard(TRUE)
        BY <1>2, <3>1 DEF ChangeSeen
      <4> QED BY <4>1, DiscardGone
    <3>2. CASE ~(staged # <<>> \/ move # None)
      BY <1>2, <3>2 DEF ChangeSeen, LandInv
    <3> QED BY <3>1, <3>2
  <2>5. JobsOK'
    <3>1. ASSUME NEW b \in Actors PROVE JobOK(pc'[b], job'[b], disk')
      <4>1. CASE pc'[b] = pc[b]
        BY <2>2, <4>1 DEF LandInv, JobsOK
      <4>2. CASE pc'[b] = "resolve"
        BY <4>2, IdleJob
      <4> QED BY <2>3, <4>1, <4>2
    <3> QED BY <2>2, <3>1 DEF LandInv, JobsOK
  <2>6. MoveOK' /\ StripOK' /\ LateOK'
    BY <2>2, <2>4 DEF LandInv, MoveOK, StripOK, LateOK
  <2>7. RefreshOK'
    BY <2>4 DEF RefreshOK
  <2>8. Quiet' /\ SaveOK'
    <3> SUFFICES ASSUME NEW h \in Handlers, Busy(pc'[h]) PROVE pc'[Draw] # "refresh"
      BY <2>4 DEF Quiet, SaveOK
    <3>1. pc'[h] = pc[h]
      BY <2>a, <2>3
    <3> QED BY <2>a, <2>3, <3>1 DEF LandInv, Quiet
  <2>9. pc'[Draw] \in {"idle", "resolve", "refresh"}
    BY <2>a, <2>3 DEF LandInv
  <2>10. disk' \in Docs /\ HeldList(staged')
    BY <2>2, <2>4, NoneHeld DEF LandInv
  <2> QED BY <2>4, <2>5, <2>6, <2>7, <2>8, <2>9, <2>10 DEF LandInv
<1> QED BY <1>1, <1>2

\* and the end of a redraw.
LEMMA DrawnLands ==
  ASSUME ExclInv, LandInv, Drawn
  PROVE  LandInv'
<1>a. /\ Draw \in Actors /\ Draw \notin Handlers /\ PcOK /\ pc[Draw] = "resolve"
      /\ UNCHANGED <<disk, late, staged, move>>
  BY StagingAssumption DEF Actors, ExclInv, Drawn
<1>1. CASE Settle(Draw, FALSE) /\ UNCHANGED strip
  <2>1. Rests(Draw)
    BY <1>a, <1>1, SettleRests
  <2>2. MoveOK' /\ Keyed(strip'.diff)
    BY <1>a, <1>1 DEF LandInv, MoveOK
  <2> QED BY <1>a, <1>1, <2>1, <2>2, RestLands
<1>2. CASE RefreshPending(Draw, staged, move, FALSE)
  <2>1. CASE move # None /\ strip' = Shown(move.diff) /\ Rests(Draw)
    <3>1. strip'.diff = move.diff /\ strip.diff = move.diff
      BY <2>1 DEF Shown, LandInv, MoveOK
    <3>2. MoveOK' /\ Keyed(strip'.diff)
      BY <1>a, <3>1 DEF LandInv, MoveOK
    <3> QED BY <1>a, <2>1, <3>1, <3>2, RestLands
  <2>2. CASE move = None /\ staged = <<>> /\ strip' = Cleared /\ Rests(Draw)
    <3>1. MoveOK' /\ Keyed(strip'.diff)
      BY <1>a, <2>2, ClearedKeyed DEF MoveOK
    <3> QED BY <1>a, <2>2, <3>1, RestLands
  <2>3. CASE move = None /\ staged # <<>> /\ UNCHANGED strip /\ Asks(Draw, "refresh", staged)
    <3>1. HeldList(staged)
      BY DEF LandInv
    <3>2. staged' = staged /\ move' = None /\ UNCHANGED <<disk, strip, late>> /\ pc[Draw] # "idle"
      BY <1>a, <2>3
    <3> QED BY <1>a, <2>3, <3>1, <3>2, AskLands
  <2>4. \/ move # None /\ strip' = Shown(move.diff) /\ Rests(Draw)
        \/ move = None /\ staged = <<>> /\ strip' = Cleared /\ Rests(Draw)
        \/ move = None /\ staged # <<>> /\ UNCHANGED strip /\ Asks(Draw, "refresh", staged)
    BY <1>a, <1>2, RefreshPendingDoes
  <2> QED BY <2>1, <2>2, <2>3, <2>4
<1> QED BY <1>1, <1>2 DEF Drawn
-----------------------------------------------------------------------------
\* So LandInv is inductive, next to ExclInv, where no preview goes unanswered:
\* none can, or nothing does in this step.
LEMMA StepLands ==
  ASSUME Patient, ~LostReads \/ UNCHANGED timeouts, timeouts \in Nat,
         ExclInv, LandInv, [Next]_vars
  PROVE  LandInv'
<1>1. CASE \E h \in Handlers : ReaderStep(h)
  BY <1>1, ReaderLands
<1>2. CASE \E h \in Handlers : HandlerStep(h)
  BY <1>2, PreviewLands, ExtractLands, AppliedLands, MoveAppliedLands DEF HandlerStep
<1>3. CASE \E a \in Actors : Refresh(a)
  BY <1>3, RefreshLands
<1>4. CASE \E a \in Actors : CoreReads(a) \/ CoreWrites(a) \/ Timeout(a)
  <2>1. ASSUME NEW a \in Actors, Timeout(a) PROVE ~LostReads
    <3>1. timeouts' = timeouts + 1
      BY <2>1 DEF Timeout
    <3> QED BY <3>1
  <2> QED BY <1>4, <2>1, ReadLands, WriteLands, TimeoutLands
<1>5. CASE CoreWritesLate \/ ExternalEdit \/ ChangeSeen \/ Drawn
  BY <1>5, LateLands, EditLands, SeenLands, DrawnLands
<1>6. CASE WindowCloses \/ UNCHANGED vars
  <2>1. UNCHANGED <<disk, staged, move, strip, pc, job, late>>
    BY <1>6 DEF WindowCloses, vars
  <2> QED BY <2>1, SameLands
<1> QED BY <1>1, <1>2, <1>3, <1>4, <1>5, <1>6 DEF Next

\* The file starts as a document, with nothing staged.
LEMMA InitLands ==
  ASSUME Init
  PROVE  LandInv
<1>1. disk \in Docs
  <2>1. Cardinality(Keys) \in Nat
    BY StagingAssumption, FS_CardinalityType
  <2> DEFINE n == Cardinality(Keys)
  <2>2. n \in Nat /\ disk \in [1..n -> [key : Keys, text : Texts]]
    BY <2>1 DEF Init
  <2> HIDE DEF n
  <2>a. [key : Keys, text : Texts] \subseteq Lines
    BY DEF Lines
  <2>3. disk \in [1..n -> Lines]
    <3> DEFINE L == [key : Keys, text : Texts]
    <3>1. disk \in [1..n -> L] /\ L \subseteq Lines
      BY <2>2, <2>a
    <3> HIDE DEF L
    <3> QED BY <3>1
  <2>4. disk \in Seq(Lines) /\ DOMAIN disk = 1..Len(disk)
    BY <2>2, <2>3, SeqDef
  <2> QED BY <2>3, <2>4 DEF Init, Docs
<1>2. Draw \in Actors /\ \A a \in Actors : pc[a] = "idle"
  BY DEF Init, Actors
<1>3. JobsOK
  <2>1. \A a \in Actors : JobOK(pc[a], job[a], disk)
    BY <1>2, IdleJob
  <2>2. job = [a \in Actors |-> job[a]]
    BY DEF Init
  <2> QED BY <2>1, <2>2 DEF JobsOK
<1>4. MoveOK /\ StripOK /\ RefreshOK /\ Quiet /\ SaveOK /\ LateOK
  BY <1>2 DEF Init, MoveOK, StripOK, RefreshOK, Quiet, SaveOK, LateOK, Busy, Actors
<1>5. HeldList(staged) /\ Keyed(strip.diff)
  BY NoneHeld, ClearedKeyed DEF Init
<1> QED BY <1>1, <1>2, <1>3, <1>4, <1>5 DEF LandInv

\* A step that changes the file and is nobody else's save is a write, and it changes
\* the lines the file started with as the strip said.
LinesAsShownStep ==
  disk' # disk /\ edits' = edits
    => \/ late # None /\ late' = None /\ OfKeys(Diff(disk, disk')) = OfKeys(late.shown)
       \/ \E a \in Actors : /\ Writes(a) /\ Pending(a)
                            /\ OfKeys(Diff(disk, disk')) = OfKeys(job[a].shown)

\* A write that changes the file changes its lines as the diff says it is good for.
LEMMA WrittenAsShown ==
  ASSUME LandInv, NEW entries, HeldList(entries), NEW shown, Good(entries, shown, disk),
         Written(entries), disk' # disk
  PROVE  OfKeys(Diff(disk, disk')) = OfKeys(shown)
<1>1. Run(disk, Ops(entries)).end = "ok" /\ disk' = Run(disk, Ops(entries)).doc
  BY DEF Written
<1>2. disk \in Docs /\ Within(disk, disk)
  BY WithinItself DEF LandInv
<1> QED BY <1>1, <1>2 DEF Good

\* Other programs' saves are counted, and so are timeouts.
Counted == edits \in Nat /\ timeouts \in Nat

LEMMA StepCounts ==
  ASSUME Counted, [Next]_vars
  PROVE  Counted' /\ (timeouts' = 0 => timeouts = 0)
<1> USE DEF Counted
<1>1. ASSUME NEW h \in Handlers, ReaderStep(h) \/ HandlerStep(h) PROVE UNCHANGED <<edits, timeouts>>
  BY <1>1 DEF ReaderStep, Stage, Unstage, DiscardAll, Save, StageMove, Press,
              HandlerStep, Preview, Extract, Applied, MoveApplied, bounds
<1>2. ASSUME NEW a \in Actors, Refresh(a) \/ CoreReads(a) \/ CoreWrites(a)
      PROVE  UNCHANGED <<edits, timeouts>>
  BY <1>2 DEF Refresh, CoreReads, CoreWrites, bounds
<1>3. CASE CoreWritesLate \/ ChangeSeen \/ WindowCloses \/ Drawn \/ UNCHANGED vars
  <2>1. UNCHANGED <<edits, timeouts>>
    BY <1>3 DEF CoreWritesLate, ChangeSeen, WindowCloses, Drawn, vars, bounds
  <2> QED BY <2>1
<1>4. CASE ExternalEdit
  <2>1. edits' = edits + 1 /\ UNCHANGED timeouts
    BY <1>4 DEF ExternalEdit
  <2> QED BY <2>1
<1>5. ASSUME NEW a \in Actors, Timeout(a) PROVE timeouts' = timeouts + 1 /\ UNCHANGED edits
  BY <1>5 DEF Timeout
<1>6. CASE \E a \in Actors : Timeout(a)
  <2>1. timeouts' = timeouts + 1 /\ UNCHANGED edits
    BY <1>5, <1>6
  <2> QED BY <2>1
<1> QED BY <1>1, <1>2, <1>3, <1>4, <1>6 DEF Next

\* So a step that changes the file, and is no other program's, changes its lines as shown.
LEMMA StepAsShown ==
  ASSUME edits \in Nat, LandInv, [Next]_vars
  PROVE  LinesAsShownStep
<1> SUFFICES ASSUME disk' # disk, edits' = edits
             PROVE  \/ late # None /\ late' = None /\ OfKeys(Diff(disk, disk')) = OfKeys(late.shown)
                    \/ \E a \in Actors : /\ Writes(a) /\ Pending(a)
                                         /\ OfKeys(Diff(disk, disk')) = OfKeys(job[a].shown)
  BY DEF LinesAsShownStep
<1>1. ASSUME NEW a \in Actors, CoreWrites(a)
      PROVE  Writes(a) /\ Pending(a) /\ OfKeys(Diff(disk, disk')) = OfKeys(job[a].shown)
  <2>1. Writes(a) /\ Pending(a) /\ Written(job[a].entries)
    BY <1>1 DEF CoreWrites
  <2> QED BY <2>1, WriteHeld, WrittenAsShown
<1>2. CASE CoreWritesLate
  <2>1. late # None /\ late' = None /\ Written(late.entries)
    BY <1>2 DEF CoreWritesLate
  <2>2. HeldList(late.entries) /\ Good(late.entries, late.shown, disk)
    BY <2>1 DEF LandInv, LateOK
  <2> QED BY <2>1, <2>2, WrittenAsShown
<1>3. CASE ExternalEdit
  <2>1. edits' = edits + 1
    BY <1>3 DEF ExternalEdit
  <2> QED BY <2>1
<1>4. ASSUME NEW h \in Handlers, ReaderStep(h) \/ HandlerStep(h) PROVE FALSE
  <2>1. UNCHANGED disk
    BY <1>4 DEF ReaderStep, Stage, Unstage, DiscardAll, Save, StageMove, Press,
                HandlerStep, Preview, Extract, Applied, MoveApplied
  <2> QED BY <2>1
<1>5. ASSUME NEW a \in Actors, Refresh(a) \/ CoreReads(a) \/ Timeout(a) PROVE FALSE
  BY <1>5 DEF Refresh, CoreReads, Timeout
<1>6. CASE ChangeSeen \/ WindowCloses \/ Drawn \/ UNCHANGED vars
  BY <1>6 DEF ChangeSeen, WindowCloses, Drawn, vars
<1> QED BY <1>1, <1>2, <1>3, <1>4, <1>5, <1>6 DEF Next

\* The same invariant for both: what waits, what is staged, and what the strip says.
LEMMA AlwaysLands ==
  ASSUME Patient, ~LostReads
  PROVE  Spec => [](ExclInv /\ LandInv /\ Counted)
<1>1. Init => ExclInv /\ LandInv /\ Counted
  <2>1. Init => Counted
    BY DEF Init, Counted
  <2> QED BY <2>1, InitExcludes, InitLands
<1>2. ExclInv /\ LandInv /\ Counted /\ [Next]_vars => (ExclInv /\ LandInv /\ Counted)'
  <2> SUFFICES ASSUME ExclInv, LandInv, Counted, [Next]_vars
               PROVE  ExclInv' /\ LandInv' /\ Counted'
    OBVIOUS
  <2> QED BY StepExcludes, StepLands, StepCounts DEF Counted
<1> QED BY <1>1, <1>2, PTL DEF Spec

\* Whatever is added to the file with it, a write changes the lines that were there
\* exactly as the strip said when Save was pressed.
LinesAsShown == [][LinesAsShownStep]_vars

\* Whatever a write adds to the file, it changes the lines of the keys the file starts
\* with exactly as the strip said when Save was pressed, whoever saved in between and
\* however late it lands: for a reader who waits for each answer, and a preview that is
\* always answered.
THEOREM LinesLandAsShown ==
  ASSUME Patient, ~LostReads
  PROVE  Spec => LinesAsShown
<1>1. ExclInv /\ LandInv /\ Counted /\ [Next]_vars => LinesAsShownStep
  BY StepAsShown DEF Counted
<1> QED BY <1>1, AlwaysLands, PTL DEF Spec, LinesAsShown

\* Where nothing is inserted those are all the lines there are, and what lands is, line
\* for line, the diff the reader pressed Save on.
THEOREM LandsAsShown ==
  ASSUME Patient, ~LostReads, NewKeys = {}
  PROVE  Spec => StripIsWhatLands
<1>1. ExclInv /\ LandInv /\ Counted /\ [Next]_vars
        => (disk' # disk /\ edits' = edits
              => \/ late # None /\ late' = None /\ Diff(disk, disk') = late.shown
                 \/ \E a \in Actors : Writes(a) /\ Pending(a) /\ Diff(disk, disk') = job[a].shown)
  <2> SUFFICES ASSUME ExclInv, LandInv, Counted, [Next]_vars, disk' # disk, edits' = edits
               PROVE  \/ late # None /\ late' = None /\ Diff(disk, disk') = late.shown
                      \/ \E a \in Actors : /\ Writes(a) /\ Pending(a)
                                           /\ Diff(disk, disk') = job[a].shown
    OBVIOUS
  <2>1. \A diff : Keyed(diff) => OfKeys(diff) = diff
    BY DEF Keyed, OfKeys
  <2>2. Keyed(Diff(disk, disk'))
    <3>1. disk \in Docs /\ disk' \in Docs
      BY StepLands DEF LandInv, Counted
    <3> QED BY <3>1, DiffKeyed
  <2>3. \/ late # None /\ late' = None /\ OfKeys(Diff(disk, disk')) = OfKeys(late.shown)
        \/ \E a \in Actors : /\ Writes(a) /\ Pending(a)
                             /\ OfKeys(Diff(disk, disk')) = OfKeys(job[a].shown)
    BY StepAsShown DEF LinesAsShownStep, Counted
  <2>4. late # None => Keyed(late.shown)
    BY DEF LandInv, LateOK, Good
  <2>5. \A a \in Actors : Writes(a) => Keyed(job[a].shown)
    BY WriteHeld DEF Good
  <2> QED BY <2>1, <2>2, <2>3, <2>4, <2>5
<1> QED BY <1>1, AlwaysLands, PTL DEF Spec, StripIsWhatLands

\* Induction from one number up to another.
LEMMA Climb ==
  ASSUME NEW m \in Nat, NEW i \in 0..m, NEW S, i \in S,
         \A j \in (i + 1)..m : j - 1 \in S => j \in S
  PROVE  m \in S
<1> DEFINE K == {q \in Nat : i + q <= m => i + q \in S}
<1>1. 0 \in K
  OBVIOUS
<1>2. ASSUME NEW q \in Nat, q \in K PROVE q + 1 \in K
  <2> SUFFICES ASSUME i + (q + 1) <= m PROVE i + (q + 1) \in S
    OBVIOUS
  <2>1. i + q \in S /\ i + (q + 1) \in (i + 1)..m /\ (i + (q + 1)) - 1 = i + q
    BY <1>2
  <2> QED BY <2>1
<1>3. m - i \in K
  <2> HIDE DEF K
  <2>1. m - i \in Nat
    OBVIOUS
  <2> QED BY <1>1, <1>2, <2>1, NatSet
<1>4. i + (m - i) = m
  OBVIOUS
<1> QED BY <1>3, <1>4
-----------------------------------------------------------------------------
(* Which keys a run changes.                                               *)

\* A run of n operations the pane can send, that has gone well up to the m-th.
WellRun(src, ops, n, st, m) ==
  /\ n \in Nat /\ m \in 0..n /\ \A i \in 1..n : IsOp(ops[i])
  /\ Trail(st, src, ops, n) /\ st[m].end = "ok"

\* It was well before that, and each of its turns was performed.
LEMMA WellWorks ==
  ASSUME NEW src, NEW ops, NEW n, NEW st, NEW m, WellRun(src, ops, n, st, m)
  PROVE  /\ n \in Nat /\ m \in 0..n /\ st[0].doc = src
         /\ \A i \in 0..m : st[i].doc \in Docs /\ WellRun(src, ops, n, st, i)
         /\ \A j \in 1..m : /\ j \in 0..m /\ j - 1 \in 0..m /\ IsOp(ops[j])
                            /\ TurnDoes(st[j - 1].doc, ops[j], st[j].doc)
<1>1. n \in Nat /\ m \in 0..n /\ Trail(st, src, ops, n) /\ st[m].end = "ok"
  BY DEF WellRun
<1>2. \A i \in 1..n : IsOp(ops[i])
  BY DEF WellRun
<1>3. st[0].doc = src
  BY <1>1 DEF Trail, Start
<1>4. /\ \A i \in 0..m : st[i].doc \in Docs
      /\ \A i \in 1..m : TurnDoes(st[i - 1].doc, ops[i], st[i].doc)
  BY <1>1, <1>2, TrailWorks
<1>5. \A i \in 0..m : st[i].end = "ok"
  BY <1>1, TrailTurns
<1>6. \A i \in 0..m : i \in 0..n
  BY <1>1
<1>7. \A i \in 0..m : WellRun(src, ops, n, st, i)
  BY <1>1, <1>2, <1>5, <1>6 DEF WellRun
<1>8. \A j \in 1..m : j \in 0..m /\ j - 1 \in 0..m /\ j \in 1..n
  BY <1>1
<1> QED BY <1>1, <1>2, <1>3, <1>4, <1>7, <1>8

\* A key no turn is about keeps its lines,
LEMMA Untouched ==
  ASSUME NEW src, NEW ops, NEW n, NEW st, NEW m, WellRun(src, ops, n, st, m),
         NEW i \in 0..m, NEW k, \A j \in 1..m : i < j => ops[j].key # k
  PROVE  LinesOf(st[m].doc, k) = LinesOf(st[i].doc, k)
<1>1. /\ n \in Nat /\ m \in 0..n
      /\ \A j \in 1..m : TurnDoes(st[j - 1].doc, ops[j], st[j].doc)
  BY WellWorks
<1> DEFINE S == {j \in 0..m : LinesOf(st[j].doc, k) = LinesOf(st[i].doc, k)}
<1>2. i \in S /\ m \in Nat
  BY <1>1
<1>3. ASSUME NEW j \in (i + 1)..m, j - 1 \in S PROVE j \in S
  <2>1. j \in 1..m /\ j \in 0..m /\ i < j /\ LinesOf(st[j - 1].doc, k) = LinesOf(st[i].doc, k)
    BY <1>1, <1>3
  <2>2. LinesOf(st[j].doc, k) = LinesOf(st[j - 1].doc, k)
    BY <1>1, <2>1 DEF TurnDoes
  <2> QED BY <2>1, <2>2
<1>4. m \in S
  <2> HIDE DEF S
  <2> QED BY <1>2, <1>3, Climb
<1> QED BY <1>4

\* and a line nobody takes out stays.
LEMMA Remains ==
  ASSUME NEW src, NEW ops, NEW n, NEW st, NEW m, WellRun(src, ops, n, st, m),
         NEW k \in Keys, \A j \in 1..m : ops[j].key = k => ops[j].kind # "delete_key",
         LinesOf(src, k) # <<>>
  PROVE  LinesOf(st[m].doc, k) # <<>>
<1>1. /\ n \in Nat /\ m \in 0..n /\ st[0].doc = src
      /\ \A j \in 1..m : IsOp(ops[j]) /\ TurnDoes(st[j - 1].doc, ops[j], st[j].doc)
  BY WellWorks
<1> DEFINE S == {j \in 0..m : LinesOf(st[j].doc, k) # <<>>}
<1>2. 0 \in S /\ 0 \in 0..m /\ m \in Nat
  BY <1>1
<1>3. ASSUME NEW j \in (0 + 1)..m, j - 1 \in S PROVE j \in S
  <2>1. j \in 1..m /\ j \in 0..m /\ LinesOf(st[j - 1].doc, k) # <<>>
    BY <1>1, <1>3
  <2>2. TurnDoes(st[j - 1].doc, ops[j], st[j].doc) /\ IsOp(ops[j])
    BY <1>1, <2>1
  <2>3. CASE ops[j].key # k
    <3>1. LinesOf(st[j].doc, k) = LinesOf(st[j - 1].doc, k)
      BY <2>2, <2>3 DEF TurnDoes
    <3> QED BY <2>1, <3>1
  <2>4. CASE ops[j].key = k
    <3>1. ops[j].kind = "replace_scalar"
      BY <2>1, <2>2, <2>4, StagingAssumption DEF IsOp, Kinds
    <3>2. LinesOf(st[j].doc, k) = <<Line(k, ops[j].text)>>
      BY <2>2, <2>4, <3>1 DEF TurnDoes, After
    <3> QED BY <2>1, <3>2
  <2> QED BY <2>3, <2>4
<1>4. m \in S
  <2> HIDE DEF S
  <2> QED BY <1>2, <1>3, Climb
<1> QED BY <1>4

\* Documents with the same lines of a key have as many.
LEMMA SameTimes ==
  ASSUME NEW d \in Docs, NEW e \in Docs, NEW k, LinesOf(d, k) = LinesOf(e, k)
  PROVE  Times(d, k) = Times(e, k)
<1>1. Times(d, k) \in Nat /\ Times(e, k) \in Nat
  BY AtFinite DEF Docs
<1>2. DOMAIN LinesOf(d, k) = 1..Times(d, k) /\ DOMAIN LinesOf(e, k) = 1..Times(e, k)
  BY LinesAre
<1>3. 1..Times(d, k) = 1..Times(e, k)
  BY <1>2
<1> DEFINE a == Times(d, k)
           b == Times(e, k)
<1> HIDE DEF a, b
<1>4. a \in Nat /\ b \in Nat /\ 1..a = 1..b
  BY <1>1, <1>3 DEF a, b
<1>5. a = b
  <2>1. a \in 1..a \/ a = 0
    BY <1>4
  <2>2. b \in 1..b \/ b = 0
    BY <1>4
  <2> QED BY <1>4, <2>1, <2>2
<1> QED BY <1>5 DEF a, b

\* The lines of a new key only become more.
LEMMA Grows ==
  ASSUME NEW src, NEW ops, NEW n, NEW st, NEW m, WellRun(src, ops, n, st, m),
         NEW i \in 0..m, NEW k \in NewKeys
  PROVE  Times(st[m].doc, k) >= Times(st[i].doc, k)
<1>1. /\ n \in Nat /\ m \in 0..n
      /\ \A j \in 0..m : st[j].doc \in Docs
      /\ \A j \in 1..m : IsOp(ops[j]) /\ TurnDoes(st[j - 1].doc, ops[j], st[j].doc)
  BY WellWorks
<1>2. \A j \in 0..m : Times(st[j].doc, k) \in Nat
  BY <1>1, AtFinite DEF Docs
<1> DEFINE S == {j \in 0..m : Times(st[j].doc, k) >= Times(st[i].doc, k)}
<1>3. i \in S /\ m \in Nat
  BY <1>1, <1>2
<1>4. ASSUME NEW j \in (i + 1)..m, j - 1 \in S PROVE j \in S
  <2>1. j \in 1..m /\ j \in 0..m /\ j - 1 \in 0..m
    BY <1>1
  <2>2. TurnDoes(st[j - 1].doc, ops[j], st[j].doc) /\ IsOp(ops[j])
    BY <1>1, <2>1
  <2>3. Times(st[j].doc, k) >= Times(st[j - 1].doc, k)
    <3>1. CASE ops[j].key # k
      <4>1. LinesOf(st[j].doc, k) = LinesOf(st[j - 1].doc, k)
        BY <2>2, <3>1 DEF TurnDoes
      <4>2. Times(st[j].doc, k) = Times(st[j - 1].doc, k)
        BY <1>1, <2>1, <4>1, SameTimes
      <4> QED BY <1>2, <2>1, <4>2
    <3>2. CASE ops[j].key = k
      <4>1. ops[j].kind = "insert_sequence_entry"
        BY <2>2, <3>2, StagingAssumption DEF IsOp, Kinds
      <4>2. Times(st[j].doc, k) = Times(st[j - 1].doc, k) + 1
        BY <2>2, <3>2, <4>1 DEF TurnDoes
      <4> QED BY <1>2, <2>1, <4>2
    <3> QED BY <3>1, <3>2
  <2>4. Times(st[j - 1].doc, k) >= Times(st[i].doc, k)
    BY <1>4
  <2> QED BY <1>2, <2>1, <2>3, <2>4
<1>5. m \in S
  <2> HIDE DEF S
  <2> QED BY <1>3, <1>4, Climb
<1> QED BY <1>5

\* An operation that makes a difference to its key: every one, but for a value
\* that is what is written already.
Alters(op) == op.kind = "replace_scalar" => op.text # op.expect.text
Altering(ops, n) == {ops[i].key : i \in {j \in 1..n : Alters(ops[j])}}

\* A list as the pane stages it: one of each kind for a line, and no value for a
\* line after that line was taken out.
NoTwice(ops, n) == \A i, j \in 1..n : /\ i # j /\ ops[i].kind = ops[j].kind
                                      /\ ops[i].kind # "insert_sequence_entry"
                     => ops[i].key # ops[j].key
InOrder(ops, n) == \A i, j \in 1..n : /\ ops[i].kind = "delete_key" /\ ops[j].kind = "replace_scalar"
                                      /\ ops[i].key = ops[j].key
                     => j < i

\* What is there of a key at the end was there all along.
LEMMA AllAlong ==
  ASSUME NEW src, NEW ops, NEW n, NEW st, NEW m, WellRun(src, ops, n, st, m),
         NEW i \in 0..m, NEW k \in Keys, LinesOf(st[m].doc, k) # <<>>
  PROVE  LinesOf(st[i].doc, k) # <<>>
<1>1. n \in Nat /\ m \in 0..n /\ Trail(st, src, ops, n) /\ st[m].end = "ok"
  BY DEF WellRun
<1>2. \A j \in 1..n : IsOp(ops[j])
  BY DEF WellRun
<1>3. Within(st[m].doc, st[i].doc)
  BY <1>1, <1>2, RunWithin
<1> QED BY <1>3 DEF Within

\* The keys a run of such a list changes are those of the operations that alter: of a
\* new key,
LEMMA NewRunKeys ==
  ASSUME NEW src, NEW ops, NEW n, NEW st, WellRun(src, ops, n, st, n), NEW k \in NewKeys
  PROVE  LinesOf(st[n].doc, k) # LinesOf(src, k) <=> k \in Altering(ops, n)
<1>1. /\ n \in Nat /\ n \in 0..n /\ st[0].doc = src
      /\ \A i \in 0..n : st[i].doc \in Docs /\ WellRun(src, ops, n, st, i)
      /\ \A j \in 1..n : /\ j \in 0..n /\ j - 1 \in 0..n /\ IsOp(ops[j])
                         /\ TurnDoes(st[j - 1].doc, ops[j], st[j].doc)
  BY WellWorks
<1>2. 0 \in 0..n
  BY <1>1
<1>3. \A i \in 1..n : ops[i].key = k => ops[i].kind = "insert_sequence_entry" /\ Alters(ops[i])
  BY <1>1, StagingAssumption DEF IsOp, Kinds, Alters
<1>4. CASE \A i \in 1..n : ops[i].key # k
  <2>1. LinesOf(st[n].doc, k) = LinesOf(st[0].doc, k)
    BY <1>2, <1>4, Untouched
  <2>2. k \notin Altering(ops, n)
    BY <1>4 DEF Altering
  <2> QED BY <1>1, <2>1, <2>2
<1>5. ASSUME NEW i \in 1..n, ops[i].key = k
      PROVE  LinesOf(st[n].doc, k) # LinesOf(src, k) /\ k \in Altering(ops, n)
  <2>1. k \in Altering(ops, n)
    BY <1>3, <1>5 DEF Altering
  <2>2. /\ i \in 0..n /\ i - 1 \in 0..n /\ 0 \in 0..(i - 1) /\ WellRun(src, ops, n, st, i - 1)
        /\ TurnDoes(st[i - 1].doc, ops[i], st[i].doc)
    BY <1>1
  <2>3. Times(st[i].doc, k) = Times(st[i - 1].doc, k) + 1
    BY <1>3, <1>5, <2>2 DEF TurnDoes
  <2>4. Times(st[n].doc, k) >= Times(st[i].doc, k)
    BY <2>2, Grows
  <2>5. Times(st[i - 1].doc, k) >= Times(src, k)
    BY <1>1, <2>2, Grows
  <2>6. /\ Times(st[n].doc, k) \in Nat /\ Times(st[i].doc, k) \in Nat
        /\ Times(st[i - 1].doc, k) \in Nat /\ Times(src, k) \in Nat
    <3>1. \A d \in Docs : Times(d, k) \in Nat
      BY AtFinite DEF Docs
    <3> QED BY <1>1, <1>2, <2>2, <3>1
  <2>7. Times(st[n].doc, k) # Times(src, k)
    BY <2>3, <2>4, <2>5, <2>6
  <2>8. st[n].doc \in Docs /\ src \in Docs
    BY <1>1, <1>2
  <2> QED BY <2>1, <2>7, <2>8, SameTimes
<1> QED BY <1>4, <1>5

\* and of a key the file started with.
LEMMA OldRunKeys ==
  ASSUME NEW src, NEW ops, NEW n, NEW st, WellRun(src, ops, n, st, n),
         \A i \in 1..n : HeldOp(ops[i]), NoTwice(ops, n), NEW k \in Keys
  PROVE  LinesOf(st[n].doc, k) # LinesOf(src, k) <=> k \in Altering(ops, n)
<1>1. /\ n \in Nat /\ n \in 0..n /\ st[0].doc = src
      /\ \A i \in 0..n : st[i].doc \in Docs /\ WellRun(src, ops, n, st, i)
      /\ \A j \in 1..n : /\ j \in 0..n /\ j - 1 \in 0..n /\ IsOp(ops[j])
                         /\ TurnDoes(st[j - 1].doc, ops[j], st[j].doc)
  BY WellWorks
<1>2. 0 \in 0..n
  BY <1>1
<1>3. \A i \in 1..n : ops[i].key = k => ops[i].kind \in {"replace_scalar", "delete_key"}
  BY <1>1, StagingAssumption DEF IsOp, Kinds
<1>5. ASSUME NEW i \in 1..n
      PROVE  /\ i \in 0..n /\ i - 1 \in 0..n /\ 0 \in 0..(i - 1)
             /\ WellRun(src, ops, n, st, i - 1)
             /\ TurnDoes(st[i - 1].doc, ops[i], st[i].doc)
  BY <1>1
<1>6. CASE \A i \in 1..n : ops[i].key # k
  <2>1. LinesOf(st[n].doc, k) = LinesOf(st[0].doc, k)
    BY <1>2, <1>6, Untouched
  <2>2. k \notin Altering(ops, n)
    BY <1>6 DEF Altering
  <2> QED BY <1>1, <2>1, <2>2
<1>7. ASSUME NEW i \in 1..n, ops[i].key = k, ops[i].kind = "delete_key"
      PROVE  LinesOf(st[n].doc, k) # LinesOf(src, k) /\ k \in Altering(ops, n)
  <2>1. k \in Altering(ops, n)
    BY <1>7 DEF Altering, Alters
  <2>2. LinesOf(st[i - 1].doc, k) # <<>> /\ LinesOf(st[i].doc, k) = <<>>
    BY <1>5, <1>7 DEF TurnDoes, After
  <2>3. LinesOf(src, k) # <<>>
    BY <1>1, <1>5, <2>2, AllAlong
  <2>4. LinesOf(st[n].doc, k) = <<>>
    BY <1>5, <2>2, AllAlong
  <2> QED BY <2>1, <2>3, <2>4
<1>8. ASSUME NEW i \in 1..n, ops[i].key = k, ops[i].kind = "replace_scalar",
             \A j \in 1..n : ops[j].key = k => ops[j].kind # "delete_key"
      PROVE  LinesOf(st[n].doc, k) # LinesOf(src, k) <=> k \in Altering(ops, n)
  <2>1. \A j \in 1..n : j # i => ops[j].key # k
    BY <1>3, <1>8 DEF NoTwice
  <2>2. k \in Altering(ops, n) <=> ops[i].text # ops[i].expect.text
    BY <1>8, <2>1 DEF Altering, Alters
  <2>3. /\ LinesOf(st[i - 1].doc, k) = <<Line(k, ops[i].expect.text)>>
        /\ LinesOf(st[i].doc, k) = <<Line(k, ops[i].text)>>
    BY <1>5, <1>8 DEF TurnDoes, After
  <2>4. LinesOf(st[n].doc, k) = LinesOf(st[i].doc, k)
    <3>1. \A j \in 1..n : i < j => ops[j].key # k
      BY <2>1
    <3> QED BY <1>5, <3>1, Untouched
  <2>5. LinesOf(st[i - 1].doc, k) = LinesOf(src, k)
    <3>1. \A j \in 1..(i - 1) : 0 < j => ops[j].key # k
      BY <1>1, <2>1
    <3>2. LinesOf(st[i - 1].doc, k) = LinesOf(st[0].doc, k)
      BY <1>5, <3>1, Untouched
    <3> QED BY <1>1, <3>2
  <2>6. <<Line(k, ops[i].text)>> = <<Line(k, ops[i].expect.text)>> <=> ops[i].text = ops[i].expect.text
    BY DEF Line
  <2> QED BY <2>2, <2>3, <2>4, <2>5, <2>6
<1> QED BY <1>3, <1>6, <1>7, <1>8

\* The keys of a diff.
LEMMA DiffKeys ==
  ASSUME NEW x \in Docs, NEW y \in Docs
  PROVE  {d[1] : d \in Diff(x, y)} = {k \in Keys \cup NewKeys : LinesOf(x, k) # LinesOf(y, k)}
<1> DEFINE all == {l.key : l \in ToSet(x) \cup ToSet(y)}
           changed == {k \in all : LinesOf(x, k) # LinesOf(y, k)}
<1>1. Diff(x, y) = {<<k, LinesOf(x, k), LinesOf(y, k)>> : k \in changed}
  BY DEF Diff
<1>a. x \in Seq(Lines) /\ y \in Seq(Lines) /\ DOMAIN x = 1..Len(x) /\ DOMAIN y = 1..Len(y)
  BY DEF Docs
<1>2. ASSUME NEW k, LinesOf(x, k) # LinesOf(y, k) PROVE k \in all
  <2>1. (\A i \in 1..Len(x) : x[i].key # k) => LinesOf(x, k) = <<>>
    BY <1>a, NoLine
  <2>2. (\A i \in 1..Len(y) : y[i].key # k) => LinesOf(y, k) = <<>>
    BY <1>a, NoLine
  <2>3. (\E i \in 1..Len(x) : x[i].key = k) \/ (\E i \in 1..Len(y) : y[i].key = k)
    BY <1>2, <2>1, <2>2
  <2> QED BY <1>a, <2>3 DEF ToSet
<1>3. all \subseteq Keys \cup NewKeys
  <2>1. ToSet(x) \cup ToSet(y) \subseteq Lines
    BY <1>a DEF ToSet
  <2> QED BY <2>1 DEF Lines
<1> HIDE DEF all
<1>4. changed = {k \in Keys \cup NewKeys : LinesOf(x, k) # LinesOf(y, k)}
  BY <1>2, <1>3
<1> HIDE DEF changed
<1>5. {d[1] : d \in Diff(x, y)} = changed
  <2>1. \A d \in Diff(x, y) : d[1] \in changed
    BY <1>1
  <2>2. ASSUME NEW k \in changed PROVE k \in {d[1] : d \in Diff(x, y)}
    <3>1. <<k, LinesOf(x, k), LinesOf(y, k)>> \in Diff(x, y)
      BY <1>1
    <3>2. <<k, LinesOf(x, k), LinesOf(y, k)>>[1] = k
      OBVIOUS
    <3> QED BY <3>1, <3>2
  <2> QED BY <2>1, <2>2
<1> QED BY <1>4, <1>5

\* What an answer to a preview of a staged list shows, and when there is none.
LEMMA RunShows ==
  ASSUME NEW x \in Docs, NEW ops, NEW n \in Nat, DOMAIN ops = 1..n,
         EachHeld(ops, n), NoTwice(ops, n), InOrder(ops, n),
         \A i \in 1..n : ops[i].kind # "insert_sequence_entry" => LinesOf(x, ops[i].key) # <<>>
  PROVE  /\ Run(x, ops).end = "ok" => {d[1] : d \in Diff(x, Run(x, ops).doc)} = Altering(ops, n)
         /\ Run(x, ops).end = "refused" => Altering(ops, n) = {}
<1>1. \A i \in 1..n : IsOp(ops[i])
  BY DEF EachHeld
<1>a. \A i \in 1..n : HeldOp(ops[i])
  BY DEF EachHeld
<1>2. PICK st : /\ Trail(st, x, ops, n)
                /\ Run(x, ops).end = "ok" =>
                     st[n].end = "ok" /\ st[n].doc # x /\ Run(x, ops) = st[n]
                /\ Run(x, ops).end = "refused" =>
                     (st[n].end = "ok" /\ st[n].doc = x) \/ st[n].end = "refused"
                /\ Run(x, ops).end \in {"ok", "stale", "refused"}
                /\ Run(x, ops) = [st[n] EXCEPT !.end = Run(x, ops).end]
  BY <1>1, RunEnds
<1>3. Altering(ops, n) \subseteq Keys \cup NewKeys
  BY <1>1 DEF Altering, IsOp, Kinds
<1>4. ASSUME st[n].end = "ok"
      PROVE  {k \in Keys \cup NewKeys : LinesOf(x, k) # LinesOf(st[n].doc, k)} = Altering(ops, n)
  <2>1. WellRun(x, ops, n, st, n)
    BY <1>1, <1>2, <1>4 DEF WellRun
  <2>2. ASSUME NEW k \in NewKeys
        PROVE  LinesOf(st[n].doc, k) # LinesOf(x, k) <=> k \in Altering(ops, n)
    BY <2>1, NewRunKeys
  <2>3. ASSUME NEW k \in Keys
        PROVE  LinesOf(st[n].doc, k) # LinesOf(x, k) <=> k \in Altering(ops, n)
    BY <1>a, <2>1, OldRunKeys
  <2> QED BY <1>3, <2>2, <2>3
<1>5. ASSUME Run(x, ops).end = "ok"
      PROVE  {d[1] : d \in Diff(x, Run(x, ops).doc)} = Altering(ops, n)
  <2>1. st[n].end = "ok" /\ Run(x, ops).doc = st[n].doc
    BY <1>2, <1>5
  <2>2. st[n].doc \in Docs
    BY <1>2 DEF Trail, Sofars
  <2> QED BY <1>4, <2>1, <2>2, DiffKeys
<1>6. ASSUME st[n].end = "refused" PROVE FALSE
  <2>1. PICK i \in 1..n : /\ st[i - 1].end = "ok" /\ ops[i].kind # "insert_sequence_entry"
                          /\ ops[i].key \in Keys /\ LinesOf(st[i - 1].doc, ops[i].key) = <<>>
    BY <1>1, <1>2, <1>6, RefusedAt
  <2>2. LinesOf(x, ops[i].key) # <<>> /\ WellRun(x, ops, n, st, i - 1)
    <3>1. i - 1 \in 0..n
      OBVIOUS
    <3> QED BY <1>1, <1>2, <2>1, <3>1 DEF WellRun
  <2>3. \A j \in 1..(i - 1) : ops[j].key = ops[i].key => ops[j].kind # "delete_key"
    <3> SUFFICES ASSUME NEW j \in 1..(i - 1), ops[j].key = ops[i].key, ops[j].kind = "delete_key"
                 PROVE  FALSE
      OBVIOUS
    <3>1. j \in 1..n /\ j # i /\ ~(i < j)
      OBVIOUS
    <3>2. ops[i].kind \in {"replace_scalar", "delete_key"}
      BY <1>1, <2>1 DEF IsOp, Kinds
    <3> QED BY <3>1, <3>2 DEF NoTwice, InOrder
  <2> QED BY <2>1, <2>2, <2>3, Remains
<1>7. ASSUME Run(x, ops).end = "refused" PROVE Altering(ops, n) = {}
  <2>1. st[n].end = "ok" /\ st[n].doc = x
    BY <1>2, <1>6, <1>7
  <2> QED BY <1>4, <2>1
<1> QED BY <1>5, <1>7

\* A list that was run once is in order, and has its lines there.
LEMMA RanInOrder ==
  ASSUME NEW x \in Docs, NEW ops, NEW n \in Nat, DOMAIN ops = 1..n,
         \A i \in 1..n : IsOp(ops[i]), Run(x, ops).end = "ok"
  PROVE  /\ InOrder(ops, n)
         /\ \A i \in 1..n : ops[i].kind # "insert_sequence_entry" => LinesOf(x, ops[i].key) # <<>>
<1>1. PICK st : Trail(st, x, ops, n) /\ st[n].end = "ok"
  BY RunEnds
<1>2. WellRun(x, ops, n, st, n)
  BY <1>1 DEF WellRun
<1>3. st[0].doc = x /\ \A i \in 0..n : WellRun(x, ops, n, st, i)
  BY <1>2, WellWorks
<1>4. ASSUME NEW i \in 1..n
      PROVE  /\ i \in 0..n /\ i - 1 \in 0..n /\ 0 \in 0..(i - 1)
             /\ WellRun(x, ops, n, st, i - 1) /\ IsOp(ops[i])
             /\ TurnDoes(st[i - 1].doc, ops[i], st[i].doc)
  <2>1. \A j \in 1..n : j - 1 \in 0..n /\ TurnDoes(st[j - 1].doc, ops[j], st[j].doc)
    BY <1>2, WellWorks
  <2>2. i \in 0..n /\ i - 1 \in 0..n /\ 0 \in 0..(i - 1)
    OBVIOUS
  <2> QED BY <1>3, <2>1, <2>2
<1>5. ASSUME NEW i \in 1..n, ops[i].kind # "insert_sequence_entry" PROVE LinesOf(x, ops[i].key) # <<>>
  <2>1. LinesOf(st[i - 1].doc, ops[i].key) # <<>>
    BY <1>4, <1>5 DEF TurnDoes
  <2>2. ops[i].key \in Keys
    BY <1>5 DEF IsOp, Kinds
  <2> QED BY <1>3, <1>4, <2>1, <2>2, AllAlong
<1>6. ASSUME NEW i \in 1..n, NEW j \in 1..n, ops[i].kind = "delete_key",
             ops[j].kind = "replace_scalar", ops[i].key = ops[j].key
      PROVE  j < i
  <2> SUFFICES ASSUME ~(j < i) PROVE FALSE
    OBVIOUS
  <2>1. i # j
    BY <1>6
  <2>2. i \in 0..(j - 1)
    BY <2>1
  <2>3. LinesOf(st[i].doc, ops[i].key) = <<>>
    BY <1>4, <1>6 DEF TurnDoes, After
  <2>4. LinesOf(st[j - 1].doc, ops[i].key) # <<>>
    BY <1>4, <1>6 DEF TurnDoes
  <2>5. ops[i].key \in Keys /\ WellRun(x, ops, n, st, j - 1)
    BY <1>4, <1>6 DEF IsOp, Kinds
  <2> QED BY <2>2, <2>3, <2>4, <2>5, AllAlong
<1> QED BY <1>5, <1>6 DEF InOrder
-----------------------------------------------------------------------------
(* The lists the pane keeps: one entry to a staging key, in an order that can *)
(* be run.                                                                   *)

\* Every entry under its own staging key, and no two under one.
Tidy(s) == /\ \A i \in 1..Len(s) : s[i].key = StagingKey(s[i].op)
           /\ \A i, j \in 1..Len(s) : i # j => s[i].key # s[j].key

\* A value staged for a line comes before the removal of that line.
InTurn(s) == InOrder(Ops(s), Len(s))

\* Every line an entry is about is in the file.
There(s, d) == \A i \in 1..Len(s) :
                 s[i].op.kind # "insert_sequence_entry" => LinesOf(d, s[i].op.key) # <<>>

\* t begins with the entries of s, key for key.
Leads(s, t) == Len(s) <= Len(t) /\ \A i \in 1..Len(s) : s[i].key = t[i].key

\* The keys whose lines the entries of a list change.
Altered(s) == {e.op.key : e \in {x \in ToSet(s) : Alters(x.op)}}

\* The same list, ranges aside.
Alike(s, t) ==
  /\ Len(t) = Len(s)
  /\ \A i \in 1..Len(s) : /\ t[i].key = s[i].key /\ t[i].op.kind = s[i].op.kind
                          /\ t[i].op.key = s[i].op.key /\ t[i].op.text = s[i].op.text

\* A list that is alike is as tidy,
LEMMA AlikeTidy ==
  ASSUME NEW s, NEW t, s \in Seq(ToSet(s)), t \in Seq(ToSet(t)), Alike(s, t)
  PROVE  /\ Tidy(s) => Tidy(t)
         /\ InTurn(s) => InTurn(t)
         /\ \A d : There(s, d) => There(t, d)
<1>1. /\ Len(s) \in Nat /\ Len(t) = Len(s)
      /\ \A i \in 1..Len(s) : Ops(s)[i] = s[i].op
      /\ \A i \in 1..Len(s) : Ops(t)[i] = t[i].op
  BY ListDomain DEF Alike
<1>2. \A i \in 1..Len(s) : StagingKey(t[i].op) = StagingKey(s[i].op)
  BY DEF Alike, StagingKey
<1>3. Tidy(s) => Tidy(t)
  BY <1>1, <1>2 DEF Alike, Tidy
<1>4. InTurn(s) => InTurn(t)
  BY <1>1 DEF Alike, InTurn, InOrder
<1>5. \A d : There(s, d) => There(t, d)
  BY <1>1 DEF Alike, There
<1> QED BY <1>3, <1>4, <1>5

\* and recording ranges is that.
LEMMA RecordAlike ==
  ASSUME NEW s, AskList(s), NEW reply
  PROVE  Alike(s, Record(s, reply))
<1> DEFINE t == Record(s, reply)
<1>1. Len(s) \in Nat /\ DOMAIN s = 1..Len(s) /\ \A i \in 1..Len(s) : s[i] \in ToSet(s)
  BY ListDomain DEF AskList
<1>2. t = [i \in 1..Len(s) |-> [s[i] EXCEPT !.op.expect = reply.ranges[i]]]
  BY <1>1 DEF Record
<1>3. Len(t) = Len(s)
  BY <1>1, <1>2
<1>4. ASSUME NEW i \in 1..Len(s)
      PROVE  /\ t[i].key = s[i].key /\ t[i].op.kind = s[i].op.kind
             /\ t[i].op.key = s[i].op.key /\ t[i].op.text = s[i].op.text
  <2> DEFINE u == s[i]
             p == u.op
             r == reply.ranges[i]
  <2>1. t[i] = [u EXCEPT !.op.expect = r]
    BY <1>2
  <2>2. IsEntry(u) /\ IsRequest(p)
    BY <1>1 DEF AskList, Asked
  <2> HIDE DEF t, u, r
  <2>3. t[i] = [key |-> u.key, op |-> [p EXCEPT !.expect = r]]
    BY <2>1, <2>2 DEF IsEntry
  <2> HIDE DEF p
  <2>4. [p EXCEPT !.expect = r] = [kind |-> p.kind, key |-> p.key, text |-> p.text, expect |-> r]
    BY <2>2 DEF IsRequest
  <2> QED BY <2>3, <2>4 DEF u, p
<1> QED BY <1>3, <1>4 DEF Alike

\* Staging.set, place for place.
LEMMA SetIs ==
  ASSUME NEW E, NEW s \in Seq(E), NEW e
  PROVE  \/ Set(s, e) = Append(s, e) /\ \A i \in 1..Len(s) : s[i].key # e.key
         \/ \E n \in 1..Len(s) : s[n].key = e.key /\ Set(s, e) = [s EXCEPT ![n] = e]
<1> DEFINE Has(x) == x.key = e.key
           I == {i \in 1..Len(s) : Has(s[i])}
           n == SelectInSeq(s, LAMBDA x : x.key = e.key)
<1>1. n = IF I # {} THEN Min(I) ELSE 0
  BY DEF SelectInSeq
<1>2. DOMAIN s = 1..Len(s) /\ Len(s) \in Nat
  OBVIOUS
<1>3. CASE I = {}
  <2>1. Set(s, e) = Append(s, e)
    BY <1>1, <1>3 DEF Set
  <2> QED BY <1>3, <2>1
<1>4. CASE I # {}
  <2>1. Min(I) \in I
    <3>1. I \subseteq Nat
      BY <1>2
    <3> HIDE DEF I
    <3> QED BY <3>1, <1>4, MinIsLeast
  <2>2. n \in 1..Len(s) /\ s[n].key = e.key
    BY <1>1, <1>4, <2>1
  <2>3. Set(s, e) = [s EXCEPT ![n] = e]
    BY <2>2 DEF Set
  <2> QED BY <2>2, <2>3
<1> QED BY <1>3, <1>4

\* What is set goes in its place or last.
LEMMA SetTidy ==
  ASSUME NEW s, s \in Seq(ToSet(s)), Tidy(s), NEW e, e.key = StagingKey(e.op)
  PROVE  LET t == Set(s, e) IN Tidy(t) /\ Leads(s, t)
<1> DEFINE t == Set(s, e)
<1>1. Len(s) \in Nat /\ DOMAIN s = 1..Len(s)
  BY ListDomain
<1>2. CASE t = Append(s, e) /\ \A i \in 1..Len(s) : s[i].key # e.key
  <2> HIDE DEF t
  <2>1. Len(t) = Len(s) + 1 /\ \A i \in 1..(Len(s) + 1) : t[i] = IF i = Len(s) + 1 THEN e ELSE s[i]
    BY <1>1, <1>2
  <2>2. Tidy(t)
    BY <1>1, <1>2, <2>1 DEF Tidy
  <2>3. Leads(s, t)
    BY <1>1, <2>1 DEF Leads
  <2> QED BY <2>2, <2>3 DEF t
<1>3. ASSUME NEW n \in 1..Len(s), s[n].key = e.key, t = [s EXCEPT ![n] = e]
      PROVE  Tidy(t) /\ Leads(s, t)
  <2> HIDE DEF t
  <2>1. Len(t) = Len(s) /\ \A i \in 1..Len(s) : t[i] = IF i = n THEN e ELSE s[i]
    BY <1>1, <1>3
  <2>2. Tidy(t)
    BY <1>1, <1>3, <2>1 DEF Tidy
  <2>3. Leads(s, t)
    BY <1>1, <1>3, <2>1 DEF Leads
  <2> QED BY <2>2, <2>3
<1> QED BY <1>2, <1>3, SetIs

\* Taking one out leaves the rest tidy, in turn and there.
LEMMA WithoutTidy ==
  ASSUME NEW s, s \in Seq(ToSet(s)), Tidy(s), InTurn(s), NEW k
  PROVE  LET t == Without(s, k)
         IN  /\ Tidy(t) /\ InTurn(t)
             /\ \A d : There(s, d) => There(t, d)
<1> DEFINE t == Without(s, k)
<1>1. Len(s) \in Nat /\ DOMAIN s = 1..Len(s) /\ \A i \in 1..Len(s) : Ops(s)[i] = s[i].op
  BY ListDomain
<1>2. CASE t = s
  BY <1>2
<1>3. ASSUME NEW n \in 1..Len(s), t = RemoveAt(s, n)
      PROVE  Tidy(t) /\ InTurn(t) /\ \A d : There(s, d) => There(t, d)
  <2> HIDE DEF t
  <2>1. /\ t \in Seq(ToSet(s)) /\ Len(t) = Len(s) - 1
        /\ \A i \in 1..(n - 1) : t[i] = s[i]
        /\ \A i \in n..(Len(s) - 1) : t[i] = s[i + 1]
    BY <1>3, RemoveAtIs
  <2> DEFINE m == Len(s) - 1
             From(i) == IF i < n THEN i ELSE i + 1
  <2>2. m \in Nat /\ Len(t) = m /\ DOMAIN t = 1..m
    BY <1>1, <2>1
  <2>3. \A i \in 1..m : From(i) \in 1..Len(s) /\ t[i] = s[From(i)]
    BY <1>1, <2>1
  <2>4. \A i, j \in 1..m : /\ From(i) < From(j) <=> i < j
                           /\ From(i) # From(j) <=> i # j
    BY <1>1
  <2>5. \A i \in 1..m : Ops(t)[i] = s[From(i)].op
    BY <2>2, <2>3 DEF Ops
  <2> HIDE DEF m, From
  <2>6. Tidy(t)
    BY <2>2, <2>3, <2>4 DEF Tidy
  <2>7. InTurn(t)
    <3> SUFFICES ASSUME NEW i \in 1..m, NEW j \in 1..m, Ops(t)[i].kind = "delete_key",
                        Ops(t)[j].kind = "replace_scalar", Ops(t)[i].key = Ops(t)[j].key
                 PROVE  j < i
      BY <2>2 DEF InTurn, InOrder
    <3>1. From(i) \in 1..Len(s) /\ From(j) \in 1..Len(s)
      BY <2>3
    <3>2. /\ Ops(s)[From(i)].kind = "delete_key" /\ Ops(s)[From(j)].kind = "replace_scalar"
          /\ Ops(s)[From(i)].key = Ops(s)[From(j)].key
      BY <1>1, <2>5, <3>1
    <3>3. From(j) < From(i)
      BY <3>1, <3>2 DEF InTurn, InOrder
    <3> QED BY <2>4, <3>3
  <2>8. \A d : There(s, d) => There(t, d)
    BY <2>2, <2>3 DEF There
  <2> QED BY <2>6, <2>7, <2>8
<1>4. t = s \/ \E n \in 1..Len(s) : t = RemoveAt(s, n)
  BY WithoutIs
<1> QED BY <1>2, <1>3, <1>4

\* A tidy list has no kind of edit of a line twice.
LEMMA TidyOnce ==
  ASSUME NEW s, s \in Seq(ToSet(s)), \A e \in ToSet(s) : IsOp(e.op), Tidy(s)
  PROVE  NoTwice(Ops(s), Len(s))
<1>1. /\ Len(s) \in Nat
      /\ \A i \in 1..Len(s) : s[i] \in ToSet(s) /\ Ops(s)[i] = s[i].op
  BY ListDomain
<1> SUFFICES ASSUME NEW i \in 1..Len(s), NEW j \in 1..Len(s), i # j,
                    s[i].op.kind = s[j].op.kind, s[i].op.kind # "insert_sequence_entry",
                    s[i].op.key = s[j].op.key
             PROVE  FALSE
  BY <1>1 DEF NoTwice
<1>2. s[i].op.kind \in {"replace_scalar", "delete_key"}
  BY <1>1 DEF IsOp, Kinds
<1>3. StagingKey(s[i].op) = StagingKey(s[j].op)
  BY <1>2 DEF StagingKey
<1> QED BY <1>3 DEF Tidy

\* The keys a list alters, entry by entry or operation by operation.
LEMMA AlteredIs ==
  ASSUME NEW s, s \in Seq(ToSet(s))
  PROVE  Altered(s) = Altering(Ops(s), Len(s))
<1>1. /\ Len(s) \in Nat /\ DOMAIN s = 1..Len(s)
      /\ \A i \in 1..Len(s) : s[i] \in ToSet(s) /\ Ops(s)[i] = s[i].op
  BY ListDomain
<1>2. \A e \in ToSet(s) : \E i \in 1..Len(s) : e = s[i]
  BY <1>1 DEF ToSet
<1>3. ASSUME NEW k \in Altered(s) PROVE k \in Altering(Ops(s), Len(s))
  <2>1. PICK e \in ToSet(s) : Alters(e.op) /\ k = e.op.key
    BY DEF Altered
  <2>2. PICK i \in 1..Len(s) : e = s[i]
    BY <1>2
  <2>3. i \in {j \in 1..Len(s) : Alters(Ops(s)[j])} /\ Ops(s)[i].key = k
    BY <1>1, <2>1, <2>2
  <2> QED BY <2>3 DEF Altering
<1>4. ASSUME NEW k \in Altering(Ops(s), Len(s)) PROVE k \in Altered(s)
  <2>1. PICK i \in 1..Len(s) : Alters(Ops(s)[i]) /\ k = Ops(s)[i].key
    BY DEF Altering
  <2>2. s[i] \in ToSet(s) /\ Alters(s[i].op) /\ k = s[i].op.key
    BY <1>1, <2>1
  <2> QED BY <2>2 DEF Altered
<1> QED BY <1>3, <1>4

\* What a preview of a list shows: the keys it alters, or nothing to alter.
LEMMA ListShows ==
  ASSUME NEW s, HeldList(s), Tidy(s), InTurn(s), NEW x \in Docs, There(s, x)
  PROVE  /\ Run(x, Ops(s)).end = "ok" => {d[1] : d \in Diff(x, Run(x, Ops(s)).doc)} = Altered(s)
         /\ Run(x, Ops(s)).end = "refused" => Altered(s) = {}
<1> DEFINE n == Len(s)
           ops == Ops(s)
<1>1. /\ n \in Nat /\ DOMAIN ops = 1..n
      /\ \A i \in 1..n : s[i] \in ToSet(s) /\ ops[i] = s[i].op
  BY ListDomain DEF HeldList
<1>2. \A e \in ToSet(s) : IsOp(e.op) /\ HeldOp(e.op)
  BY DEF HeldList, HeldEntry, Asked
<1>3. EachHeld(ops, n)
  BY <1>1, <1>2 DEF EachHeld
<1>4. NoTwice(ops, n)
  BY <1>2, TidyOnce DEF HeldList
<1>5. InOrder(ops, n)
  BY DEF InTurn
<1>6. \A i \in 1..n : ops[i].kind # "insert_sequence_entry" => LinesOf(x, ops[i].key) # <<>>
  BY <1>1 DEF There
<1>7. Altered(s) = Altering(ops, n)
  BY AlteredIs DEF HeldList
<1> HIDE DEF n, ops
<1>8. /\ Run(x, ops).end = "ok" => {d[1] : d \in Diff(x, Run(x, ops).doc)} = Altering(ops, n)
      /\ Run(x, ops).end = "refused" => Altering(ops, n) = {}
  BY <1>1, <1>3, <1>4, <1>5, <1>6, RunShows
<1> QED BY <1>7, <1>8 DEF ops

\* What was previewed is in turn, and there.
LEMMA ListRan ==
  ASSUME NEW s, AskList(s), NEW x \in Docs, Run(x, Ops(s)).end = "ok"
  PROVE  InTurn(s) /\ There(s, x)
<1> DEFINE n == Len(s)
           ops == Ops(s)
<1>1. /\ n \in Nat /\ DOMAIN ops = 1..n
      /\ \A i \in 1..n : s[i] \in ToSet(s) /\ ops[i] = s[i].op
  BY ListDomain DEF AskList
<1>2. \A i \in 1..n : IsOp(ops[i])
  BY <1>1 DEF AskList, Asked
<1> HIDE DEF n, ops
<1>3. /\ InOrder(ops, n)
      /\ \A i \in 1..n : ops[i].kind # "insert_sequence_entry" => LinesOf(x, ops[i].key) # <<>>
  <2>1. Run(x, ops).end = "ok"
    BY DEF ops
  <2> QED BY <1>1, <1>2, <2>1, RanInOrder
<1>4. InTurn(s)
  BY <1>3 DEF InTurn, n, ops
<1>5. There(s, x)
  BY <1>1, <1>3 DEF There, n
<1> QED BY <1>4, <1>5

\* Setting a list that leads with what is there leaves that list.
LEMMA SetAllIsThat ==
  ASSUME NEW E, NEW s \in Seq(E), NEW t \in Seq(E), Leads(s, t),
         \A i, j \in 1..Len(t) : i # j => t[i].key # t[j].key
  PROVE  SetAll(s, t) = t
<1> DEFINE n == Len(t)
           m == Len(s)
<1>1. n \in Nat /\ m \in Nat /\ m <= n /\ DOMAIN t = 1..n /\ DOMAIN s = 1..m
  BY DEF Leads
<1>a. /\ \A i \in 1..m : s[i].key = t[i].key
      /\ \A i, j \in 1..n : i # j => t[i].key # t[j].key
  BY DEF Leads
<1>b. /\ \A i \in 1..n : t[i] \in E
      /\ s = [i \in 1..m |-> s[i]] /\ t = [i \in 1..n |-> t[i]]
  OBVIOUS
<1>2. \A u \in Seq(E), i \in 1..n : Set(u, t[i]) \in Seq(E)
  BY <1>b, SetWorks
<1> HIDE DEF n, m
<1>3. PICK r : /\ r[0] = s /\ SetAll(s, t) = r[n]
               /\ \A k \in 0..n : r[k] \in Seq(E)
               /\ \A k \in 1..n : r[k] = Set(r[k - 1], t[k])
  <2> DEFINE A == Seq(E)
  <2>1. s \in A /\ \A u \in A, i \in 1..n : Set(u, t[i]) \in A
    BY <1>2
  <2> HIDE DEF A
  <2>2. \E r : SetTrail(r, A, s, t, n)
    BY <1>1, <2>1, SetAllTrail
  <2> QED BY <2>2 DEF A, SetTrail
\* After k of them: the first k of t, and what s has beyond.
<1> DEFINE Holds(k) == /\ Len(r[k]) = (IF k <= m THEN m ELSE k)
                       /\ \A i \in 1..Len(r[k]) : r[k][i] = IF i <= k THEN t[i] ELSE s[i]
           S == {k \in 0..n : Holds(k)}
<1>4. 0 \in S
  <2>1. 0 \in 0..n /\ Len(s) = m
    BY <1>1 DEF m
  <2> QED BY <1>1, <1>3, <2>1
<1>5. ASSUME NEW k \in (0 + 1)..n, k - 1 \in S PROVE k \in S
  <2> DEFINE u == r[k - 1]
             v == r[k]
  <2>1. k \in 1..n /\ k \in 0..n /\ k - 1 \in 0..n
    BY <1>1
  <2>2. v = Set(u, t[k]) /\ u \in Seq(E) /\ v \in Seq(E)
    BY <1>3, <2>1
  <2>3. /\ Len(u) = (IF k - 1 <= m THEN m ELSE k - 1)
        /\ \A i \in 1..Len(u) : u[i] = IF i <= k - 1 THEN t[i] ELSE s[i]
    BY <1>5
  <2> HIDE DEF u, v
  <2>4. \A i \in 1..Len(u) : i \in 1..n /\ u[i].key = t[i].key
    BY <1>1, <1>a, <2>1, <2>3
  <2>5. CASE k <= m
    <3>1. Len(u) = m /\ k \in 1..m /\ u[k].key = t[k].key
      BY <1>1, <2>1, <2>3, <2>4, <2>5
    <3>2. \A i \in 1..Len(u) : u[i].key = t[k].key => i = k
      BY <1>a, <2>1, <2>4
    <3>3. v = [u EXCEPT ![k] = t[k]]
      BY <2>2, <3>1, <3>2, SetIs
    <3>4. Len(v) = m /\ \A i \in 1..m : v[i] = IF i = k THEN t[k] ELSE u[i]
      BY <2>2, <3>1, <3>3
    <3>5. \A i \in 1..m : v[i] = IF i <= k THEN t[i] ELSE s[i]
      BY <1>1, <2>1, <2>3, <3>1, <3>4
    <3> QED BY <2>1, <2>5, <3>4, <3>5 DEF v
  <2>6. CASE ~(k <= m)
    <3>1. Len(u) = k - 1
      BY <1>1, <2>1, <2>3, <2>6
    <3>2. \A i \in 1..Len(u) : u[i].key # t[k].key
      BY <1>a, <2>1, <2>4, <3>1
    <3>3. v = Append(u, t[k])
      <4>1. \/ Set(u, t[k]) = Append(u, t[k]) /\ \A i \in 1..Len(u) : u[i].key # t[k].key
            \/ \E i \in 1..Len(u) : u[i].key = t[k].key /\ Set(u, t[k]) = [u EXCEPT ![i] = t[k]]
        BY <2>2, SetIs
      <4> QED BY <2>2, <3>2, <4>1
    <3>4. Len(v) = k /\ \A i \in 1..k : v[i] = IF i = k THEN t[k] ELSE u[i]
      BY <2>1, <2>2, <3>1, <3>3
    <3>5. \A i \in 1..k : v[i] = IF i <= k THEN t[i] ELSE s[i]
      BY <1>1, <2>1, <2>3, <3>1, <3>4
    <3> QED BY <2>1, <2>6, <3>4, <3>5 DEF v
  <2> QED BY <2>5, <2>6
<1>6. n \in S
  <2> HIDE DEF S
  <2>1. 0 \in 0..n
    BY <1>1
  <2> QED BY <1>1, <1>4, <1>5, <2>1, Climb
<1>7. Len(r[n]) = n /\ \A i \in 1..n : r[n][i] = t[i]
  BY <1>1, <1>6
<1>8. r[n] \in Seq(E)
  BY <1>1, <1>3
<1>9. r[n] = t
  BY <1>7, <1>8 DEF n
<1> QED BY <1>3, <1>9

\* What was previewed and is recorded.
LEMMA Recorded ==
  ASSUME NEW s, HeldList(s), NEW t, AskList(t), Tidy(t), Leads(s, t) \/ s = <<>>,
         NEW x \in Docs, Run(x, Ops(t)).end = "ok"
  PROVE  LET all == SetAll(s, Record(t, Run(x, Ops(t))))
         IN  Tidy(all) /\ InTurn(all) /\ There(all, x)
<1> DEFINE rec == Record(t, Run(x, Ops(t)))
<1>1. HeldList(rec) /\ Alike(t, rec) /\ InTurn(t) /\ There(t, x)
  BY RecordHolds, RecordAlike, ListRan
<1> HIDE DEF rec
<1>2. Tidy(rec) /\ InTurn(rec) /\ There(rec, x)
  BY <1>1, AlikeTidy DEF AskList, HeldList
<1>3. Leads(s, rec)
  <2>1. Len(t) \in Nat /\ Len(rec) = Len(t)
    BY <1>1, ListDomain DEF AskList, Alike
  <2>2. CASE s = <<>>
    BY <2>1, <2>2 DEF Leads
  <2>3. CASE Leads(s, t)
    <3>1. Len(s) \in Nat
      BY ListDomain DEF HeldList
    <3>2. \A i \in 1..Len(s) : i \in 1..Len(t)
      BY <2>1, <2>3, <3>1 DEF Leads
    <3> QED BY <1>1, <2>1, <2>3, <3>2 DEF Leads, Alike
  <2> QED BY <2>2, <2>3
<1>4. SetAll(s, rec) = rec
  <2> DEFINE E == ToSet(s) \cup ToSet(rec)
  <2>1. s \in Seq(E) /\ rec \in Seq(E)
    <3>1. s \in Seq(ToSet(s)) /\ rec \in Seq(ToSet(rec))
      BY <1>1 DEF HeldList
    <3> QED BY <3>1
  <2> HIDE DEF E
  <2> QED BY <1>2, <1>3, <2>1, SetAllIsThat DEF Tidy
<1> QED BY <1>2, <1>4 DEF rec

\* What an answered extract shows: the keys the move alters.
LEMMA MoveShows ==
  ASSUME NEW x \in Docs, NEW e, Asked(e), Run(x, Ops(<<e>>)).end = "ok"
  PROVE  LET reply == Run(x, Ops(<<e>>))
             held == [Record(<<e>>, reply)[1] EXCEPT !.key = <<"move", @[2], None>>]
         IN  {d[1] : d \in Diff(x, reply.doc)} = Altered(<<held>>)
<1> DEFINE reply == Run(x, Ops(<<e>>))
           rec == Record(<<e>>, reply)
           u == rec[1]
           held == [u EXCEPT !.key = <<"move", @[2], None>>]
<1>1. AskList(<<e>>)
  BY OneEntry DEF AskList
<1>a. reply.end = "ok"
  OBVIOUS
<1>2. HeldEntry(held)
  BY ExtractHeld
<1>3. held.op = [e.op EXCEPT !.expect = reply.ranges[1]]
  <2> HIDE DEF reply
  <2>1. u = [e EXCEPT !.op.expect = reply.ranges[1]]
    BY DEF Record
  <2>2. u = [key |-> e.key, op |-> [e.op EXCEPT !.expect = reply.ranges[1]]]
    BY <2>1 DEF Asked, IsEntry
  <2> HIDE DEF u
  <2> QED BY <2>2
<1> HIDE DEF held
<1>4. Run(x, Ops(<<held>>)) = reply
  BY <1>3, MoveAnswers
<1> HIDE DEF reply, rec, u
<1>5. HeldList(<<held>>)
  BY <1>2, OneEntry DEF HeldList
<1>6. AskList(<<held>>)
  BY <1>5, HeldIsAsked
<1> DEFINE s == <<held>>
           ops == Ops(s)
<1>7. Len(s) = 1 /\ DOMAIN ops = 1..1 /\ ops[1] = held.op /\ s \in Seq(ToSet(s)) /\ s[1] = held
  <2>1. /\ <<held>> \in Seq(ToSet(<<held>>)) /\ Len(<<held>>) = 1 /\ <<held>>[1] = held
        /\ Ops(<<held>>) = [i \in 1..1 |-> held.op]
    BY OneEntry
  <2> QED BY <2>1
<1>8. InTurn(s) /\ There(s, x)
  BY <1>a, <1>4, <1>6, ListRan
<1> HIDE DEF s, ops
<1>9. IsOp(ops[1]) /\ HeldOp(ops[1])
  BY <1>2, <1>7 DEF HeldEntry, Asked
<1>10. EachHeld(ops, 1) /\ NoTwice(ops, 1)
  BY <1>9 DEF EachHeld, NoTwice
<1>11. InOrder(ops, 1)
  BY <1>7, <1>8 DEF InTurn, ops
<1>12. \A i \in 1..1 : ops[i].kind # "insert_sequence_entry" => LinesOf(x, ops[i].key) # <<>>
  BY <1>7, <1>8 DEF There
<1>13. Run(x, ops).end = "ok"
  BY <1>a, <1>4 DEF s, ops
<1>14. {d[1] : d \in Diff(x, Run(x, ops).doc)} = Altering(ops, 1)
  BY <1>7, <1>10, <1>11, <1>12, <1>13, RunShows
<1>15. Altered(s) = Altering(ops, 1)
  BY <1>7, AlteredIs DEF ops
<1> QED BY <1>4, <1>14, <1>15 DEF s, ops, held, u, rec, reply
-----------------------------------------------------------------------------
(* What is staged is shown.                                                  *)

Says(s, ks) == s.state = "shown" /\ {d[1] : d \in s.diff} = ks

\* A Save that was answered, and whose handler has yet to hear.
Saved == \E h \in Handlers : /\ pc[h] = "apply" /\ job[h].reply # None
                             /\ job[h].reply.end = "ok"

\* A preview is of the stages with one more or another: every one of them in its
\* place, and answered for a file whose lines are all still there.
PreviewOK == \A h \in Handlers : pc[h] = "preview" =>
               /\ Tidy(job[h].entries) /\ (staged = <<>> \/ Leads(staged, job[h].entries))
               /\ job[h].reply # None => Within(job[h].wasDisk, disk)

\* What the strip's preview was answered for had every line that is staged.
AnswerOK == \A a \in Actors : pc[a] = "refresh" /\ job[a].reply # None
              => staged = <<>> \/ There(staged, job[a].wasDisk)

\* The strip says which lines the stages alter, or is about to.
SaysOK   == \/ staged = <<>> \/ Altered(staged) = {} \/ Refreshes
            \/ Says(strip, Altered(staged))
MoveSays == move # None => Says(strip, Altered(<<move.entry>>))

ShowInv ==
  /\ late = None /\ Tidy(staged) /\ InTurn(staged) /\ (There(staged, disk) \/ Saved)
  /\ PreviewOK /\ AnswerOK /\ SaysOK /\ MoveSays

\* Nothing staged is tidy, in turn and there.
LEMMA NoneTidy == Tidy(<<>>) /\ InTurn(<<>>) /\ \A d : There(<<>>, d)
<1>1. Len(<<>>) = 0
  OBVIOUS
<1> QED BY <1>1 DEF Tidy, InTurn, InOrder, There

\* While anybody but a Save that landed waits, what is staged is there: a handler
\* that has not written,
LEMMA HandlerThere ==
  ASSUME ExclInv, ShowInv, NEW h \in Handlers, pc[h] # "idle",
         pc[h] = "apply" /\ job[h].reply # None => job[h].reply.end # "ok"
  PROVE  There(staged, disk)
<1>1. \A g \in Handlers : g # h => pc[g] = "idle"
  BY OthersIdle
<1>2. ~Saved
  BY <1>1 DEF Saved
<1> QED BY <1>2 DEF ShowInv

\* and the redraw.
LEMMA DrawThere ==
  ASSUME LandInv, ShowInv, pc[Draw] # "idle"
  PROVE  There(staged, disk)
<1>1. CASE Saved
  <2>1. PICK h \in Handlers : pc[h] = "apply"
    BY <1>1 DEF Saved
  <2>2. staged = <<>>
    BY <2>1 DEF LandInv, Quiet, Busy
  <2> QED BY <2>2, NoneTidy
<1>2. CASE ~Saved
  BY <1>2 DEF ShowInv
<1> QED BY <1>1, <1>2

\* A handler that returns, or the redraw that ends.
LEMMA RestShows ==
  ASSUME ExclInv, LandInv, ShowInv, NEW a \in Actors, Rests(a), UNCHANGED <<disk, late>>,
         a \in Handlers => \A g \in Handlers : g # a => pc[g] = "idle",
         staged' \in {staged, <<>>}, MoveSays',
         \/ staged' = <<>>
         \/ /\ There(staged, disk)
            /\ \/ UNCHANGED strip /\ pc[a] # "refresh"
               \/ Says(strip', Altered(staged')) \/ Altered(staged') = {}
  PROVE  ShowInv'
<1>a. PcOK /\ JobsOK /\ Draw \notin Handlers /\ Handlers \subseteq Actors
  BY StagingAssumption DEF ExclInv, LandInv, Actors
<1>1. \A b \in Actors : b # a => job'[b] = job[b]
  BY <1>a, RestJobs
<1>2. ASSUME NEW b \in Actors, pc'[b] \notin {"idle", "resolve"} PROVE b # a /\ pc'[b] = pc[b]
  BY <1>2 DEF Rests
<1>3. Tidy(staged') /\ InTurn(staged') /\ There(staged', disk')
  BY NoneTidy DEF ShowInv
<1>4. PreviewOK'
  <2> SUFFICES ASSUME NEW h \in Handlers, pc'[h] = "preview"
               PROVE  /\ Tidy(job'[h].entries)
                      /\ staged' = <<>> \/ Leads(staged', job'[h].entries)
                      /\ job'[h].reply # None => Within(job'[h].wasDisk, disk')
    BY DEF PreviewOK
  <2>1. pc[h] = "preview" /\ job'[h] = job[h]
    BY <1>a, <1>1, <1>2
  <2> QED BY <2>1 DEF ShowInv, PreviewOK
<1>5. AnswerOK'
  <2> SUFFICES ASSUME NEW b \in Actors, pc'[b] = "refresh", job'[b].reply # None
               PROVE  staged' = <<>> \/ There(staged', job'[b].wasDisk)
    BY DEF AnswerOK
  <2>1. pc[b] = "refresh" /\ job'[b] = job[b]
    BY <1>1, <1>2
  <2> QED BY <2>1 DEF ShowInv, AnswerOK
<1>6. SaysOK'
  <2>1. CASE staged' = <<>> \/ Says(strip', Altered(staged')) \/ Altered(staged') = {}
    BY <2>1 DEF SaysOK
  <2>2. CASE staged' = staged /\ UNCHANGED strip /\ pc[a] # "refresh"
    <3>1. CASE Refreshes
      <4>1. PICK b \in Actors : pc[b] = "refresh"
        BY <3>1 DEF Refreshes
      <4>2. pc'[b] = "refresh"
        BY <2>2, <4>1 DEF Rests
      <4> QED BY <4>2 DEF SaysOK, Refreshes
    <3>2. CASE ~Refreshes
      <4>1. staged = <<>> \/ Altered(staged) = {} \/ Says(strip, Altered(staged))
        BY <3>2 DEF ShowInv, SaysOK
      <4> QED BY <2>2, <4>1 DEF SaysOK
    <3> QED BY <3>1, <3>2
  <2> QED BY <2>1, <2>2
<1> QED BY <1>3, <1>4, <1>5, <1>6 DEF ShowInv

\* Who asks waits with what it asked, and nobody else moves.
LEMMA AsksIs ==
  ASSUME PcOK, JobsOK, NEW a \in Actors, NEW wait, NEW entries, Asks(a, wait, entries)
  PROVE  /\ job'[a].entries = entries /\ job'[a].reply = None /\ pc'[a] = wait
         /\ \A b \in Actors : b # a => pc'[b] = pc[b] /\ job'[b] = job[b]
<1>1. PICK j : Takes(a, j) /\ j.entries = entries /\ j.reply = None
  BY DEF Asks
<1>2. job' = [b \in Actors |-> IF b = a THEN j ELSE job[b]]
  BY <1>1 DEF JobsOK, Takes
<1>3. pc' = [pc EXCEPT ![a] = wait] /\ pc \in [Actors -> Waits \cup {"idle", "resolve"}]
  BY DEF Asks, PcOK
<1>4. \A b \in Actors : pc'[b] = IF b = a THEN wait ELSE pc[b]
  BY <1>3
<1> QED BY <1>1, <1>2, <1>4

\* A press that asks the core, with nothing else in flight.
LEMMA PressShows ==
  ASSUME ExclInv, LandInv, ShowInv, AtRest, NEW h \in Handlers, NEW wait, NEW entries,
         Busy(wait), Asks(h, wait, entries),
         wait = "preview" => Tidy(entries) /\ Leads(staged, entries),
         UNCHANGED <<disk, staged, move, strip, late>>
  PROVE  ShowInv'
<1>a. PcOK /\ JobsOK /\ Handlers \subseteq Actors /\ h \in Actors /\ \A b \in Actors : pc[b] = "idle"
  BY DEF ExclInv, LandInv, Actors, AtRest
<1>1. /\ job'[h].entries = entries /\ job'[h].reply = None /\ pc'[h] = wait
      /\ \A b \in Actors : b # h => pc'[b] = "idle"
  BY <1>a, AsksIs
<1>2. There(staged, disk) /\ ~Refreshes
  BY <1>a DEF ShowInv, Saved, Refreshes
<1>3. PreviewOK'
  <2> SUFFICES ASSUME NEW g \in Handlers, pc'[g] = "preview"
               PROVE  /\ Tidy(job'[g].entries)
                      /\ staged' = <<>> \/ Leads(staged', job'[g].entries)
                      /\ job'[g].reply # None => Within(job'[g].wasDisk, disk')
    BY DEF PreviewOK
  <2>1. g = h
    BY <1>a, <1>1
  <2> QED BY <1>1, <2>1
<1>4. AnswerOK'
  BY <1>1 DEF AnswerOK, Busy
<1>5. SaysOK' /\ MoveSays'
  <2>1. staged = <<>> \/ Altered(staged) = {} \/ Says(strip, Altered(staged))
    BY <1>2 DEF ShowInv, SaysOK
  <2> QED BY <2>1 DEF ShowInv, SaysOK, MoveSays
<1> QED BY <1>2, <1>3, <1>4, <1>5 DEF ShowInv

\* Whoever asks for the strip of what is staged now.
LEMMA AskShows ==
  ASSUME ExclInv, LandInv, ShowInv, NEW a \in Actors, NEW entries, Asks(a, "refresh", entries),
         staged' = entries, Tidy(entries), InTurn(entries), There(entries, disk), move' = None,
         a \in Handlers => \A g \in Handlers : g # a => pc[g] = "idle",
         a = Draw => staged' = staged,
         a \in Handlers => pc[Draw] # "refresh",
         UNCHANGED <<disk, strip, late>>
  PROVE  ShowInv'
<1>a. PcOK /\ JobsOK /\ Draw \notin Handlers /\ Handlers \subseteq Actors
  BY StagingAssumption DEF ExclInv, LandInv, Actors
<1>1. /\ job'[a].reply = None /\ pc'[a] = "refresh"
      /\ \A b \in Actors : b # a => pc'[b] = pc[b] /\ job'[b] = job[b]
  BY <1>a, AsksIs
<1>2. PreviewOK'
  <2> SUFFICES ASSUME NEW h \in Handlers, pc'[h] = "preview"
               PROVE  /\ Tidy(job'[h].entries)
                      /\ staged' = <<>> \/ Leads(staged', job'[h].entries)
                      /\ job'[h].reply # None => Within(job'[h].wasDisk, disk')
    BY DEF PreviewOK
  <2>1. h # a /\ pc[h] = "preview" /\ job'[h] = job[h]
    BY <1>a, <1>1
  <2>2. a = Draw
    BY <2>1 DEF Actors
  <2> QED BY <2>1, <2>2 DEF ShowInv, PreviewOK
<1>3. AnswerOK'
  <2> SUFFICES ASSUME NEW b \in Actors, pc'[b] = "refresh", job'[b].reply # None
               PROVE  staged' = <<>> \/ There(staged', job'[b].wasDisk)
    BY DEF AnswerOK
  <2>1. b # a
    BY <1>1
  <2>2. pc[b] = "refresh" /\ job'[b] = job[b]
    BY <1>1, <2>1
  <2>3. a = Draw
    BY <2>1, <2>2 DEF Actors
  <2> QED BY <2>2, <2>3 DEF ShowInv, AnswerOK
<1>4. SaysOK' /\ MoveSays'
  BY <1>1 DEF SaysOK, Refreshes, MoveSays
<1> QED BY <1>2, <1>3, <1>4 DEF ShowInv

\* Nobody moves and nothing is staged: an actor learns of an answer, or the file
\* changes and keeps its lines.
LEMMA CoreShows ==
  ASSUME ShowInv, UNCHANGED <<pc, staged, move, strip>>, late' = None,
         There(staged', disk') \/ Saved', PreviewOK', AnswerOK'
  PROVE  ShowInv'
<1>1. SaysOK' /\ MoveSays'
  BY DEF ShowInv, SaysOK, MoveSays, Refreshes
<1> QED BY <1>1 DEF ShowInv
-----------------------------------------------------------------------------
(* Each step keeps it: the reader's,                                         *)

\* Staging an edit,
LEMMA StageShows ==
  ASSUME Patient, ExclInv, LandInv, ShowInv, NEW h \in Handlers, NEW op \in EditOps, Stage(h, op)
  PROVE  ShowInv'
<1> DEFINE list == Set(staged, Entry(op))
<1>1. Ask(h, "preview", list, FALSE) /\ UNCHANGED <<disk, late, staged, move, strip>> /\ AtRest
  BY AllAtRest DEF Stage, Press
<1>2. Tidy(list) /\ Leads(staged, list)
  <2>1. Entry(op).key = StagingKey(Entry(op).op)
    BY DEF Entry
  <2>2. staged \in Seq(ToSet(staged)) /\ Tidy(staged)
    BY DEF LandInv, HeldList, ShowInv
  <2> QED BY <2>1, <2>2, SetTidy
<1> HIDE DEF list
<1>3. Asks(h, "preview", list)
  BY <1>1, AskAsks
<1> QED BY <1>1, <1>2, <1>3, PressShows DEF Busy

\* a move,
LEMMA StageMoveShows ==
  ASSUME Patient, ExclInv, LandInv, ShowInv, NEW h \in Handlers, NEW op, StageMove(h, op)
  PROVE  ShowInv'
<1> DEFINE list == <<Entry(op)>>
<1>1. Ask(h, "extract", list, FALSE) /\ UNCHANGED <<disk, late, staged, move, strip>> /\ AtRest
  BY AllAtRest DEF StageMove, Press
<1> HIDE DEF list
<1>2. Asks(h, "extract", list)
  BY <1>1, AskAsks
<1> QED BY <1>1, <1>2, PressShows DEF Busy

\* a Save,
LEMMA SaveShows ==
  ASSUME Patient, ExclInv, LandInv, ShowInv, NEW h \in Handlers, Save(h)
  PROVE  ShowInv'
<1>1. UNCHANGED <<disk, late, staged, move, strip>> /\ AtRest
  BY AllAtRest DEF Save, Press
<1>2. ASSUME NEW wait \in {"apply", "applyMove"}, NEW list, Ask(h, wait, list, TRUE)
      PROVE  ShowInv'
  <2>1. Asks(h, wait, list)
    BY <1>2, AskAsks
  <2>2. Busy(wait) /\ wait # "preview"
    BY DEF Busy
  <2> QED BY <1>1, <2>1, <2>2, PressShows
<1>3. CASE Ask(h, "applyMove", <<move.entry>>, TRUE)
  BY <1>2, <1>3
<1>4. CASE Ask(h, "apply", staged, TRUE)
  BY <1>2, <1>4
<1> QED BY <1>3, <1>4 DEF Save

\* taking a stage back,
LEMMA UnstageShows ==
  ASSUME Patient, ExclInv, LandInv, ShowInv, NEW h \in Handlers, NEW k, Unstage(h, k), staged # <<>>
  PROVE  ShowInv'
<1> DEFINE rest == Without(staged, k)
<1>1. /\ staged' = rest /\ UNCHANGED <<move, disk, late>> /\ AtRest
      /\ RefreshPending(h, rest, move, TRUE)
  BY AllAtRest DEF Unstage, Press
<1>3. move = None
  BY DEF ExclInv, Exclusive
<1>4. /\ h \in Actors /\ h # Draw /\ Draw \in Actors /\ PcOK /\ pc[Draw] = "idle"
      /\ \A g \in Handlers : pc[g] = "idle"
  BY <1>1, StagingAssumption DEF Actors, ExclInv, AtRest
<1>2. Tidy(rest) /\ InTurn(rest) /\ There(rest, disk)
  <2>1. There(staged, disk)
    BY <1>4 DEF ShowInv, Saved
  <2>2. staged \in Seq(ToSet(staged)) /\ Tidy(staged) /\ InTurn(staged)
    BY DEF LandInv, HeldList, ShowInv
  <2> QED BY <2>1, <2>2, WithoutTidy
<1> HIDE DEF rest
<1>5. CASE rest = <<>> /\ strip' = Cleared /\ Rests(h)
  <2>1. MoveSays'
    BY <1>1, <1>3 DEF MoveSays
  <2> QED BY <1>1, <1>4, <1>5, <2>1, RestShows
<1>6. CASE rest # <<>> /\ UNCHANGED strip /\ Asks(h, "refresh", rest)
  BY <1>1, <1>2, <1>3, <1>4, <1>6, AskShows
<1> QED BY <1>1, <1>3, <1>4, <1>5, <1>6, RefreshPendingDoes

\* A discard leaves nothing to show.
LEMMA DiscardShows ==
  ASSUME ExclInv, LandInv, ShowInv, NEW a \in Actors, Rests(a), UNCHANGED <<disk, late>>,
         a \in Handlers => \A g \in Handlers : g # a => pc[g] = "idle",
         NEW stale, Discard(stale)
  PROVE  ShowInv'
<1>1. staged' = <<>> /\ move' = None
  BY DiscardGone
<1>2. MoveSays'
  BY <1>1 DEF MoveSays
<1> QED BY <1>1, <1>2, RestShows

\* and discarding all.
LEMMA DiscardAllShows ==
  ASSUME Patient, ExclInv, LandInv, ShowInv, NEW h \in Handlers, DiscardAll(h)
  PROVE  ShowInv'
<1>1. Discard(FALSE) /\ Settle(h, TRUE) /\ UNCHANGED <<disk, late>> /\ AtRest
  BY AllAtRest DEF DiscardAll, Press
<1>2. h \in Actors /\ PcOK /\ \A g \in Handlers : pc[g] = "idle"
  BY <1>1 DEF Actors, ExclInv, AtRest
<1>3. Rests(h)
  BY <1>1, <1>2, SettleRests
<1> QED BY <1>1, <1>2, <1>3, DiscardShows

LEMMA ReaderShows ==
  ASSUME Patient, ExclInv, LandInv, ShowInv, NEW h \in Handlers, ReaderStep(h)
  PROVE  ShowInv'
<1>1. ASSUME NEW e \in ToSet(staged), Unstage(h, e.key) PROVE ShowInv'
  <2>1. staged # <<>>
    BY <1>1 DEF ToSet
  <2> QED BY <1>1, <2>1, UnstageShows
<1> QED BY <1>1, StageShows, StageMoveShows, DiscardAllShows, SaveShows DEF ReaderStep
-----------------------------------------------------------------------------
(* the answers,                                                              *)

\* A failed answer shows what was shown, or discards.
LEMMA FailureShows ==
  ASSUME ExclInv, LandInv, ShowInv, NEW h \in Handlers, pc[h] \in {"preview", "extract"},
         Settle(h, FALSE), NEW reply, ReportFailure(reply), UNCHANGED <<disk, late>>
  PROVE  ShowInv'
<1>1. h \in Actors /\ PcOK /\ \A g \in Handlers : g # h => pc[g] = "idle"
  BY OthersIdle DEF Actors, ExclInv
<1>2. Rests(h)
  BY <1>1, SettleRests
<1>3. CASE Discard(TRUE)
  BY <1>1, <1>2, <1>3, DiscardShows
<1>4. CASE UNCHANGED <<staged, move, strip, owed>>
  <2>1. There(staged, disk)
    BY HandlerThere
  <2>2. MoveSays'
    BY <1>4 DEF ShowInv, MoveSays
  <2> QED BY <1>1, <1>2, <1>4, <2>1, <2>2, RestShows
<1> QED BY <1>3, <1>4 DEF ReportFailure

\* a preview's, whose entries are staged as they were previewed,
LEMMA PreviewShows ==
  ASSUME ExclInv, LandInv, ShowInv, NEW h \in Handlers, Preview(h)
  PROVE  ShowInv'
<1> DEFINE j == job[h]
           reply == j.reply
           all == SetAll(staged, Record(j.entries, reply))
<1>a. /\ h \in Actors /\ h # Draw /\ Draw \in Actors /\ PcOK /\ pc[h] = "preview" /\ reply # None
      /\ \A g \in Handlers : g # h => pc[g] = "idle"
  BY OthersIdle, StagingAssumption DEF Actors, ExclInv, Preview
<1>b. UNCHANGED <<disk, late>> /\ move = None
  BY DEF Preview, ExclInv, Checked
<1>c. JobOK(pc[h], job[h], disk)
  BY <1>a DEF LandInv, JobsOK
<1>d. AskList(j.entries) /\ j.wasDisk \in Docs /\ reply = Run(j.wasDisk, Ops(j.entries))
  BY <1>a, <1>c DEF JobOK
<1>e. pc[Draw] # "refresh"
  BY <1>a DEF LandInv, Quiet, Busy
<1>f. /\ Tidy(j.entries) /\ (staged = <<>> \/ Leads(staged, j.entries))
      /\ Within(j.wasDisk, disk)
  BY <1>a DEF ShowInv, PreviewOK
<1>1. CASE ReportFailure(reply) /\ Settle(h, FALSE)
  BY <1>a, <1>b, <1>1, FailureShows
<1>2. CASE /\ reply.end = "ok" /\ staged' = all /\ UNCHANGED move
           /\ RefreshPending(h, all, move, FALSE)
  <2>1. Tidy(all) /\ InTurn(all) /\ There(all, j.wasDisk)
    <3>1. HeldList(staged)
      BY DEF LandInv
    <3> QED BY <1>d, <1>f, <1>2, <3>1, Recorded
  <2>a. HeldList(all)
    <3>1. HeldList(Record(j.entries, reply))
      BY <1>d, <1>2, RecordHolds
    <3> QED BY <3>1, SetAllHeld DEF LandInv
  <2> HIDE DEF all
  <2>2. There(all, disk)
    <3> SUFFICES ASSUME NEW i \in 1..Len(all), all[i].op.kind # "insert_sequence_entry"
                 PROVE  LinesOf(disk, all[i].op.key) # <<>>
      BY DEF There
    <3>1. LinesOf(j.wasDisk, all[i].op.key) # <<>>
      BY <2>1 DEF There
    <3>2. all[i].op.key \in Keys
      <4>1. all[i] \in ToSet(all)
        BY <2>a, ListDomain DEF HeldList
      <4> QED BY <2>a, <4>1 DEF HeldList, HeldEntry, Asked, IsOp, Kinds
    <3> QED BY <1>f, <3>1, <3>2 DEF Within
  <2>3. MoveSays' /\ move' = None
    BY <1>b, <1>2 DEF MoveSays
  <2>4. CASE all = <<>> /\ strip' = Cleared /\ Rests(h)
    BY <1>a, <1>b, <1>2, <2>3, <2>4, RestShows
  <2>5. CASE all # <<>> /\ UNCHANGED strip /\ Asks(h, "refresh", all)
    BY <1>a, <1>b, <1>e, <1>2, <2>1, <2>2, <2>3, <2>5, AskShows
  <2> QED BY <1>a, <1>b, <1>2, <2>4, <2>5, RefreshPendingDoes
<1> QED BY <1>1, <1>2 DEF Preview

\* a move's,
LEMMA ExtractShows ==
  ASSUME ExclInv, LandInv, ShowInv, NEW h \in Handlers, Extract(h)
  PROVE  ShowInv'
<1> DEFINE j == job[h]
           reply == j.reply
           held  == [Record(j.entries, reply)[1] EXCEPT !.key = <<"move", @[2], None>>]
           mv    == [entry |-> held, diff |-> Diff(j.wasDisk, reply.doc)]
<1>a. /\ h \in Actors /\ PcOK /\ pc[h] = "extract" /\ reply # None
      /\ \A g \in Handlers : g # h => pc[g] = "idle"
  BY OthersIdle DEF Actors, ExclInv, Extract
<1>b. UNCHANGED <<disk, late>> /\ staged = <<>>
  BY DEF Extract, ExclInv, Checked
<1>c. JobOK(pc[h], job[h], disk)
  BY <1>a DEF LandInv, JobsOK
<1>d. PICK e : Asked(e) /\ j.entries = <<e>>
  BY <1>a, <1>c DEF JobOK
<1>e. j.wasDisk \in Docs /\ reply = Run(j.wasDisk, Ops(j.entries))
  BY <1>a, <1>c DEF JobOK
<1>1. CASE ReportFailure(reply) /\ Settle(h, FALSE)
  BY <1>a, <1>b, <1>1, FailureShows
<1>2. CASE /\ reply.end = "ok" /\ move' = mv /\ UNCHANGED <<staged, owed>>
           /\ RefreshPending(h, staged, mv, FALSE)
  <2>1. {d[1] : d \in Diff(j.wasDisk, reply.doc)} = Altered(<<held>>)
    BY <1>d, <1>e, <1>2, MoveShows
  <2>2. mv.entry = held /\ mv.diff = Diff(j.wasDisk, reply.doc)
    OBVIOUS
  <2> HIDE DEF mv, held
  <2>3. CASE strip' = Shown(mv.diff) /\ Rests(h)
    <3>1. strip'.state = "shown" /\ strip'.diff = mv.diff
      BY <2>3 DEF Shown
    <3>2. MoveSays'
      BY <1>2, <2>1, <2>2, <3>1 DEF MoveSays, Says
    <3> QED BY <1>a, <1>b, <1>2, <2>3, <3>2, RestShows
  <2>4. CASE mv = None /\ Rests(h)
    <3>1. MoveSays'
      BY <1>2, <2>4 DEF MoveSays
    <3> QED BY <1>a, <1>b, <1>2, <2>4, <3>1, RestShows
  <2> QED BY <1>a, <1>b, <1>2, <2>3, <2>4, RefreshPendingDoes
<1> QED BY <1>1, <1>2 DEF Extract

\* a write's,
LEMMA AppliedShows ==
  ASSUME ExclInv, LandInv, ShowInv, NEW h \in Handlers, Applied(h)
  PROVE  ShowInv'
<1>a. /\ h \in Actors /\ PcOK /\ pc[h] = "apply"
      /\ \A g \in Handlers : g # h => pc[g] = "idle"
  BY OthersIdle DEF Actors, ExclInv, Applied
<1>b. UNCHANGED <<disk, late>> /\ move = None
  BY <1>a DEF Applied, LandInv, SaveOK
<1>c. Rests(h)
  BY <1>a, SettleRests DEF Applied
<1>1. CASE staged' = <<>> /\ UNCHANGED move
  <2>1. MoveSays'
    BY <1>b, <1>1 DEF MoveSays
  <2> QED BY <1>a, <1>b, <1>c, <1>1, <2>1, RestShows
<1>2. CASE Discard(TRUE)
  BY <1>a, <1>b, <1>c, <1>2, DiscardShows
<1>3. CASE job[h].reply.end \in {"refused", "failed"} /\ UNCHANGED <<staged, move, strip, owed>>
  <2>1. There(staged, disk)
    BY <1>a, <1>3, HandlerThere
  <2>2. MoveSays'
    BY <1>b, <1>3 DEF MoveSays
  <2> QED BY <1>a, <1>b, <1>c, <1>3, <2>1, <2>2, RestShows
<1> QED BY <1>1, <1>2, <1>3 DEF Applied, Spend

\* a written move's,
LEMMA MoveAppliedShows ==
  ASSUME ExclInv, LandInv, ShowInv, NEW h \in Handlers, MoveApplied(h)
  PROVE  ShowInv'
<1>a. /\ h \in Actors /\ PcOK /\ pc[h] = "applyMove"
      /\ \A g \in Handlers : g # h => pc[g] = "idle"
  BY OthersIdle DEF Actors, ExclInv, MoveApplied
<1>b. UNCHANGED <<disk, late>> /\ staged = <<>>
  BY <1>a DEF MoveApplied, LandInv, SaveOK
<1>c. Rests(h)
  BY <1>a, SettleRests DEF MoveApplied
<1>1. CASE move' = None /\ UNCHANGED <<staged, owed>>
  <2>1. MoveSays'
    BY <1>1 DEF MoveSays
  <2> QED BY <1>a, <1>b, <1>c, <1>1, <2>1, RestShows
<1>2. CASE Discard(TRUE)
  BY <1>a, <1>b, <1>c, <1>2, DiscardShows
<1>3. CASE UNCHANGED <<staged, move, strip, owed>>
  <2>1. MoveSays'
    BY <1>3 DEF ShowInv, MoveSays
  <2> QED BY <1>a, <1>b, <1>c, <1>3, <2>1, RestShows
<1> QED BY <1>1, <1>2, <1>3 DEF MoveApplied

\* and the strip's own: it shows what the stages alter, or that is nothing.
LEMMA RefreshShows ==
  ASSUME ExclInv, LandInv, ShowInv, NEW a \in Actors, Refresh(a)
  PROVE  ShowInv'
<1> DEFINE j == job[a]
           reply == j.reply
<1>a. PcOK /\ pc[a] = "refresh" /\ reply # None /\ UNCHANGED <<disk, late>>
  BY DEF ExclInv, Refresh
<1>b. a \in Handlers => \A g \in Handlers : g # a => pc[g] = "idle"
  BY <1>a, OthersIdle
<1>c. JobOK(pc[a], job[a], disk)
  BY DEF LandInv, JobsOK
<1>d. j.wasDisk \in Docs /\ reply = Run(j.wasDisk, Ops(j.entries)) /\ HeldList(j.entries)
  BY <1>a, <1>c DEF JobOK
<1>e. move = None /\ (staged = <<>> \/ j.entries = staged)
  BY <1>a DEF LandInv, RefreshOK
<1>f. Rests(a)
  BY <1>a, SettleRests DEF Refresh
<1>g. There(staged, disk)
  <2>1. CASE a \in Handlers
    BY <1>a, <2>1, HandlerThere
  <2>2. CASE a = Draw
    BY <1>a, <2>2, DrawThere
  <2> QED BY <2>1, <2>2 DEF Actors
<1>h. staged = <<>> \/ There(staged, j.wasDisk)
  BY <1>a DEF ShowInv, AnswerOK
<1>i. HeldList(staged) /\ Tidy(staged) /\ InTurn(staged)
  BY DEF LandInv, ShowInv
<1>1. CASE /\ reply.end = "ok" /\ strip' = Shown(Diff(j.wasDisk, reply.doc))
           /\ UNCHANGED <<staged, move, owed>>
  <2>1. MoveSays'
    BY <1>e, <1>1 DEF MoveSays
  <2>2. staged' = <<>> \/ Says(strip', Altered(staged'))
    <3> SUFFICES ASSUME staged # <<>> PROVE Says(strip', Altered(staged))
      BY <1>1
    <3>1. {d[1] : d \in Diff(j.wasDisk, reply.doc)} = Altered(staged)
      BY <1>d, <1>e, <1>h, <1>i, <1>1, ListShows
    <3>2. strip'.state = "shown" /\ strip'.diff = Diff(j.wasDisk, reply.doc)
      BY <1>1 DEF Shown
    <3> QED BY <3>1, <3>2 DEF Says
  <2> QED BY <1>a, <1>b, <1>f, <1>g, <1>1, <2>1, <2>2, RestShows
<1>2. CASE Discard(TRUE)
  BY <1>a, <1>b, <1>f, <1>2, DiscardShows
<1>3. CASE reply.end \in {"refused", "failed"} /\ UNCHANGED <<staged, move, strip, owed>>
  <2>1. reply.end = "refused"
    BY <1>d, <1>3, HeldIsAsked, RunAnswers
  <2>2. MoveSays'
    BY <1>e, <1>3 DEF MoveSays
  <2>3. staged' = <<>> \/ Altered(staged') = {}
    BY <1>d, <1>e, <1>h, <1>i, <1>3, <2>1, ListShows
  <2> QED BY <1>a, <1>b, <1>f, <1>g, <1>3, <2>2, <2>3, RestShows
<1> QED BY <1>1, <1>2, <1>3 DEF Refresh, ReportFailure
-----------------------------------------------------------------------------
(* and everybody else's.                                                     *)

\* Where an operation lands is a range, or nowhere.
LEMMA LocateIs ==
  ASSUME NEW x \in Docs, NEW op, IsOp(op)
  PROVE  Locate(x, op) \in Expects \cup {None}
<1> DEFINE Hit(l) == l.key = op.key
           I == {i \in 1..Len(x) : Hit(x[i])}
           n == Find(x, op.key)
<1>1. n = IF I # {} THEN Min(I) ELSE 0
  BY DEF Find, SelectInSeq
<1>2. x \in Seq(Lines) /\ DOMAIN x = 1..Len(x) /\ Len(x) \in Nat
  BY DEF Docs
<1>3. n = 0 \/ n \in 1..Len(x)
  <2>1. I \subseteq Nat /\ I \subseteq 1..Len(x)
    BY <1>2
  <2> HIDE DEF I
  <2> QED BY <1>1, <2>1, MinIsLeast
<1> HIDE DEF n
<1>4. \A i \in 1..(Len(x) + 1) : Offset(x, i) \in Nat
  BY <1>2, OffsetNat
<1>5. CASE op.kind = "insert_sequence_entry"
  <2>1. Len(x) + 1 \in 1..(Len(x) + 1)
    BY <1>2
  <2>2. Offset(x, Len(x) + 1) \in Nat
    BY <1>4, <2>1
  <2> DEFINE o == Offset(x, Len(x) + 1)
  <2>3. Locate(x, op) = [start |-> o, end |-> o, text |-> None]
    BY <1>5 DEF Locate
  <2> HIDE DEF o
  <2> QED BY <2>2, <2>3 DEF Expects, o
<1>6. CASE op.kind # "insert_sequence_entry" /\ n = 0
  BY <1>6 DEF Locate, n
<1>7. CASE op.kind # "insert_sequence_entry" /\ n \in 1..Len(x)
  <2>1. n \in 1..(Len(x) + 1) /\ n + 1 \in 1..(Len(x) + 1) /\ n # 0
    BY <1>2, <1>7
  <2>2. Offset(x, n) \in Nat /\ Offset(x, n + 1) \in Nat
    BY <1>4, <2>1
  <2>3. x[n].text \in Texts
    <3>1. x[n] \in Lines
      BY <1>2, <1>7
    <3> QED BY <3>1 DEF Lines
  <2> DEFINE o == Offset(x, n)
             p == Offset(x, n + 1)
             t == x[n].text
  <2>4. Locate(x, op) = [start |-> o, end |-> p, text |-> t]
    BY <1>7, <2>1 DEF Locate, n
  <2> HIDE DEF o, p, t
  <2> QED BY <2>2, <2>3, <2>4 DEF Expects, o, p, t
<1> QED BY <1>3, <1>5, <1>6, <1>7

\* So an answer is not None.
LEMMA RunIsAnswer ==
  ASSUME NEW x \in Docs, NEW s, AskList(s)
  PROVE  Run(x, Ops(s)) # None
<1> DEFINE n == Len(s)
           ops == Ops(s)
<1>1. n \in Nat /\ DOMAIN ops = 1..n /\ \A i \in 1..n : IsOp(ops[i])
  BY ListDomain DEF AskList, Asked
<1> HIDE DEF n, ops
<1>2. PICK st : /\ Trail(st, x, ops, n)
                /\ Run(x, ops) = [st[n] EXCEPT !.end = Run(x, ops).end]
                /\ Run(x, ops).end \in {"ok", "stale", "refused"}
  BY <1>1, RunEnds
<1>3. st[n] \in Sofars(ops, n)
  BY <1>1, <1>2 DEF Trail
<1>4. Landings(ops, n) \subseteq Expects \cup {None}
  BY <1>1, LocateIs DEF Landings
<1> DEFINE last == st[n]
           end == Run(x, ops).end
<1>5. last = [end |-> last.end, doc |-> last.doc, ranges |-> last.ranges]
  BY <1>3 DEF Sofars
<1>6. last.doc \in Seq(Lines)
  BY <1>3 DEF Sofars, Docs
<1>7. last.ranges \in Seq(Expects \cup {None})
  <2> DEFINE L == Landings(ops, n)
             M == Expects \cup {None}
  <2>1. last.ranges \in Seq(L)
    BY <1>3 DEF Sofars
  <2>2. L \subseteq M
    BY <1>4
  <2> HIDE DEF L, M, last
  <2>3. last.ranges \in Seq(M)
    BY <2>1, <2>2
  <2> QED BY <2>3 DEF M
<1>8. end \in {"ok", "stale", "refused", "failed"}
  BY <1>2
<1> HIDE DEF last, end
<1>9. Run(x, ops) = [end |-> end, doc |-> last.doc, ranges |-> last.ranges]
  BY <1>2, <1>5 DEF last, end
<1>10. Run(x, ops) \in [end : {"ok", "stale", "refused", "failed"}, doc : Seq(Lines), ranges : Seq(Expects \cup {None})]
  BY <1>6, <1>7, <1>8, <1>9
<1> QED BY <1>10, AnswerAssumption DEF ops

\* The core answers a preview for the file as it is.
LEMMA ReadShows ==
  ASSUME ExclInv, LandInv, ShowInv, NEW a \in Actors, CoreReads(a)
  PROVE  ShowInv'
<1> DEFINE j == job[a]
           reply == Run(disk, Ops(j.entries))
<1>1. pc[a] \in {"preview", "extract", "refresh"} /\ pc[a] \in Waits
  BY DEF CoreReads, Pending, Writes, Waits
<1>2. UNCHANGED <<disk, pc, staged, move, strip, late>>
  BY DEF CoreReads
<1>3. IsJob(j) /\ job = [b \in Actors |-> job[b]]
  <2>1. JobOK(pc[a], j, disk) /\ job = [b \in Actors |-> job[b]]
    BY DEF LandInv, JobsOK
  <2> QED BY <1>1, <2>1 DEF JobOK
<1>4. job' = [job EXCEPT ![a].reply = reply, ![a].wasDisk = disk]
  BY DEF CoreReads
<1> HIDE DEF reply
<1> DEFINE new == [[j EXCEPT !.reply = reply] EXCEPT !.wasDisk = disk]
<1>5. job' = [b \in Actors |-> IF b = a THEN new ELSE job[b]]
  BY <1>3, <1>4
<1> HIDE DEF j
<1>6. new.entries = j.entries /\ new.wasDisk = disk
  <2> DEFINE one == [j EXCEPT !.reply = reply]
  <2>1. one = [entries |-> j.entries, redraw |-> j.redraw, reply |-> reply,
               shown |-> j.shown, wasDisk |-> j.wasDisk]
    BY <1>3 DEF IsJob
  <2>2. new = [one EXCEPT !.wasDisk = disk]
    OBVIOUS
  <2> HIDE DEF one, new
  <2> QED BY <2>1, <2>2
<1> HIDE DEF new
<1>7. \A b \in Actors : b # a => job'[b] = job[b]
  BY <1>5
<1>a. job'[a].entries = job[a].entries /\ job'[a].wasDisk = disk
  BY <1>5, <1>6 DEF j
<1>8. Handlers \subseteq Actors
  BY DEF Actors
<1>9. There(staged', disk') \/ Saved'
  <2>1. CASE There(staged, disk)
    BY <1>2, <2>1
  <2>2. CASE Saved
    <3>1. PICK h \in Handlers : pc[h] = "apply" /\ job[h].reply # None /\ job[h].reply.end = "ok"
      BY <2>2 DEF Saved
    <3>2. h # a
      BY <1>1, <3>1
    <3>3. job'[h] = job[h] /\ pc'[h] = pc[h]
      BY <1>2, <1>7, <1>8, <3>2
    <3> QED BY <3>1, <3>3 DEF Saved
  <2> QED BY <2>1, <2>2 DEF ShowInv
<1>10. PreviewOK'
  <2> SUFFICES ASSUME NEW h \in Handlers, pc[h] = "preview"
               PROVE  /\ Tidy(job'[h].entries)
                      /\ staged = <<>> \/ Leads(staged, job'[h].entries)
                      /\ job'[h].reply # None => Within(job'[h].wasDisk, disk)
    BY <1>2 DEF PreviewOK
  <2>1. /\ Tidy(job[h].entries) /\ (staged = <<>> \/ Leads(staged, job[h].entries))
        /\ job[h].reply # None => Within(job[h].wasDisk, disk)
    BY DEF ShowInv, PreviewOK
  <2>2. CASE h = a
    <3>1. Within(disk, disk)
      BY WithinItself
    <3> QED BY <1>a, <2>1, <2>2, <3>1
  <2>3. CASE h # a
    BY <1>7, <1>8, <2>1, <2>3
  <2> QED BY <2>2, <2>3
<1>11. AnswerOK'
  <2> SUFFICES ASSUME NEW b \in Actors, pc[b] = "refresh", job'[b].reply # None
               PROVE  staged = <<>> \/ There(staged, job'[b].wasDisk)
    BY <1>2 DEF AnswerOK
  <2>1. CASE b = a
    <3>1. There(staged, disk)
      <4>1. CASE a \in Handlers
        BY <2>1, <4>1, HandlerThere
      <4>2. CASE a = Draw
        BY <2>1, <4>2, DrawThere
      <4> QED BY <4>1, <4>2 DEF Actors
    <3> QED BY <1>a, <2>1, <3>1
  <2>2. CASE b # a
    <3>1. job'[b] = job[b]
      BY <1>7, <2>2
    <3> QED BY <3>1 DEF ShowInv, AnswerOK
  <2> QED BY <2>1, <2>2
<1>12. late' = None
  BY <1>2 DEF ShowInv
<1> QED BY <1>2, <1>9, <1>10, <1>11, <1>12, CoreShows

\* A write that lands is the whole of what was staged, or a move's with nothing staged;
\* one that does not leaves the file.
LEMMA WriteShows ==
  ASSUME ExclInv, LandInv, ShowInv, NEW a \in Actors, CoreWrites(a)
  PROVE  ShowInv'
<1> DEFINE j == job[a]
           reply == Run(disk, Ops(j.entries))
           new == [j EXCEPT !.reply = reply]
<1>1. pc[a] \in {"apply", "applyMove"} /\ pc[a] \in Waits /\ Written(j.entries)
  BY DEF CoreWrites, Writes, Waits
<1>2. UNCHANGED <<pc, staged, move, strip, late>>
  BY DEF CoreWrites
<1>3. a \in Handlers
  BY <1>1 DEF LandInv, Actors
<1>4. \A g \in Handlers : g # a => pc[g] = "idle"
  BY <1>1, <1>3, OthersIdle
<1>5. IsJob(j) /\ HeldList(j.entries) /\ job = [b \in Actors |-> job[b]]
  <2>1. JobOK(pc[a], j, disk) /\ job = [b \in Actors |-> job[b]]
    BY DEF LandInv, JobsOK
  <2> QED BY <1>1, <2>1 DEF JobOK
<1>6. reply.end \in {"ok", "stale", "refused"}
  BY <1>5, HeldIsAsked, RunAnswers DEF LandInv
<1>7. reply.end # "ok" => UNCHANGED disk
  BY <1>1 DEF Written
<1>8. job' = [job EXCEPT ![a].reply = reply]
  BY DEF CoreWrites
<1>b. reply # None
  <2>1. AskList(j.entries) /\ disk \in Docs
    BY <1>5, HeldIsAsked DEF LandInv
  <2> QED BY <2>1, RunIsAnswer
<1> HIDE DEF reply
<1>9. job' = [b \in Actors |-> IF b = a THEN new ELSE job[b]]
  BY <1>5, <1>8
<1> HIDE DEF j
<1>10. new.reply = reply
  BY <1>5 DEF IsJob
<1> HIDE DEF new
<1>11. job'[a].reply = reply /\ \A b \in Actors : b # a => job'[b] = job[b]
  BY <1>9, <1>10
<1>12. There(staged', disk') \/ Saved'
  <2>1. CASE reply.end # "ok"
    <3>1. There(staged, disk)
      <4>1. job[a].reply = None
        BY DEF CoreWrites, Pending
      <4>2. pc[a] # "idle"
        BY <1>1
      <4> QED BY <1>3, <4>1, <4>2, HandlerThere
    <3> QED BY <1>2, <1>7, <2>1, <3>1
  <2>2. CASE reply.end = "ok" /\ pc[a] = "apply"
    <3>1. pc'[a] = "apply" /\ job'[a].reply # None /\ job'[a].reply.end = "ok"
      BY <1>2, <1>b, <1>11, <2>2
    <3> QED BY <1>3, <3>1 DEF Saved
  <2>3. CASE pc[a] = "applyMove"
    <3>1. staged = <<>>
      BY <1>3, <2>3 DEF LandInv, SaveOK
    <3> QED BY <1>2, <3>1, NoneTidy
  <2> QED BY <1>1, <2>1, <2>2, <2>3
<1>13. PreviewOK'
  BY <1>1, <1>2, <1>4 DEF PreviewOK
<1>14. AnswerOK'
  <2> SUFFICES ASSUME NEW b \in Actors, pc[b] = "refresh", job'[b].reply # None
               PROVE  staged = <<>> \/ There(staged, job'[b].wasDisk)
    BY <1>2 DEF AnswerOK
  <2>1. b # a
    BY <1>1
  <2>2. job'[b] = job[b]
    BY <1>11, <2>1
  <2> QED BY <2>2 DEF ShowInv, AnswerOK
<1>15. late' = None
  BY <1>2 DEF ShowInv
<1> QED BY <1>2, <1>12, <1>13, <1>14, <1>15, CoreShows

\* Another program's save rewords a line, and takes none away,
LEMMA EditShows ==
  ASSUME ExclInv, LandInv, ShowInv, ExternalEdit
  PROVE  ShowInv'
<1>1. PICK i \in DOMAIN disk, t \in Texts : disk' = [disk EXCEPT ![i].text = t]
  BY DEF ExternalEdit
<1>2. Within(disk, disk')
  <2>1. disk' = Reworded(disk, i, t)
    BY <1>1 DEF Reworded
  <2> QED BY <2>1, Rewritten DEF LandInv
<1>3. UNCHANGED <<pc, job, staged, move, strip, late>>
  BY DEF ExternalEdit
<1>4. There(staged, disk) => There(staged, disk')
  <2> SUFFICES ASSUME There(staged, disk), NEW i1 \in 1..Len(staged),
                      staged[i1].op.kind # "insert_sequence_entry"
               PROVE  LinesOf(disk', staged[i1].op.key) # <<>>
    BY DEF There
  <2>1. LinesOf(disk, staged[i1].op.key) # <<>>
    BY DEF There
  <2>2. HeldList(staged)
    BY DEF LandInv
  <2>3. staged[i1] \in ToSet(staged)
    BY <2>2, ListDomain DEF HeldList
  <2>4. staged[i1].op.key \in Keys
    BY <2>2, <2>3 DEF HeldList, HeldEntry, Asked, IsOp, Kinds
  <2> QED BY <1>2, <2>1, <2>4 DEF Within
<1>5. There(staged', disk') \/ Saved'
  BY <1>3, <1>4 DEF ShowInv, Saved
<1>6. PreviewOK'
  <2>1. \A w : Within(w, disk) => Within(w, disk')
    BY <1>2 DEF Within
  <2> QED BY <1>3, <2>1 DEF ShowInv, PreviewOK
<1>7. AnswerOK' /\ late' = None
  BY <1>3 DEF ShowInv, AnswerOK
<1> QED BY <1>3, <1>5, <1>6, <1>7, CoreShows

\* and so does what changes neither the file nor a stage,
LEMMA SameShows ==
  ASSUME ShowInv, UNCHANGED <<disk, staged, move, strip, pc, job, late>>
  PROVE  ShowInv'
<1>1. There(staged', disk') \/ Saved'
  BY DEF ShowInv, Saved
<1>2. PreviewOK' /\ AnswerOK' /\ late' = None
  BY DEF ShowInv, PreviewOK, AnswerOK
<1> QED BY <1>1, <1>2, CoreShows

\* The watcher wakes the redraw, and nothing is staged any more.
LEMMA SeenShows ==
  ASSUME ExclInv, LandInv, ShowInv, ChangeSeen
  PROVE  ShowInv'
<1>1. CASE fresh
  BY <1>1, SameShows DEF ChangeSeen
<1>2. CASE ~fresh
  <2>a. Draw \in Actors /\ Draw \notin Handlers /\ Handlers \subseteq Actors /\ PcOK
    BY StagingAssumption DEF Actors, ExclInv
  <2>1. pc' = [pc EXCEPT ![Draw] = IF pc[Draw] = "idle" THEN "resolve" ELSE pc[Draw]]
    BY <1>2 DEF ChangeSeen
  <2>2. UNCHANGED <<disk, late, job>>
    BY <1>2 DEF ChangeSeen
  <2>3. \A h \in Handlers : pc'[h] = pc[h]
    BY <2>a, <2>1 DEF PcOK
  <2>4. staged' = <<>> /\ move' = None
    <3>1. CASE staged # <<>> \/ move # None
      <4>1. Discard(TRUE)
        BY <1>2, <3>1 DEF ChangeSeen
      <4> QED BY <4>1, DiscardGone
    <3>2. CASE ~(staged # <<>> \/ move # None)
      BY <1>2, <3>2 DEF ChangeSeen
    <3> QED BY <3>1, <3>2
  <2>5. Tidy(staged') /\ InTurn(staged') /\ There(staged', disk')
    BY <2>4, NoneTidy
  <2>6. PreviewOK' /\ AnswerOK' /\ SaysOK' /\ MoveSays' /\ late' = None
    BY <2>2, <2>3, <2>4 DEF ShowInv, PreviewOK, AnswerOK, SaysOK, MoveSays
  <2> QED BY <2>5, <2>6 DEF ShowInv
<1> QED BY <1>1, <1>2

\* and the end of a redraw.
LEMMA DrawnShows ==
  ASSUME ExclInv, LandInv, ShowInv, Drawn
  PROVE  ShowInv'
<1>a. /\ Draw \in Actors /\ Draw \notin Handlers /\ PcOK /\ pc[Draw] = "resolve"
      /\ UNCHANGED <<disk, late, staged, move>>
  BY StagingAssumption DEF Actors, ExclInv, Drawn
<1>b. There(staged, disk) /\ Tidy(staged) /\ InTurn(staged)
  BY <1>a, DrawThere DEF ShowInv
<1>1. CASE Settle(Draw, FALSE) /\ UNCHANGED strip
  <2>1. Rests(Draw)
    BY <1>a, <1>1, SettleRests
  <2>2. MoveSays'
    BY <1>a, <1>1 DEF ShowInv, MoveSays
  <2> QED BY <1>a, <1>b, <1>1, <2>1, <2>2, RestShows
<1>2. CASE RefreshPending(Draw, staged, move, FALSE)
  <2>1. CASE move # None /\ strip' = Shown(move.diff) /\ Rests(Draw)
    <3>1. strip'.state = "shown" /\ strip'.diff = strip.diff
      BY <2>1 DEF Shown, LandInv, MoveOK
    <3>2. MoveSays'
      BY <1>a, <3>1 DEF ShowInv, MoveSays, Says
    <3>3. staged' = <<>>
      BY <1>a, <2>1 DEF ExclInv, Exclusive
    <3> QED BY <1>a, <2>1, <3>2, <3>3, RestShows
  <2>2. CASE move = None /\ staged = <<>> /\ strip' = Cleared /\ Rests(Draw)
    <3>1. MoveSays'
      BY <1>a, <2>2 DEF MoveSays
    <3> QED BY <1>a, <2>2, <3>1, RestShows
  <2>3. CASE move = None /\ staged # <<>> /\ UNCHANGED strip /\ Asks(Draw, "refresh", staged)
    BY <1>a, <1>b, <2>3, AskShows
  <2>4. \/ move # None /\ strip' = Shown(move.diff) /\ Rests(Draw)
        \/ move = None /\ staged = <<>> /\ strip' = Cleared /\ Rests(Draw)
        \/ move = None /\ staged # <<>> /\ UNCHANGED strip /\ Asks(Draw, "refresh", staged)
    BY <1>a, <1>2, RefreshPendingDoes
  <2> QED BY <2>1, <2>2, <2>3, <2>4
<1> QED BY <1>1, <1>2 DEF Drawn

\* So ShowInv is inductive next to the others, while every request is answered.
LEMMA StepShows ==
  ASSUME Patient, UNCHANGED timeouts, timeouts \in Nat, ExclInv, LandInv, ShowInv, [Next]_vars
  PROVE  ShowInv'
<1>1. CASE \E h \in Handlers : ReaderStep(h)
  BY <1>1, ReaderShows
<1>2. CASE \E h \in Handlers : HandlerStep(h)
  BY <1>2, PreviewShows, ExtractShows, AppliedShows, MoveAppliedShows DEF HandlerStep
<1>3. CASE \E a \in Actors : Refresh(a)
  BY <1>3, RefreshShows
<1>4. CASE \E a \in Actors : CoreReads(a) \/ CoreWrites(a) \/ Timeout(a)
  <2>1. ASSUME NEW a \in Actors, Timeout(a) PROVE FALSE
    <3>1. timeouts' = timeouts + 1
      BY <2>1 DEF Timeout
    <3> QED BY <3>1
  <2> QED BY <1>4, <2>1, ReadShows, WriteShows
<1>5. CASE ExternalEdit \/ ChangeSeen \/ Drawn
  BY <1>5, EditShows, SeenShows, DrawnShows
<1>6. CASE WindowCloses \/ UNCHANGED vars
  <2>1. UNCHANGED <<disk, staged, move, strip, pc, job, late>>
    BY <1>6 DEF WindowCloses, vars
  <2> QED BY <2>1, SameShows
<1>7. ~CoreWritesLate
  BY DEF CoreWritesLate, ShowInv
<1> QED BY <1>1, <1>2, <1>3, <1>4, <1>5, <1>6, <1>7 DEF Next

\* With nothing staged there is nothing to show.
LEMMA InitShows ==
  ASSUME Init
  PROVE  ShowInv
<1>1. \A a \in Actors : pc[a] = "idle"
  BY DEF Init, Actors
<1>2. Tidy(staged) /\ InTurn(staged) /\ There(staged, disk)
  BY NoneTidy DEF Init
<1>3. PreviewOK /\ AnswerOK
  BY <1>1 DEF PreviewOK, AnswerOK, Actors
<1>4. SaysOK /\ MoveSays /\ late = None
  BY DEF Init, SaysOK, MoveSays
<1> QED BY <1>2, <1>3, <1>4 DEF ShowInv

\* What the stages alter is on the strip, when nobody waits.
LEMMA ShownAtRest ==
  ASSUME ExclInv, timeouts = 0 => ShowInv
  PROVE  StagesAreShown
<1> SUFFICES ASSUME AtRest, timeouts = 0,
                    NEW ks, ks = Altered(IF move # None THEN <<move.entry>> ELSE staged), ks # {}
             PROVE  Says(strip, ks)
  <2>1. ToSet(<<move.entry>>) = {move.entry}
    BY OneEntry
  <2> QED BY <2>1 DEF StagesAreShown, Altered, Alters, Says
<1>1. ~Refreshes
  BY DEF AtRest, Refreshes
<1>2. CASE move # None
  BY <1>2 DEF ShowInv, MoveSays
<1>3. CASE move = None
  <2>1. staged # <<>>
    <3> SUFFICES ASSUME staged = <<>> PROVE FALSE
      OBVIOUS
    <3>1. ToSet(<<>>) = {}
      BY DEF ToSet
    <3> QED BY <1>3, <3>1 DEF Altered
  <2> QED BY <1>1, <1>3, <2>1 DEF ShowInv, SaysOK
<1> QED BY <1>2, <1>3

\* Whatever is staged and would change the file is on the strip when nothing is in
\* flight, whatever was pressed, answered, discarded, redrawn or saved by others in
\* between: for a reader who waits for each answer, as long as none was lost.
THEOREM StagesShown == ASSUME Patient PROVE Spec => []StagesAreShown
<1> DEFINE Inv == ExclInv /\ Counted /\ (timeouts = 0 => LandInv /\ ShowInv)
<1>1. Init => Inv
  <2>1. Init => Counted
    BY DEF Init, Counted
  <2> QED BY <2>1, InitExcludes, InitLands, InitShows
<1>2. Inv /\ [Next]_vars => Inv'
  <2> SUFFICES ASSUME Inv, [Next]_vars PROVE Inv'
    OBVIOUS
  <2>1. ExclInv' /\ Counted' /\ (timeouts' = 0 => timeouts = 0)
    BY StepExcludes, StepCounts
  <2>2. ASSUME timeouts' = 0 PROVE LandInv' /\ ShowInv'
    <3>1. timeouts = 0 /\ UNCHANGED timeouts /\ timeouts \in Nat
      BY <2>1, <2>2 DEF Counted
    <3> QED BY <3>1, StepLands, StepShows
  <2> QED BY <2>1, <2>2
<1>3. Inv => StagesAreShown
  BY ShownAtRest
<1> QED BY <1>1, <1>2, <1>3, PTL DEF Spec

-----------------------------------------------------------------------------
(* What is staged, asked and answered keeps its type.                      *)

\* The entries of the type that are about a line there may be.
Typed == {e \in Entries : IsOp(e.op)}

\* A list of them is one the core can be asked to run.
LEMMA TypedAsked ==
  ASSUME NEW s \in Seq(Typed)
  PROVE  /\ Len(s) \in Nat /\ DOMAIN s = 1..Len(s) /\ \A i \in 1..Len(s) : s[i] \in Typed
         /\ AskList(s)
<1>1. Len(s) \in Nat /\ DOMAIN s = 1..Len(s) /\ \A i \in 1..Len(s) : s[i] \in Typed
  OBVIOUS
<1>2. \A e \in Typed : Asked(e)
  BY DEF Typed, Entries, HeldOps, Asked, IsEntry, IsRequest
<1>3. ToSet(s) = {s[i] : i \in 1..Len(s)}
  BY <1>1 DEF ToSet
<1>4. s \in Seq(ToSet(s))
  BY <1>1, <1>3
<1> QED BY <1>1, <1>2, <1>3, <1>4 DEF AskList

\* What a reader asks for is one,
LEMMA OpsTyped ==
  ASSUME NEW op \in EditOps
  PROVE  Entry(op) \in Typed
<1>1. op \in HeldOps /\ IsOp(op)
  <2>1. CASE op \in {Op("replace_scalar", k, t) : k \in Keys, t \in Texts}
    BY <2>1 DEF Op, HeldOps, IsOp, Kinds
  <2>2. CASE op \in {Op("delete_key", k, None) : k \in Keys}
    BY <2>2 DEF Op, HeldOps, IsOp, Kinds
  <2>3. CASE op \in {Op("insert_sequence_entry", k, t) : k \in NewKeys, t \in Texts}
    BY <2>3 DEF Op, HeldOps, IsOp, Kinds
  <2> QED BY <2>1, <2>2, <2>3 DEF EditOps
<1>2. StagingKey(op) \in Marks \X (Keys \cup NewKeys) \X (Texts \cup {None})
  <2>1. op.key \in Keys \cup NewKeys /\ op.text \in Texts \cup {None} /\ op.kind \in Kinds
    BY <1>1 DEF HeldOps
  <2>2. CASE op.kind = "replace_scalar"
    BY <2>1, <2>2 DEF StagingKey, Marks
  <2>3. CASE op.kind = "delete_key"
    BY <2>1, <2>3 DEF StagingKey, Marks
  <2>4. CASE op.kind = "insert_sequence_entry"
    BY <2>1, <2>4 DEF StagingKey, Marks
  <2> QED BY <2>1, <2>2, <2>3, <2>4 DEF Kinds
<1> DEFINE key == StagingKey(op)
<1>3. Entry(op) = [key |-> key, op |-> op]
  BY DEF Entry
<1> HIDE DEF key
<1>4. Entry(op) \in Entries /\ Entry(op).op = op
  BY <1>1, <1>2, <1>3 DEF Entries, key
<1> QED BY <1>1, <1>4 DEF Typed

\* and so is one with the range it was previewed at, or without.
LEMMA RangeTyped ==
  ASSUME NEW e \in Typed, NEW r \in Expects \cup {None}
  PROVE  [e EXCEPT !.op.expect = r] \in Typed
<1> DEFINE op == e.op
           new == [op EXCEPT !.expect = r]
<1>1. op \in HeldOps /\ IsOp(op) /\ e = [key |-> e.key, op |-> op]
      /\ e.key \in Marks \X (Keys \cup NewKeys) \X (Texts \cup {None})
  BY DEF Typed, Entries
<1>2. new \in HeldOps /\ new.kind = op.kind /\ new.key = op.key /\ new.text = op.text
  BY <1>1 DEF HeldOps
<1>3. [e EXCEPT !.op.expect = r] = [key |-> e.key, op |-> new]
  BY <1>1
<1>4. IsOp(new)
  BY <1>1, <1>2 DEF IsOp
<1> HIDE DEF new, op
<1>5. [key |-> e.key, op |-> new] \in Entries
  BY <1>1, <1>2 DEF Entries
<1> QED BY <1>3, <1>4, <1>5 DEF Typed

\* A list keeps the type as it is previewed, staged and taken back.
LEMMA RecordTyped ==
  ASSUME NEW s \in Seq(Typed), NEW reply, reply.ranges \in Seq(Expects),
         Len(reply.ranges) = Len(s)
  PROVE  Record(s, reply) \in Seq(Typed) /\ Len(Record(s, reply)) = Len(s)
<1>1. Len(s) \in Nat /\ DOMAIN s = 1..Len(s) /\ \A i \in 1..Len(s) : s[i] \in Typed
  OBVIOUS
<1>2. \A i \in 1..Len(s) : reply.ranges[i] \in Expects \cup {None}
  <2>1. \A i \in 1..Len(reply.ranges) : reply.ranges[i] \in Expects
    OBVIOUS
  <2> QED BY <2>1
<1>3. \A i \in 1..Len(s) : [s[i] EXCEPT !.op.expect = reply.ranges[i]] \in Typed
  BY <1>1, <1>2, RangeTyped
<1> DEFINE New(i) == [s[i] EXCEPT !.op.expect = reply.ranges[i]]
<1>4. Record(s, reply) = [i \in 1..Len(s) |-> New(i)]
  BY <1>1 DEF Record
<1>5. \A i \in 1..Len(s) : New(i) \in Typed
  BY <1>3
<1> HIDE DEF New
<1> QED BY <1>1, <1>4, <1>5

LEMMA SetAllIn ==
  ASSUME NEW P, NEW s \in Seq(P), NEW more \in Seq(P)
  PROVE  SetAll(s, more) \in Seq(P)
<1> DEFINE A == Seq(P)
<1>1. Len(more) \in Nat /\ DOMAIN more = 1..Len(more) /\ \A i \in 1..Len(more) : more[i] \in P
  OBVIOUS
<1>2. s \in A /\ \A t \in A, i \in 1..Len(more) : Set(t, more[i]) \in A
  BY <1>1, SetWorks
<1> HIDE DEF A
<1>3. SetAll(s, more) \in A
  BY <1>1, <1>2, SetAllSteps
<1> QED BY <1>3 DEF A

LEMMA BaresTyped ==
  ASSUME NEW s \in Seq(Typed)
  PROVE  Bares(s) \subseteq Entries
<1>1. ToSet(s) \subseteq Typed
  BY TypedAsked DEF ToSet
<1>2. \A e \in Typed : Bare(e) \in Typed
  BY RangeTyped DEF Bare
<1> QED BY <1>1, <1>2 DEF Bares, Typed

\* An answer has the type of one, with a range for each operation.
LEMMA RunTyped ==
  ASSUME NEW x \in Docs, NEW s \in Seq(Typed)
  PROVE  /\ Run(x, Ops(s)) \in Replies
         /\ Run(x, Ops(s)).end = "ok" => /\ Len(Run(x, Ops(s)).ranges) = Len(s)
                                         /\ Run(x, Ops(s)).doc \in Docs
<1> DEFINE n == Len(s)
           ops == Ops(s)
           reply == Run(x, ops)
<1>1. n \in Nat /\ DOMAIN ops = 1..n /\ \A i \in 1..n : IsOp(ops[i])
  BY TypedAsked, ListDomain DEF AskList, Asked
<1>a. reply.end = "ok" => reply.doc \in Docs
  BY TypedAsked, RunDoc
<1> HIDE DEF n, ops
<1>2. PICK st : /\ Trail(st, x, ops, n)
                /\ reply.end = "ok" => st[n].end = "ok"
                /\ reply.end \in {"ok", "stale", "refused"}
                /\ reply = [st[n] EXCEPT !.end = reply.end]
  BY <1>1, RunEnds
<1> HIDE DEF reply
<1>3. \A k \in 0..n : /\ st[k] = [end |-> st[k].end, doc |-> st[k].doc, ranges |-> st[k].ranges]
                      /\ st[k].doc \in Docs
  BY <1>2 DEF Trail, Sofars
<1> DEFINE Holds(k) == /\ st[k].ranges \in Seq(Expects)
                       /\ st[k].end = "ok" => Len(st[k].ranges) = k
           K == {k \in Nat : k <= n => Holds(k)}
<1>4. 0 \in K
  <2>1. st[0].ranges = <<>>
    BY <1>2 DEF Trail, Start
  <2>2. <<>> \in Seq(Expects) /\ Len(<<>>) = 0
    OBVIOUS
  <2>3. Holds(0)
    BY <2>1, <2>2
  <2> HIDE DEF Holds
  <2> QED BY <2>3
<1>5. ASSUME NEW k \in Nat, k \in K PROVE k + 1 \in K
  <2> SUFFICES ASSUME k + 1 <= n PROVE Holds(k + 1)
    OBVIOUS
  <2>1. k + 1 \in 1..n /\ k + 1 - 1 = k /\ k \in 0..n
    BY <1>1
  <2> DEFINE was == st[k]
             op == ops[k + 1]
             range == Locate(was.doc, op)
  <2>2. st[k + 1] = Turn(was, op)
    BY <1>2, <2>1 DEF Trail
  <2>3. was.ranges \in Seq(Expects) /\ (was.end = "ok" => Len(was.ranges) = k)
    BY <1>5, <2>1
  <2>4. was = [end |-> was.end, doc |-> was.doc, ranges |-> was.ranges]
    BY <1>3, <2>1
  <2>5. range \in Expects \cup {None}
    BY <1>1, <1>3, <2>1, LocateIs
  <2> HIDE DEF was, op, range
  <2>6. \/ was.end # "ok" /\ st[k + 1] = was
        \/ \E end \in {"refused", "stale"} : st[k + 1] = [was EXCEPT !.end = end]
        \/ /\ was.end = "ok" /\ range # None
           /\ st[k + 1] = [end |-> "ok", doc |-> Perform(was.doc, op), ranges |-> Append(was.ranges, range)]
    BY <2>2 DEF Turn, range
  <2>7. CASE was.end # "ok" /\ st[k + 1] = was
    BY <2>3, <2>7
  <2>8. CASE \E end \in {"refused", "stale"} : st[k + 1] = [was EXCEPT !.end = end]
    <3>1. PICK end \in {"refused", "stale"} : st[k + 1] = [was EXCEPT !.end = end]
      BY <2>8
    <3>2. st[k + 1].ranges = was.ranges /\ st[k + 1].end = end
      BY <2>4, <3>1
    <3> QED BY <2>3, <3>2
  <2>9. CASE /\ was.end = "ok" /\ range # None
             /\ st[k + 1] = [end |-> "ok", doc |-> Perform(was.doc, op), ranges |-> Append(was.ranges, range)]
    <3>1. st[k + 1].ranges = Append(was.ranges, range) /\ range \in Expects
      BY <2>5, <2>9
    <3>2. Len(was.ranges) = k
      BY <2>3, <2>9
    <3> QED BY <2>3, <3>1, <3>2
  <2> QED BY <2>6, <2>7, <2>8, <2>9
<1>6. n \in K
  <2> HIDE DEF K
  <2> QED BY <1>1, <1>4, <1>5, NatSet
<1>7. Holds(n)
  BY <1>1, <1>6
<1> DEFINE last == st[n]
           end == reply.end
<1>8. last = [end |-> last.end, doc |-> last.doc, ranges |-> last.ranges]
      /\ last.doc \in Seq(Lines) /\ last.ranges \in Seq(Expects)
      /\ reply = [last EXCEPT !.end = end] /\ end \in {"ok", "stale", "refused"}
      /\ (end = "ok" => Len(last.ranges) = n)
  BY <1>1, <1>2, <1>3, <1>7 DEF Docs
<1> HIDE DEF last, end, Holds
<1>9. reply = [end |-> end, doc |-> last.doc, ranges |-> last.ranges]
  BY <1>8
<1>10. reply \in Replies /\ (end = "ok" => Len(reply.ranges) = n)
  BY <1>8, <1>9 DEF Replies
<1> QED BY <1>a, <1>10 DEF end, n, ops, reply

\* The lines of a key are lines, so a diff of documents has the type of one.
LEMMA DiffTyped ==
  ASSUME NEW x \in Seq(Lines), NEW y \in Seq(Lines)
  PROVE  Diff(x, y) \in Diffs
<1>1. ASSUME NEW d \in Seq(Lines), NEW k PROVE LinesOf(d, k) \in Seq(Lines)
  <2> DEFINE S == At(d, k)
             m == Times(d, k)
             P(n) == CHOOSE i \in S : Cardinality(Low(S, i)) = n
  <2>1. S \in SUBSET Nat /\ IsFiniteSet(S) /\ m \in Nat /\ m = Cardinality(S) /\ S \subseteq DOMAIN d
    BY AtFinite DEF At, Times
  <2>2. \A n \in 1..m : P(n) \in S
    <3> SUFFICES ASSUME NEW n \in 1..m PROVE \E i \in S : Cardinality(Low(S, i)) = n
      OBVIOUS
    <3> HIDE DEF S, m
    <3> QED BY <2>1, Ranked
  <2>3. LinesOf(d, k) = [n \in 1..m |-> d[P(n)]]
    BY LinesAre
  <2> DEFINE T(n) == d[P(n)]
  <2>4. \A i \in DOMAIN d : d[i] \in Lines
    OBVIOUS
  <2> HIDE DEF S, m, P
  <2>5. \A n \in 1..m : T(n) \in Lines
    BY <2>1, <2>2, <2>4
  <2>6. LinesOf(d, k) = [n \in 1..m |-> T(n)]
    BY <2>3
  <2> HIDE DEF T
  <2> QED BY <2>1, <2>5, <2>6
<1>2. \A d \in Seq(Lines) : \A l \in ToSet(d) : l.key \in Keys \cup NewKeys
  <2> SUFFICES ASSUME NEW d \in Seq(Lines), NEW i \in DOMAIN d PROVE d[i].key \in Keys \cup NewKeys
    BY DEF ToSet
  <2>1. d[i] \in Lines
    OBVIOUS
  <2> QED BY <2>1 DEF Lines
<1> DEFINE A == Keys \cup NewKeys
           L == Seq(Lines)
           changed == {k \in {l.key : l \in ToSet(x) \cup ToSet(y)} : LinesOf(x, k) # LinesOf(y, k)}
<1>3. changed \subseteq A
  BY <1>2
<1>4. Diff(x, y) = {<<k, LinesOf(x, k), LinesOf(y, k)>> : k \in changed}
  BY DEF Diff
<1>5. \A k : LinesOf(x, k) \in L /\ LinesOf(y, k) \in L
  BY <1>1
<1> HIDE DEF A, L, changed
<1>6. \A d \in Diff(x, y) : d \in A \X L \X L
  <2> SUFFICES ASSUME NEW k \in changed PROVE <<k, LinesOf(x, k), LinesOf(y, k)>> \in A \X L \X L
    BY <1>4
  <2> QED BY <1>3, <1>5
<1> QED BY <1>6 DEF Diffs, A, L

\* Requests as they are while somebody waits, each answer with a range for
\* each operation; and moves.
Given  == {j \in Jobs : /\ j.entries \in Seq(Typed)
                        /\ j.reply # None /\ j.reply.end = "ok"
                             => Len(j.reply.ranges) = Len(j.entries)}
Held   == [entry : Typed, diff : Diffs]
Strips == [state : {"cleared", "stale", "shown"}, diff : Diffs]

WaitsTyped ==
  /\ pc \in [Actors -> Waits \cup {"idle", "resolve"}]
  /\ job \in [Actors -> Given \cup {None}]
  /\ \A a \in Actors : pc[a] \in Waits => job[a] \in Given
  /\ \A a \in Actors : pc[a] = "extract" => Len(job[a].entries) = 1
  /\ queued \in BOOLEAN /\ fresh \in BOOLEAN

HeldTyped ==
  /\ staged \in Seq(Typed)
  /\ move \in Held \cup {None}
  /\ strip \in Strips
  /\ owed \subseteq Entries

FileTyped ==
  /\ disk \in Docs
  /\ late \in Given \cup {None}
  /\ unseen \in BOOLEAN

UsedTyped == presses \in 0..MaxPresses /\ edits \in 0..MaxEdits /\ timeouts \in 0..MaxTimeouts

TypeInv == WaitsTyped /\ HeldTyped /\ FileTyped /\ UsedTyped

LEMMA TypeInvTypes ==
  ASSUME TypeInv
  PROVE  TypeOK
<1>1. staged \in Seq(Entries) /\ disk \in Seq(Lines)
  BY DEF TypeInv, HeldTyped, FileTyped, Typed, Docs
<1>2. move \in [entry : Entries, diff : Diffs] \cup {None}
  BY DEF TypeInv, HeldTyped, Held, Typed
<1>3. job \in [Actors -> Jobs \cup {None}] /\ late \in Jobs \cup {None}
  BY DEF TypeInv, WaitsTyped, FileTyped, Given
<1> QED
  BY <1>1, <1>2, <1>3 DEF TypeInv, WaitsTyped, HeldTyped, FileTyped, UsedTyped, Strips, TypeOK

LEMMA StripsTyped ==
  /\ Cleared \in Strips /\ Stale \in Strips
  /\ \A diff \in Diffs : Shown(diff) \in Strips
<1>1. {} \in Diffs
  BY DEF Diffs
<1> QED BY <1>1 DEF Cleared, Stale, Shown, Strips

\* Each way a stretch ends leaves the requests typed.
LEMMA AskTyped ==
  ASSUME TypeInv, NEW a \in Actors, NEW wait \in Waits, NEW s \in Seq(Typed),
         NEW redraw \in BOOLEAN, Ask(a, wait, s, redraw), wait = "extract" => Len(s) = 1
  PROVE  WaitsTyped'
<1> DEFINE j == [entries |-> s, redraw |-> redraw, reply |-> None, shown |-> strip.diff, wasDisk |-> disk]
<1>1. strip.diff \in Diffs /\ disk \in Seq(Lines) /\ s \in Seq(Entries)
  BY DEF TypeInv, HeldTyped, FileTyped, Strips, Docs, Typed
<1>2. j \in Given
  BY <1>1 DEF Given, Jobs
<1>3. /\ pc' = [pc EXCEPT ![a] = wait] /\ job' = [job EXCEPT ![a] = j]
      /\ queued' = queued /\ fresh' = fresh
      /\ j.entries = s
  BY DEF Ask
<1> HIDE DEF j
<1> QED BY <1>2, <1>3 DEF TypeInv, WaitsTyped

LEMMA SettleTyped ==
  ASSUME TypeInv, NEW a \in Actors, NEW redraw \in BOOLEAN, Settle(a, redraw)
  PROVE  WaitsTyped'
<1> DEFINE wanted == redraw \/ (a = Draw /\ queued)
           busy   == a # Draw /\ pc[Draw] # "idle"
           then   == IF wanted /\ ~busy THEN "resolve" ELSE IF a = Draw THEN "idle" ELSE pc[Draw]
<1>1. /\ pc' = [pc EXCEPT ![a] = "idle", ![Draw] = then]
      /\ job' = [job EXCEPT ![a] = None]
      /\ queued' = (IF a = Draw THEN FALSE ELSE queued \/ (redraw /\ busy))
      /\ fresh' = (fresh \/ (wanted /\ ~busy))
  BY DEF Settle
<1>2. then \in Waits \cup {"idle", "resolve"} /\ (then \in Waits => a # Draw /\ then = pc[Draw])
  BY DEF TypeInv, WaitsTyped, Waits, Actors
<1>3. Draw \in Actors
  BY DEF Actors
<1> HIDE DEF then, wanted, busy
<1>4. pc' \in [Actors -> Waits \cup {"idle", "resolve"}] /\ job' \in [Actors -> Given \cup {None}]
  BY <1>1, <1>2, <1>3 DEF TypeInv, WaitsTyped
<1>5. \A b \in Actors : pc'[b] \in Waits => b # a /\ pc'[b] = pc[b] /\ job'[b] = job[b]
  BY <1>1, <1>2, <1>3 DEF TypeInv, WaitsTyped, Waits
<1>6. queued' \in BOOLEAN /\ fresh' \in BOOLEAN
  BY <1>1 DEF TypeInv, WaitsTyped
<1> QED BY <1>4, <1>5, <1>6 DEF TypeInv, WaitsTyped, Waits

LEMMA RefreshTyped ==
  ASSUME TypeInv, NEW a \in Actors, NEW s \in Seq(Typed), NEW mv \in Held \cup {None},
         NEW redraw \in BOOLEAN, RefreshPending(a, s, mv, redraw)
  PROVE  WaitsTyped' /\ strip' \in Strips
<1>1. CASE mv # None
  BY <1>1, SettleTyped, StripsTyped DEF RefreshPending, Held
<1>2. CASE mv = None /\ s = <<>>
  BY <1>2, SettleTyped, StripsTyped DEF RefreshPending
<1>3. CASE mv = None /\ s # <<>>
  <2>1. Ask(a, "refresh", s, redraw) /\ strip' = strip
    BY <1>3 DEF RefreshPending
  <2> QED BY <2>1, AskTyped DEF Waits, TypeInv, HeldTyped
<1> QED BY <1>1, <1>2, <1>3

LEMMA DiscardTyped ==
  ASSUME TypeInv, NEW stale \in BOOLEAN, Discard(stale)
  PROVE  HeldTyped'
BY StripsTyped DEF TypeInv, HeldTyped, Discard

LEMMA FailureTyped ==
  ASSUME TypeInv, NEW reply, ReportFailure(reply)
  PROVE  HeldTyped'
BY DiscardTyped DEF TypeInv, HeldTyped, ReportFailure

LEMMA PressTyped ==
  ASSUME TypeInv, NEW h, Press(h)
  PROVE  FileTyped' /\ UsedTyped'
BY StagingAssumption DEF TypeInv, FileTyped, UsedTyped, Press

LEMMA StillTyped ==
  ASSUME TypeInv, UNCHANGED <<disk, late, unseen, bounds>>
  PROVE  FileTyped' /\ UsedTyped'
BY DEF TypeInv, FileTyped, UsedTyped, bounds

\* An entry of the type, and the list of it.
LEMMA OneTyped ==
  ASSUME NEW e \in Typed
  PROVE  <<e>> \in Seq(Typed) /\ Len(<<e>>) = 1
OBVIOUS

\* What a reader does keeps the types,
LEMMA ReadersTyped ==
  ASSUME TypeInv, NEW h \in Handlers, ReaderStep(h)
  PROVE  TypeInv'
<1>a. h \in Actors /\ staged \in Seq(Typed) /\ move \in Held \cup {None} /\ HeldTyped
  BY DEF Actors, TypeInv, HeldTyped
<1>b. Press(h) => FileTyped' /\ UsedTyped'
  BY PressTyped
<1>1. ASSUME NEW op \in EditOps, Stage(h, op) PROVE TypeInv'
  <2>1. Set(staged, Entry(op)) \in Seq(Typed)
    BY <1>a, OpsTyped, SetWorks
  <2>2. Press(h) /\ Ask(h, "preview", Set(staged, Entry(op)), FALSE) /\ UNCHANGED <<staged, move, strip, owed>>
    BY <1>1 DEF Stage
  <2>3. WaitsTyped'
    BY <1>a, <2>1, <2>2, AskTyped DEF Waits
  <2> QED BY <1>a, <1>b, <2>2, <2>3 DEF TypeInv, HeldTyped
<1>2. ASSUME NEW k, Unstage(h, k) PROVE TypeInv'
  <2> DEFINE rest == Without(staged, k)
  <2>1. rest \in Seq(Typed)
    BY <1>a, RemoveWorks
  <2>2. /\ Press(h) /\ staged' = rest /\ owed' \subseteq owed /\ move' = move
        /\ RefreshPending(h, rest, move, TRUE)
    BY <1>2 DEF Unstage
  <2> HIDE DEF rest
  <2>3. WaitsTyped' /\ strip' \in Strips
    BY <1>a, <2>1, <2>2, RefreshTyped
  <2> QED BY <1>a, <1>b, <2>1, <2>2, <2>3 DEF TypeInv, HeldTyped
<1>3. CASE DiscardAll(h)
  <2>1. Press(h) /\ Discard(FALSE) /\ Settle(h, TRUE)
    BY <1>3 DEF DiscardAll
  <2> QED BY <1>a, <1>b, <2>1, DiscardTyped, SettleTyped DEF TypeInv
<1>4. CASE Save(h)
  <2>1. Press(h) /\ UNCHANGED <<staged, move, strip, owed>>
    BY <1>4 DEF Save
  <2>2. WaitsTyped'
    <3>1. CASE move # None /\ Ask(h, "applyMove", <<move.entry>>, TRUE)
      <4>1. <<move.entry>> \in Seq(Typed)
        BY <1>a, <3>1, OneTyped DEF Held
      <4> QED BY <1>a, <3>1, <4>1, AskTyped DEF Waits
    <3>2. CASE Ask(h, "apply", staged, TRUE)
      BY <1>a, <3>2, AskTyped DEF Waits
    <3> QED BY <1>4, <3>1, <3>2 DEF Save
  <2> QED BY <1>a, <1>b, <2>1, <2>2 DEF TypeInv, HeldTyped
<1>5. ASSUME NEW k \in Keys, NEW t \in Texts, StageMove(h, Op("replace_scalar", k, t)) PROVE TypeInv'
  <2> DEFINE op == Op("replace_scalar", k, t)
  <2>1. op \in EditOps
    BY DEF EditOps
  <2>2. Press(h) /\ Ask(h, "extract", <<Entry(op)>>, FALSE) /\ UNCHANGED <<staged, move, strip, owed>>
    BY <1>5 DEF StageMove
  <2> HIDE DEF op
  <2>3. <<Entry(op)>> \in Seq(Typed) /\ Len(<<Entry(op)>>) = 1
    BY <2>1, OpsTyped, OneTyped
  <2>4. WaitsTyped'
    BY <1>a, <2>2, <2>3, AskTyped DEF Waits
  <2> QED BY <1>a, <1>b, <2>2, <2>4 DEF TypeInv, HeldTyped
<1> QED BY <1>1, <1>2, <1>3, <1>4, <1>5 DEF ReaderStep

\* what an answer was given for is a list of the type, with a range for each,
LEMMA AnswerTyped ==
  ASSUME TypeInv, NEW a \in Actors, pc[a] \in Waits, job[a].reply # None
  PROVE  /\ job[a].entries \in Seq(Typed) /\ job[a].redraw \in BOOLEAN
         /\ job[a].wasDisk \in Seq(Lines) /\ job[a].reply.doc \in Seq(Lines)
         /\ job[a].reply.end = "ok" =>
              /\ Record(job[a].entries, job[a].reply) \in Seq(Typed)
              /\ Len(Record(job[a].entries, job[a].reply)) = Len(job[a].entries)
              /\ Diff(job[a].wasDisk, job[a].reply.doc) \in Diffs
<1> DEFINE j == job[a]
<1>1. j \in Given /\ j.reply # None
  BY DEF TypeInv, WaitsTyped
<1> HIDE DEF j
<1>2. /\ j.entries \in Seq(Typed) /\ j.redraw \in BOOLEAN /\ j.wasDisk \in Seq(Lines)
      /\ j.reply \in Replies
      /\ j.reply.end = "ok" => Len(j.reply.ranges) = Len(j.entries)
  BY <1>1 DEF Given, Jobs
<1>3. j.reply.doc \in Seq(Lines) /\ j.reply.ranges \in Seq(Expects)
  BY <1>2 DEF Replies
<1>4. Diff(j.wasDisk, j.reply.doc) \in Diffs
  BY <1>2, <1>3, DiffTyped
<1>5. j.reply.end = "ok" => /\ Record(j.entries, j.reply) \in Seq(Typed)
                            /\ Len(Record(j.entries, j.reply)) = Len(j.entries)
  BY <1>2, <1>3, RecordTyped
<1> QED BY <1>2, <1>3, <1>4, <1>5 DEF j

\* what a handler does with its answer,
LEMMA HandlersTyped ==
  ASSUME TypeInv, NEW h \in Handlers, HandlerStep(h)
  PROVE  TypeInv'
<1>a. h \in Actors /\ staged \in Seq(Typed) /\ move \in Held \cup {None} /\ HeldTyped
  BY DEF Actors, TypeInv, HeldTyped
<1>b. FileTyped' /\ UsedTyped'
  BY StillTyped DEF HandlerStep, Preview, Extract, Applied, MoveApplied
<1>c. ASSUME ReportFailure(job[h].reply), Settle(h, FALSE) PROVE TypeInv'
  BY <1>a, <1>b, <1>c, FailureTyped, SettleTyped DEF TypeInv
<1>1. CASE Preview(h)
  <2> DEFINE reply == job[h].reply
             all   == SetAll(staged, Record(job[h].entries, reply))
  <2>1. pc[h] = "preview" /\ reply # None
    BY <1>1 DEF Preview
  <2>2. CASE /\ reply.end = "ok" /\ staged' = all /\ move' = move
             /\ owed' = {e \in owed : \A x \in ToSet(all) : x.key # e.key} \cup Bares(all)
             /\ RefreshPending(h, all, move, FALSE)
    <3>1. all \in Seq(Typed)
      BY <1>a, <2>1, <2>2, AnswerTyped, SetAllIn DEF Waits
    <3> HIDE DEF all, reply
    <3>2. owed' \subseteq Entries
      <4>1. owed \subseteq Entries /\ Bares(all) \subseteq Entries
        BY <3>1, BaresTyped DEF TypeInv, HeldTyped
      <4> QED BY <2>2, <4>1
    <3>3. WaitsTyped' /\ strip' \in Strips
      BY <1>a, <2>2, <3>1, RefreshTyped
    <3> QED BY <1>a, <1>b, <2>2, <3>1, <3>2, <3>3 DEF TypeInv, HeldTyped
  <2> QED BY <1>1, <1>c, <2>2 DEF Preview
<1>2. CASE Extract(h)
  <2> DEFINE reply == job[h].reply
             list  == Record(job[h].entries, reply)
             held  == [list[1] EXCEPT !.key = <<"move", @[2], None>>]
             mv    == [entry |-> held, diff |-> Diff(job[h].wasDisk, reply.doc)]
  <2>1. pc[h] = "extract" /\ reply # None
    BY <1>2 DEF Extract
  <2>2. CASE /\ reply.end = "ok" /\ move' = mv /\ RefreshPending(h, staged, mv, FALSE)
             /\ UNCHANGED <<staged, owed>>
    <3>1. list \in Seq(Typed) /\ Len(list) = 1 /\ Diff(job[h].wasDisk, reply.doc) \in Diffs
      BY <1>a, <2>1, <2>2, AnswerTyped DEF Waits, TypeInv, WaitsTyped
    <3> DEFINE e == list[1]
    <3>2. e \in Typed
      BY <3>1
    <3>3. held = [e EXCEPT !.key = <<"move", @[2], None>>]
      OBVIOUS
    <3> HIDE DEF e, held
    <3>4. held \in Typed
      <4>1. /\ e = [key |-> e.key, op |-> e.op] /\ e.op \in HeldOps /\ IsOp(e.op)
            /\ e.key[2] \in Keys \cup NewKeys
        BY <3>2 DEF Typed, Entries
      <4>2. held = [key |-> <<"move", e.key[2], None>>, op |-> e.op]
        BY <3>3, <4>1
      <4>3. <<"move", e.key[2], None>> \in Marks \X (Keys \cup NewKeys) \X (Texts \cup {None})
        BY <4>1 DEF Marks
      <4> QED BY <4>1, <4>2, <4>3 DEF Typed, Entries
    <3> HIDE DEF list, reply
    <3>5. mv \in Held
      BY <3>1, <3>4 DEF Held
    <3> HIDE DEF mv
    <3>6. WaitsTyped' /\ strip' \in Strips
      BY <1>a, <2>2, <3>5, RefreshTyped
    <3> QED BY <1>a, <1>b, <2>2, <3>5, <3>6 DEF TypeInv, HeldTyped
  <2> QED BY <1>2, <1>c, <2>2 DEF Extract
<1>3. CASE Applied(h)
  <2>1. WaitsTyped'
    BY <1>3, <1>a, SettleTyped DEF Applied
  <2>2. HeldTyped'
    <3>1. <<>> \in Seq(Typed)
      OBVIOUS
    <3>2. \/ Discard(TRUE)
          \/ /\ staged' = <<>> \/ staged' = staged
             /\ strip' = Cleared \/ strip' = strip
             /\ UNCHANGED <<move, owed>>
      BY <1>3 DEF Applied, Spend
    <3>3. CASE Discard(TRUE)
      BY <3>3, DiscardTyped
    <3> QED BY <1>a, <3>1, <3>2, <3>3, StripsTyped DEF HeldTyped
  <2> QED BY <1>b, <2>1, <2>2 DEF TypeInv
<1>4. CASE MoveApplied(h)
  <2>1. WaitsTyped'
    BY <1>4, <1>a, SettleTyped DEF MoveApplied
  <2>2. HeldTyped'
    BY <1>4, <1>a, DiscardTyped, StripsTyped DEF MoveApplied, HeldTyped
  <2> QED BY <1>b, <2>1, <2>2 DEF TypeInv
<1> QED BY <1>1, <1>2, <1>3, <1>4 DEF HandlerStep

\* the answers of the core,
LEMMA GivenTyped ==
  ASSUME TypeInv, NEW a \in Actors, Pending(a), NEW reply \in Replies,
         reply.end = "ok" => Len(reply.ranges) = Len(job[a].entries), NEW d \in Seq(Lines)
  PROVE  [job[a] EXCEPT !.reply = reply] \in Given /\ [job[a] EXCEPT !.reply = reply, !.wasDisk = d] \in Given
<1> DEFINE j == job[a]
<1>1. j \in Given
  BY DEF TypeInv, WaitsTyped, Pending
<1> HIDE DEF j
<1>2. /\ j = [entries |-> j.entries, redraw |-> j.redraw, reply |-> j.reply,
              shown |-> j.shown, wasDisk |-> j.wasDisk]
      /\ j.entries \in Seq(Entries) /\ j.redraw \in BOOLEAN /\ j.shown \in Diffs
      /\ j.wasDisk \in Seq(Lines) /\ j.entries \in Seq(Typed)
  BY <1>1 DEF Given, Jobs
<1> DEFINE u == [entries |-> j.entries, redraw |-> j.redraw, reply |-> reply,
                 shown |-> j.shown, wasDisk |-> j.wasDisk]
           v == [u EXCEPT !.wasDisk = d]
<1>a. [j EXCEPT !.reply = reply] = u
  BY <1>2
<1>b. [j EXCEPT !.reply = reply, !.wasDisk = d] = [[j EXCEPT !.reply = reply] EXCEPT !.wasDisk = d]
  OBVIOUS
<1>3. [j EXCEPT !.reply = reply] = u /\ [j EXCEPT !.reply = reply, !.wasDisk = d] = v
  BY ONLY <1>a, <1>b
<1>4. u \in Given /\ v \in Given
  BY <1>2 DEF Given, Jobs, j
<1> QED BY <1>3, <1>4 DEF j

\* A request of somebody who waits is replaced by one of the type.
LEMMA TakeTyped ==
  ASSUME TypeInv, NEW a \in Actors, NEW j \in Given, job' = [job EXCEPT ![a] = j],
         pc[a] \in Waits, j.entries = job[a].entries, UNCHANGED <<pc, queued, fresh>>
  PROVE  WaitsTyped'
BY DEF TypeInv, WaitsTyped

LEMMA WrittenTyped ==
  ASSUME disk \in Docs, unseen \in BOOLEAN, owed \subseteq Entries, NEW s \in Seq(Typed), Written(s)
  PROVE  disk' \in Docs /\ unseen' \in BOOLEAN /\ owed' \subseteq Entries
<1> DEFINE result == Run(disk, Ops(s))
<1>1. result.end = "ok" => result.doc \in Docs
  BY RunTyped
<1>2. IF result.end = "ok"
        THEN disk' = result.doc /\ unseen' = TRUE /\ owed' = owed \ Bares(s)
        ELSE UNCHANGED <<disk, unseen, owed>>
  BY DEF Written
<1> HIDE DEF result
<1> QED BY <1>1, <1>2

LEMMA CoreTyped ==
  ASSUME TypeInv, NEW a \in Actors, CoreReads(a) \/ CoreWrites(a) \/ Timeout(a)
  PROVE  TypeInv'
<1> DEFINE reply == Run(disk, Ops(job[a].entries))
<1>1. pc[a] \in Waits /\ job[a] \in Given /\ job[a].entries \in Seq(Typed) /\ disk \in Docs /\ disk \in Seq(Lines)
  BY DEF CoreReads, CoreWrites, Timeout, Pending, TypeInv, WaitsTyped, FileTyped, Given, Docs
<1>2. reply \in Replies /\ (reply.end = "ok" => Len(reply.ranges) = Len(job[a].entries))
  BY <1>1, RunTyped
<1> HIDE DEF reply
<1>3. CASE CoreReads(a)
  <2>1. /\ Pending(a) /\ job' = [job EXCEPT ![a] = [job[a] EXCEPT !.reply = reply, !.wasDisk = disk]]
        /\ UNCHANGED <<disk, staged, move, strip, pc, late, queued, fresh, unseen, owed, bounds>>
    BY <1>3 DEF CoreReads, reply, TypeInv, WaitsTyped
  <2> DEFINE j == [job[a] EXCEPT !.reply = reply, !.wasDisk = disk]
  <2>2. j \in Given /\ j.entries = job[a].entries
    BY <1>1, <1>2, <2>1, GivenTyped DEF Given, Jobs
  <2>3. WaitsTyped'
    <3> HIDE DEF j
    <3>1. job' = [job EXCEPT ![a] = j]
      BY <2>1 DEF j
    <3> QED BY <1>1, <2>1, <2>2, <3>1, TakeTyped
  <2> QED BY <2>1, <2>3, StillTyped DEF TypeInv, HeldTyped
<1>4. CASE CoreWrites(a)
  <2>1. /\ Pending(a) /\ job' = [job EXCEPT ![a] = [job[a] EXCEPT !.reply = reply]]
        /\ Written(job[a].entries)
        /\ UNCHANGED <<staged, move, strip, pc, late, queued, fresh, bounds>>
    BY <1>4 DEF CoreWrites, reply, TypeInv, WaitsTyped
  <2> DEFINE j == [job[a] EXCEPT !.reply = reply]
  <2>2. j \in Given /\ j.entries = job[a].entries
    BY <1>1, <1>2, <2>1, GivenTyped DEF Given, Jobs
  <2>3. WaitsTyped'
    <3> HIDE DEF j
    <3>1. job' = [job EXCEPT ![a] = j]
      BY <2>1 DEF j
    <3> QED BY <1>1, <2>1, <2>2, <3>1, TakeTyped
  <2>4. disk' \in Docs /\ unseen' \in BOOLEAN /\ owed' \subseteq Entries
    BY <1>1, <2>1, WrittenTyped DEF TypeInv, HeldTyped, FileTyped
  <2> QED BY <2>1, <2>3, <2>4 DEF TypeInv, HeldTyped, FileTyped, UsedTyped, bounds
<1>5. CASE Timeout(a)
  <2>1. Failed \in Replies /\ Failed.end # "ok"
    BY DEF Failed, Replies
  <2> DEFINE j == [job[a] EXCEPT !.reply = Failed]
  <2>2. j \in Given /\ j.entries = job[a].entries
    <3> DEFINE k == job[a]
    <3>1. k \in Given
      BY <1>1
    <3> HIDE DEF k
    <3>2. [k EXCEPT !.reply = Failed] \in Given /\ [k EXCEPT !.reply = Failed].entries = k.entries
      BY <2>1, <3>1 DEF Given, Jobs
    <3> QED BY <3>2 DEF k
  <2>3. job' = [job EXCEPT ![a] = j]
    BY <1>5 DEF Timeout, TypeInv, WaitsTyped
  <2> HIDE DEF j
  <2>4. WaitsTyped'
    BY <1>1, <1>5, <2>2, <2>3, TakeTyped DEF Timeout
  <2>5. late' \in Given \cup {None} /\ timeouts' \in 0..MaxTimeouts
    BY <1>1, <1>5, StagingAssumption DEF Timeout, TypeInv, UsedTyped
  <2> QED BY <1>5, <2>4, <2>5 DEF Timeout, TypeInv, HeldTyped, FileTyped, UsedTyped
<1> QED BY <1>3, <1>4, <1>5

\* and what happens to the file and the redraw.
LEMMA RestTyped ==
  ASSUME TypeInv, CoreWritesLate \/ ExternalEdit \/ ChangeSeen \/ WindowCloses \/ Drawn
                  \/ (\E a \in Actors : Refresh(a)) \/ UNCHANGED vars
  PROVE  TypeInv'
<1>a. HeldTyped /\ staged \in Seq(Typed) /\ move \in Held \cup {None} /\ Draw \in Actors
  BY DEF TypeInv, HeldTyped, Actors
<1>1. CASE CoreWritesLate
  <2>1. late.entries \in Seq(Typed)
    BY <1>1 DEF CoreWritesLate, TypeInv, FileTyped, Given
  <2>2. disk' \in Docs /\ unseen' \in BOOLEAN /\ owed' \subseteq Entries
    BY <1>1, <2>1, WrittenTyped DEF CoreWritesLate, TypeInv, HeldTyped, FileTyped
  <2> QED BY <1>1, <2>2 DEF CoreWritesLate, TypeInv, WaitsTyped, HeldTyped, FileTyped, UsedTyped, bounds
<1>2. CASE ExternalEdit
  <2>1. PICK i \in DOMAIN disk, t \in Texts : disk' = Reworded(disk, i, t)
    BY <1>2 DEF ExternalEdit, Reworded
  <2>2. disk' \in Docs
    BY <2>1, Rewritten DEF TypeInv, FileTyped
  <2>3. edits' \in 0..MaxEdits /\ UNCHANGED <<presses, timeouts>>
    BY <1>2, StagingAssumption DEF ExternalEdit, TypeInv, UsedTyped
  <2> QED BY <1>2, <2>2, <2>3 DEF ExternalEdit, TypeInv, WaitsTyped, HeldTyped, FileTyped, UsedTyped
<1>3. CASE ChangeSeen
  <2>1. UNCHANGED <<disk, late, bounds>> /\ unseen' = FALSE
    BY <1>3 DEF ChangeSeen
  <2>2. HeldTyped'
    BY <1>3, <1>a, DiscardTyped DEF ChangeSeen, HeldTyped
  <2>3. WaitsTyped'
    <3>1. CASE fresh
      BY <1>3, <3>1 DEF ChangeSeen, TypeInv, WaitsTyped
    <3>2. CASE ~fresh
      <4>1. /\ pc' = [pc EXCEPT ![Draw] = IF pc[Draw] = "idle" THEN "resolve" ELSE pc[Draw]]
            /\ queued' = (queued \/ pc[Draw] # "idle") /\ fresh' = (pc[Draw] = "idle") /\ job' = job
        BY <1>3, <3>2 DEF ChangeSeen
      <4>2. queued' \in BOOLEAN /\ fresh' \in BOOLEAN
        BY <4>1 DEF TypeInv, WaitsTyped
      <4>3. /\ pc' \in [Actors -> Waits \cup {"idle", "resolve"}]
            /\ \A a \in Actors : pc'[a] = pc[a] \/ pc'[a] = "resolve"
        BY <1>a, <4>1 DEF TypeInv, WaitsTyped
      <4> QED BY <4>1, <4>2, <4>3 DEF TypeInv, WaitsTyped, Waits
    <3> QED BY <3>1, <3>2
  <2> QED BY <2>1, <2>2, <2>3 DEF TypeInv, FileTyped, UsedTyped, bounds
<1>4. CASE WindowCloses
  BY <1>4 DEF WindowCloses, TypeInv, WaitsTyped, HeldTyped, FileTyped, UsedTyped, bounds
<1>5. CASE Drawn
  <2>1. FileTyped' /\ UsedTyped'
    BY <1>5, StillTyped DEF Drawn
  <2>2. WaitsTyped' /\ strip' \in Strips
    <3>1. strip \in Strips
      BY <1>a DEF HeldTyped
    <3> QED BY <1>5, <1>a, <3>1, SettleTyped, RefreshTyped DEF Drawn
  <2> QED BY <1>5, <1>a, <2>1, <2>2 DEF Drawn, TypeInv, HeldTyped
<1>6. ASSUME NEW a \in Actors, Refresh(a) PROVE TypeInv'
  <2> DEFINE reply == job[a].reply
  <2>1. pc[a] \in Waits /\ reply # None
    BY <1>6 DEF Refresh, Waits
  <2>2. FileTyped' /\ UsedTyped'
    BY <1>6, StillTyped DEF Refresh
  <2>3. WaitsTyped'
    BY <1>6, <2>1, AnswerTyped, SettleTyped DEF Refresh
  <2>4. HeldTyped'
    <3>1. CASE reply.end = "ok" /\ strip' = Shown(Diff(job[a].wasDisk, reply.doc))
               /\ UNCHANGED <<staged, move, owed>>
      <4>1. Shown(Diff(job[a].wasDisk, reply.doc)) \in Strips
        BY <2>1, <3>1, AnswerTyped, StripsTyped
      <4> QED BY <1>a, <3>1, <4>1 DEF HeldTyped
    <3>2. CASE ReportFailure(reply)
      BY <3>2, FailureTyped
    <3> QED BY <1>6, <3>1, <3>2 DEF Refresh
  <2> QED BY <2>2, <2>3, <2>4 DEF TypeInv
<1>7. CASE UNCHANGED vars
  BY <1>7 DEF vars, TypeInv, WaitsTyped, HeldTyped, FileTyped, UsedTyped, bounds
<1> QED BY <1>1, <1>2, <1>3, <1>4, <1>5, <1>6, <1>7

LEMMA InitTyped ==
  ASSUME Init
  PROVE  TypeInv
<1>1. disk \in Docs
  BY InitLands DEF LandInv
<1>2. <<>> \in Seq(Typed)
  OBVIOUS
<1>3. 0 \in 0..MaxPresses /\ 0 \in 0..MaxEdits /\ 0 \in 0..MaxTimeouts
  BY StagingAssumption
<1> QED
  BY <1>1, <1>2, <1>3, StripsTyped
  DEF Init, TypeInv, WaitsTyped, HeldTyped, FileTyped, UsedTyped, Waits

\* The pane's state keeps its types, for a reader of either kind: whoever acts at once,
\* whatever is lost, and whichever answer comes late, a list that is recorded has a
\* range for each of its entries, and what is waited for is a request.
THEOREM TypeCorrect == Spec => []TypeOK
<1>1. TypeInv /\ [Next]_vars => TypeInv'
  <2> SUFFICES ASSUME TypeInv, [Next]_vars PROVE TypeInv'
    OBVIOUS
  <2> QED BY ReadersTyped, HandlersTyped, CoreTyped, RestTyped DEF Next
<1>2. Init => TypeInv
  BY InitTyped
<1>3. TypeInv => TypeOK
  BY TypeInvTypes
<1> QED BY <1>1, <1>2, <1>3, PTL DEF Spec
-----------------------------------------------------------------------------
(* For any reader: what lands is what was recorded.                        *)

\* An entry as it is staged: with the text its line had when it was previewed.
Viewed == {e \in Typed : HeldOp(e.op)}

\* Lists of those are lists the core can be asked to run.
LEMMA ViewedTyped ==
  ASSUME NEW s \in Seq(Viewed)
  PROVE  /\ s \in Seq(Typed) /\ Len(s) \in Nat /\ DOMAIN s = 1..Len(s)
         /\ \A i \in 1..Len(s) : s[i] \in Viewed
<1>1. Viewed \subseteq Typed
  BY DEF Viewed
<1> QED BY <1>1

\* What a request asks of a line.
Mine(s, k) == {e.op : e \in {x \in ToSet(s) : x.op.key = k}}

\* A run that goes well changes no line but as its entries allow.
LEMMA RunAllowed ==
  ASSUME NEW x \in Docs, NEW s \in Seq(Viewed), Run(x, Ops(s)).end = "ok",
         NEW d \in Diff(x, Run(x, Ops(s)).doc)
  PROVE  Allowed(s, d)
<1> DEFINE n == Len(s)
           ops == Ops(s)
           y == Run(x, ops).doc
<1>1. /\ n \in Nat /\ DOMAIN ops = 1..n
      /\ \A i \in 1..n : IsOp(ops[i]) /\ HeldOp(ops[i]) /\ ops[i] \in Mine(s, ops[i].key)
  <2>1. n \in Nat /\ DOMAIN s = 1..n /\ \A i \in 1..n : s[i] \in Viewed
    BY ViewedTyped
  <2>2. DOMAIN ops = 1..n /\ \A i \in 1..n : ops[i] = s[i].op
    BY <2>1 DEF Ops
  <2> HIDE DEF ops, n
  <2>3. \A i \in 1..n : IsOp(ops[i]) /\ HeldOp(ops[i])
    BY <2>1, <2>2 DEF Viewed, Typed
  <2>4. \A i \in 1..n : s[i] \in ToSet(s)
    BY <2>1 DEF ToSet
  <2> QED BY <2>1, <2>2, <2>3, <2>4 DEF Mine
<1> HIDE DEF n, ops
<1>2. PICK st : Trail(st, x, ops, n) /\ st[n].end = "ok" /\ Run(x, ops) = st[n]
  BY <1>1, RunEnds DEF ops
<1>3. WellRun(x, ops, n, st, n) /\ y = st[n].doc
  BY <1>1, <1>2 DEF WellRun
<1>4. /\ n \in Nat /\ st[0].doc = x
      /\ \A i \in 0..n : st[i].doc \in Docs
      /\ \A j \in 1..n : /\ j \in 0..n /\ j - 1 \in 0..n /\ IsOp(ops[j])
                         /\ TurnDoes(st[j - 1].doc, ops[j], st[j].doc)
  BY <1>3, WellWorks
<1> HIDE DEF y
<1>5. ASSUME NEW k \in Keys, LinesOf(x, k) # LinesOf(y, k)
      PROVE  /\ \E op \in Mine(s, k) : op.expect # None /\ LinesOf(x, k) = <<Line(k, op.expect.text)>>
             /\ \E op \in Mine(s, k) : LinesOf(y, k) = After(op)
  <2> DEFINE From(z) == \E op \in Mine(s, k) : op.expect # None /\ z = <<Line(k, op.expect.text)>>
             To(z)   == \E op \in Mine(s, k) : z = After(op)
             S == {j \in 0..n : \/ LinesOf(st[j].doc, k) = LinesOf(x, k)
                                \/ From(LinesOf(x, k)) /\ To(LinesOf(st[j].doc, k))}
  <2>1. 0 \in S /\ 0 \in 0..n
    BY <1>4
  <2>2. ASSUME NEW j \in (0 + 1)..n, j - 1 \in S PROVE j \in S
    <3>1. j \in 1..n /\ j \in 0..n
      BY <1>4
    <3>2. TurnDoes(st[j - 1].doc, ops[j], st[j].doc) /\ IsOp(ops[j]) /\ HeldOp(ops[j])
          /\ ops[j] \in Mine(s, ops[j].key)
      BY <1>1, <1>4, <3>1
    <3>3. \/ LinesOf(st[j - 1].doc, k) = LinesOf(x, k)
          \/ From(LinesOf(x, k)) /\ To(LinesOf(st[j - 1].doc, k))
      BY <2>2
    <3> HIDE DEF From, To
    <3>4. CASE ops[j].key # k
      <4>1. LinesOf(st[j].doc, k) = LinesOf(st[j - 1].doc, k)
        BY <3>2, <3>4 DEF TurnDoes
      <4> QED BY <3>1, <3>3, <4>1
    <3>5. CASE ops[j].key = k
      <4>1. ops[j].kind # "insert_sequence_entry"
        BY <3>2, <3>5, StagingAssumption DEF IsOp
      <4>2. /\ LinesOf(st[j - 1].doc, k) = <<Line(k, ops[j].expect.text)>>
            /\ LinesOf(st[j].doc, k) = After(ops[j]) /\ ops[j].expect # None
        BY <3>2, <3>5, <4>1 DEF TurnDoes, HeldOp
      <4>3. From(LinesOf(st[j - 1].doc, k)) /\ To(LinesOf(st[j].doc, k))
        BY <3>2, <3>5, <4>2 DEF From, To
      <4> QED BY <3>1, <3>3, <4>3
    <3> QED BY <3>4, <3>5
  <2>3. n \in S
    <3> HIDE DEF S
    <3> QED BY <1>4, <2>1, <2>2, Climb
  <2>4. From(LinesOf(x, k)) /\ To(LinesOf(y, k))
    <3> HIDE DEF From, To
    <3> QED BY <1>3, <1>5, <2>3
  <2> QED BY <2>4
<1>6. ASSUME NEW k \in NewKeys, LinesOf(x, k) # LinesOf(y, k)
      PROVE  Mine(s, k) # {} /\ Len(LinesOf(y, k)) > Len(LinesOf(x, k))
  <2> DEFINE S == {j \in 0..n : \/ LinesOf(st[j].doc, k) = LinesOf(x, k)
                                \/ Mine(s, k) # {} /\ Times(st[j].doc, k) > Times(x, k)}
  <2>a. \A j \in 0..n : Times(st[j].doc, k) \in Nat
    BY <1>4, AtFinite DEF Docs
  <2>1. 0 \in S /\ 0 \in 0..n /\ Times(x, k) \in Nat
    BY <1>4, <2>a
  <2>2. ASSUME NEW j \in (0 + 1)..n, j - 1 \in S PROVE j \in S
    <3>1. j \in 1..n /\ j \in 0..n /\ j - 1 \in 0..n
      BY <1>4
    <3>2. TurnDoes(st[j - 1].doc, ops[j], st[j].doc) /\ IsOp(ops[j])
          /\ ops[j] \in Mine(s, ops[j].key)
      BY <1>1, <1>4, <3>1
    <3>3. \/ LinesOf(st[j - 1].doc, k) = LinesOf(x, k)
          \/ Mine(s, k) # {} /\ Times(st[j - 1].doc, k) > Times(x, k)
      BY <2>2
    <3>4. CASE ops[j].key # k
      <4>1. LinesOf(st[j].doc, k) = LinesOf(st[j - 1].doc, k)
        BY <3>2, <3>4 DEF TurnDoes
      <4>2. Times(st[j].doc, k) = Times(st[j - 1].doc, k)
        BY <1>4, <3>1, <4>1, SameTimes
      <4> QED BY <3>1, <3>3, <4>1, <4>2
    <3>5. CASE ops[j].key = k
      <4>1. ops[j].kind = "insert_sequence_entry"
        BY <3>2, <3>5, StagingAssumption DEF IsOp, Kinds
      <4>2. Times(st[j].doc, k) = Times(st[j - 1].doc, k) + 1
        BY <3>2, <3>5, <4>1 DEF TurnDoes
      <4>3. Times(st[j - 1].doc, k) >= Times(x, k)
        <5>1. CASE LinesOf(st[j - 1].doc, k) = LinesOf(x, k)
          BY <1>4, <2>1, <3>1, <5>1, SameTimes
        <5>2. CASE Times(st[j - 1].doc, k) > Times(x, k)
          BY <2>a, <2>1, <3>1, <5>2
        <5> QED BY <3>3, <5>1, <5>2
      <4>4. Times(st[j].doc, k) > Times(x, k)
        BY <2>a, <2>1, <3>1, <4>2, <4>3
      <4> QED BY <3>1, <3>2, <3>5, <4>4
    <3> QED BY <3>4, <3>5
  <2>3. n \in S
    <3> HIDE DEF S
    <3> QED BY <1>4, <2>1, <2>2, Climb
  <2>4. Mine(s, k) # {} /\ Times(y, k) > Times(x, k)
    BY <1>3, <1>6, <2>3
  <2>5. y \in Docs /\ Times(y, k) \in Nat
    BY <1>3, <1>4, <2>a
  <2>6. Len(LinesOf(y, k)) = Times(y, k) /\ Len(LinesOf(x, k)) = Times(x, k)
    <3>1. \A e : Times(e, k) \in Nat => Len(LinesOf(e, k)) = Times(e, k)
      BY LinesAre
    <3> QED BY <2>1, <2>5, <3>1
  <2> QED BY <2>4, <2>6
<1>7. PICK k : LinesOf(x, k) # LinesOf(y, k) /\ d = <<k, LinesOf(x, k), LinesOf(y, k)>>
  BY DEF Diff, y, ops
<1>8. k \in Keys \cup NewKeys
  <2>1. Keyed(Diff(x, y))
    BY <1>3, <1>4, DiffKeyed
  <2> QED BY <1>7, <2>1 DEF Keyed, y, ops
<1>9. d[1] = k /\ d[2] = LinesOf(x, k) /\ d[3] = LinesOf(y, k)
  BY <1>7
<1>10. CASE k \in NewKeys
  BY <1>6, <1>7, <1>9, <1>10 DEF Allowed, Mine
<1>11. CASE k \in Keys
  <2>1. k \notin NewKeys
    BY <1>11, StagingAssumption
  <2> QED BY <1>5, <1>7, <1>9, <1>11, <2>1 DEF Allowed, Mine
<1> QED BY <1>8, <1>10, <1>11

\* A preview's answer says what each of its lines reads.
Named(j) == \A i \in 1..Len(j.entries) :
              j.entries[i].op.kind # "insert_sequence_entry" => j.reply.ranges[i].text # None

\* A request to write is of entries that were previewed, and an answered preview
\* says what they are to be recorded with.
JobSeen(p, j) ==
  /\ p \in {"apply", "applyMove"} => j.entries \in Seq(Viewed)
  /\ p \in {"preview", "extract"} /\ j.reply # None /\ j.reply.end = "ok" => Named(j)

JobsSeen == \A a \in Actors : JobSeen(pc[a], job[a])
HeldSeen == staged \in Seq(Viewed) /\ (move # None => move.entry \in Viewed)
LateSeen == late # None => late.entries \in Seq(Viewed)
SeenInv  == JobsSeen /\ HeldSeen /\ LateSeen

\* What a stretch that ends leaves of the requests,
LEMMA AskSeen ==
  ASSUME TypeInv, JobsSeen, NEW a \in Actors, NEW wait, NEW s, NEW redraw, Ask(a, wait, s, redraw),
         wait \in {"apply", "applyMove"} => s \in Seq(Viewed)
  PROVE  JobsSeen'
<1> DEFINE j == [entries |-> s, redraw |-> redraw, reply |-> None, shown |-> strip.diff, wasDisk |-> disk]
<1>1. pc' = [pc EXCEPT ![a] = wait] /\ job' = [job EXCEPT ![a] = j] /\ j.entries = s /\ j.reply = None
  BY DEF Ask
<1> HIDE DEF j
<1>2. JobSeen(wait, j)
  BY <1>1 DEF JobSeen
<1>3. pc'[a] = wait /\ job'[a] = j /\ \A b \in Actors : b # a => pc'[b] = pc[b] /\ job'[b] = job[b]
  BY <1>1 DEF TypeInv, WaitsTyped
<1> QED BY <1>2, <1>3 DEF JobsSeen

LEMMA SettleSeen ==
  ASSUME TypeInv, JobsSeen, NEW a \in Actors, NEW redraw, Settle(a, redraw)
  PROVE  JobsSeen'
<1> DEFINE wanted == redraw \/ (a = Draw /\ queued)
           busy   == a # Draw /\ pc[Draw] # "idle"
           then   == IF wanted /\ ~busy THEN "resolve" ELSE IF a = Draw THEN "idle" ELSE pc[Draw]
<1>1. pc' = [pc EXCEPT ![a] = "idle", ![Draw] = then] /\ job' = [job EXCEPT ![a] = None]
  BY DEF Settle
<1>2. then \in {"resolve", "idle"} \/ (a # Draw /\ then = pc[Draw])
  OBVIOUS
<1> HIDE DEF then
<1>3. ASSUME NEW b \in Actors
      PROVE  pc'[b] \in {"idle", "resolve"} \/ (pc'[b] = pc[b] /\ job'[b] = job[b])
  BY <1>1, <1>2 DEF TypeInv, WaitsTyped
<1>4. \A j : JobSeen("idle", j) /\ JobSeen("resolve", j)
  BY DEF JobSeen
<1> QED BY <1>3, <1>4 DEF JobsSeen

LEMMA RefreshSeen ==
  ASSUME TypeInv, JobsSeen, NEW a \in Actors, NEW s, NEW mv, NEW redraw,
         RefreshPending(a, s, mv, redraw)
  PROVE  JobsSeen'
BY AskSeen, SettleSeen DEF RefreshPending

\* and of what is held.
LEMMA DiscardSeen ==
  ASSUME HeldSeen, NEW reply, Discard(TRUE) \/ Discard(FALSE) \/ ReportFailure(reply)
  PROVE  HeldSeen'
<1>1. <<>> \in Seq(Viewed)
  OBVIOUS
<1>2. (staged' = <<>> /\ move' = None) \/ UNCHANGED <<staged, move>>
  BY DEF Discard, ReportFailure
<1> QED BY <1>1, <1>2 DEF HeldSeen

\* What is recorded has the text its line had.
LEMMA RecordSeen ==
  ASSUME TypeInv, JobsSeen, NEW a \in Actors, pc[a] \in {"preview", "extract"},
         job[a].reply # None, job[a].reply.end = "ok"
  PROVE  /\ Record(job[a].entries, job[a].reply) \in Seq(Viewed)
         /\ Len(Record(job[a].entries, job[a].reply)) = Len(job[a].entries)
<1> DEFINE j == job[a]
           s == j.entries
           t == Record(s, j.reply)
<1>1. t \in Seq(Typed) /\ Len(t) = Len(s) /\ s \in Seq(Typed)
  BY AnswerTyped DEF Waits
<1>2. Named(j)
  BY DEF JobsSeen, JobSeen
<1>3. j.reply.ranges \in Seq(Expects) /\ Len(j.reply.ranges) = Len(s)
  <2>1. j \in Given
    BY DEF TypeInv, WaitsTyped, Waits
  <2> HIDE DEF j
  <2> QED BY <2>1 DEF Given, Jobs, Replies, j
<1>4. Len(s) \in Nat /\ DOMAIN s = 1..Len(s) /\ \A i \in 1..Len(s) : s[i] \in Typed
  BY <1>1, TypedAsked
<1>5. \A i \in 1..Len(s) : t[i] = [s[i] EXCEPT !.op.expect = j.reply.ranges[i]]
  BY <1>4 DEF Record
<1> HIDE DEF t
<1>6. ASSUME NEW i \in 1..Len(s) PROVE HeldOp(t[i].op)
  <2> DEFINE r == j.reply.ranges[i]
             e == s[i]
  <2>1. r \in Expects
    BY <1>3
  <2>2. r # None
    BY <2>1, EditRunAssumption DEF Expects
  <2>3. e.op.kind # "insert_sequence_entry" => r.text # None
    BY <1>2 DEF Named
  <2>4. e \in Typed /\ t[i] = [e EXCEPT !.op.expect = r]
    BY <1>4, <1>5
  <2> HIDE DEF r, e
  <2>5. t[i].op.kind = e.op.kind /\ t[i].op.expect = r
    BY <2>4 DEF Typed, Entries, HeldOps
  <2> QED BY <2>2, <2>3, <2>5 DEF HeldOp
<1>7. \A i \in 1..Len(t) : t[i] \in Viewed
  <2>1. \A i \in 1..Len(t) : t[i] \in Typed
    BY <1>1
  <2> QED BY <1>1, <1>6, <2>1 DEF Viewed
<1>8. t \in Seq(Viewed)
  BY <1>1, <1>7
<1> QED BY <1>1, <1>8 DEF t

\* What a reader does keeps it,
LEMMA ReaderSees ==
  ASSUME TypeInv, SeenInv, NEW h \in Handlers, ReaderStep(h)
  PROVE  SeenInv'
<1>a. h \in Actors /\ JobsSeen /\ HeldSeen /\ LateSeen
  BY DEF Actors, SeenInv
<1>b. Press(h) => LateSeen'
  BY <1>a DEF Press, LateSeen
<1>1. ASSUME NEW op \in EditOps, Stage(h, op) PROVE SeenInv'
  BY <1>a, <1>b, <1>1, AskSeen DEF Stage, SeenInv, HeldSeen
<1>2. ASSUME NEW k, Unstage(h, k) PROVE SeenInv'
  <2>1. Press(h) /\ staged' = Without(staged, k) /\ UNCHANGED move
        /\ RefreshPending(h, Without(staged, k), move, TRUE)
    BY <1>2 DEF Unstage
  <2>2. Without(staged, k) \in Seq(Viewed)
    BY <1>a, RemoveWorks DEF HeldSeen
  <2>3. HeldSeen'
    BY <1>a, <2>1, <2>2 DEF HeldSeen
  <2>4. JobsSeen'
    BY <1>a, <2>1, RefreshSeen
  <2> QED BY <1>b, <2>1, <2>3, <2>4 DEF SeenInv
<1>3. CASE DiscardAll(h)
  BY <1>a, <1>b, <1>3, SettleSeen, DiscardSeen DEF DiscardAll, SeenInv
<1>4. CASE Save(h)
  <2>1. Press(h) /\ UNCHANGED <<staged, move>>
    BY <1>4 DEF Save
  <2>2. JobsSeen'
    <3>1. CASE move # None /\ Ask(h, "applyMove", <<move.entry>>, TRUE)
      <4>1. <<move.entry>> \in Seq(Viewed)
        BY <1>a, <3>1 DEF HeldSeen
      <4> QED BY <1>a, <3>1, <4>1, AskSeen
    <3>2. CASE Ask(h, "apply", staged, TRUE)
      BY <1>a, <3>2, AskSeen DEF HeldSeen
    <3> QED BY <1>4, <3>1, <3>2 DEF Save
  <2> QED BY <1>a, <1>b, <2>1, <2>2 DEF SeenInv, HeldSeen
<1>5. ASSUME NEW op, StageMove(h, op) PROVE SeenInv'
  BY <1>a, <1>b, <1>5, AskSeen DEF StageMove, SeenInv, HeldSeen
<1> QED BY <1>1, <1>2, <1>3, <1>4, <1>5 DEF ReaderStep

\* what a handler does with an answer,
LEMMA HandlerSees ==
  ASSUME TypeInv, SeenInv, NEW h \in Handlers, HandlerStep(h)
  PROVE  SeenInv'
<1>a. h \in Actors /\ JobsSeen /\ HeldSeen /\ LateSeen
  BY DEF Actors, SeenInv
<1>b. LateSeen'
  BY <1>a DEF HandlerStep, Preview, Extract, Applied, MoveApplied, LateSeen
<1>c. ASSUME ReportFailure(job[h].reply), Settle(h, FALSE) PROVE SeenInv'
  BY <1>a, <1>b, <1>c, SettleSeen, DiscardSeen DEF SeenInv
<1>1. CASE Preview(h)
  <2> DEFINE list == Record(job[h].entries, job[h].reply)
             all  == SetAll(staged, list)
  <2>1. CASE /\ job[h].reply.end = "ok" /\ staged' = all /\ move' = move
             /\ RefreshPending(h, all, move, FALSE)
    <3>1. list \in Seq(Viewed)
      BY <1>a, <1>1, <2>1, RecordSeen DEF Preview
    <3> HIDE DEF list
    <3>2. all \in Seq(Viewed)
      BY <1>a, <3>1, SetAllIn DEF HeldSeen
    <3> HIDE DEF all
    <3>3. HeldSeen'
      BY <1>a, <2>1, <3>2 DEF HeldSeen
    <3>4. JobsSeen'
      BY <1>a, <2>1, RefreshSeen
    <3> QED BY <1>b, <3>3, <3>4 DEF SeenInv
  <2> QED BY <1>1, <1>c, <2>1 DEF Preview
<1>2. CASE Extract(h)
  <2> DEFINE list == Record(job[h].entries, job[h].reply)
             held == [list[1] EXCEPT !.key = <<"move", @[2], None>>]
             mv   == [entry |-> held, diff |-> Diff(job[h].wasDisk, job[h].reply.doc)]
  <2>1. CASE /\ job[h].reply.end = "ok" /\ move' = mv /\ staged' = staged
             /\ RefreshPending(h, staged, mv, FALSE)
    <3>1. list \in Seq(Viewed) /\ Len(list) = 1
      BY <1>a, <1>2, <2>1, RecordSeen DEF Extract, TypeInv, WaitsTyped
    <3>2. HeldOp(list[1].op) /\ list[1] \in Typed
      BY <3>1, ViewedTyped DEF Viewed
    <3> DEFINE e == list[1]
    <3>3. e \in Typed /\ HeldOp(e.op) /\ held = [e EXCEPT !.key = <<"move", @[2], None>>]
      BY <3>2
    <3> HIDE DEF e, held
    <3>4. held.op = e.op
      BY <3>3 DEF Typed, Entries
    <3>5. TypeInv'
      BY <1>2, HandlersTyped DEF HandlerStep
    <3>6. move'.entry = held
      BY <2>1
    <3>7. move' # None => held \in Viewed
      <4>1. move' # None => move' \in Held
        BY <3>5 DEF TypeInv, HeldTyped
      <4>2. move' # None => held \in Typed
        BY <3>6, <4>1 DEF Held
      <4> QED BY <3>3, <3>4, <4>2 DEF Viewed
    <3> HIDE DEF list
    <3>8. HeldSeen'
      BY <1>a, <2>1, <3>6, <3>7 DEF HeldSeen
    <3>9. JobsSeen'
      BY <1>a, <2>1, RefreshSeen
    <3> QED BY <1>b, <3>8, <3>9 DEF SeenInv
  <2> QED BY <1>2, <1>c, <2>1 DEF Extract
<1>3. CASE Applied(h) \/ MoveApplied(h)
  <2>1. Settle(h, TRUE) \/ Settle(h, FALSE)
    BY <1>3 DEF Applied, MoveApplied
  <2>2. \/ Discard(TRUE)
        \/ /\ staged' = <<>> \/ staged' = staged
           /\ move' = None \/ move' = move
    BY <1>3 DEF Applied, MoveApplied, Spend
  <2>3. <<>> \in Seq(Viewed)
    OBVIOUS
  <2>4. HeldSeen'
    BY <1>a, <2>2, <2>3, DiscardSeen DEF HeldSeen
  <2> QED BY <1>a, <1>b, <2>1, <2>4, SettleSeen DEF SeenInv
<1> QED BY <1>1, <1>2, <1>3 DEF HandlerStep

\* the answers of the core,
LEMMA CoreSees ==
  ASSUME TypeInv, SeenInv, NEW a \in Actors, CoreReads(a) \/ CoreWrites(a) \/ Timeout(a)
  PROVE  SeenInv'
<1>a. JobsSeen /\ HeldSeen /\ LateSeen /\ pc[a] \in Waits /\ job[a] \in Given /\ disk \in Docs
  BY DEF SeenInv, CoreReads, CoreWrites, Timeout, Pending, TypeInv, WaitsTyped, FileTyped
<1>b. HeldSeen' /\ pc' = pc
  BY <1>a DEF CoreReads, CoreWrites, Timeout, HeldSeen
<1>c. job[a].entries \in Seq(Typed)
  BY <1>a DEF Given
<1> DEFINE j == job'[a]
<1>1. /\ \A b \in Actors : b # a => job'[b] = job[b]
      /\ j.entries = job[a].entries
      /\ j.reply \in {Run(disk, Ops(job[a].entries)), Failed}
  <2> DEFINE k == job[a]
  <2>1. \A b \in Actors : b # a => job'[b] = job[b]
    BY DEF CoreReads, CoreWrites, Timeout, TypeInv, WaitsTyped
  <2>2. \/ job'[a] = [k EXCEPT !.reply = Run(disk, Ops(k.entries)), !.wasDisk = disk]
        \/ job'[a] = [k EXCEPT !.reply = Run(disk, Ops(k.entries))]
        \/ job'[a] = [k EXCEPT !.reply = Failed]
    BY DEF CoreReads, CoreWrites, Timeout, TypeInv, WaitsTyped
  <2>3. k \in Given
    BY <1>a
  <2> HIDE DEF k
  <2>4. j.entries = k.entries /\ j.reply \in {Run(disk, Ops(k.entries)), Failed}
    BY <2>2, <2>3 DEF Given, Jobs
  <2> QED BY <2>1, <2>4 DEF k
<1>2. j.reply.end = "ok" => Named(j)
  <2> SUFFICES ASSUME j.reply.end = "ok" PROVE Named(j)
    OBVIOUS
  <2>1. j.reply = Run(disk, Ops(job[a].entries))
    BY <1>1 DEF Failed
  <2>2. AskList(job[a].entries)
    BY <1>c, TypedAsked
  <2>3. \A i \in 1..Len(job[a].entries) :
          job[a].entries[i].op.kind # "insert_sequence_entry" => j.reply.ranges[i].text \in Texts
    BY <1>a, <2>1, <2>2, RunRanges
  <2> HIDE DEF j
  <2> QED BY <1>1, <2>3, EditRunAssumption DEF Named
<1> HIDE DEF j
<1>3. JobSeen(pc[a], j)
  BY <1>a, <1>1, <1>2 DEF JobsSeen, JobSeen
<1>4. JobsSeen'
  BY <1>a, <1>b, <1>1, <1>3 DEF JobsSeen, j
<1>5. LateSeen'
  <2>1. late' = late \/ late' = None \/ (late' = job[a] /\ Writes(a))
    BY DEF CoreReads, CoreWrites, Timeout
  <2>2. Writes(a) => job[a].entries \in Seq(Viewed)
    BY <1>a DEF JobsSeen, JobSeen, Writes
  <2> QED BY <1>a, <2>1, <2>2 DEF LateSeen
<1> QED BY <1>b, <1>4, <1>5 DEF SeenInv

\* and what happens to the file and the redraw.
LEMMA RestSees ==
  ASSUME TypeInv, SeenInv, CoreWritesLate \/ ExternalEdit \/ ChangeSeen \/ WindowCloses \/ Drawn
                           \/ (\E a \in Actors : Refresh(a)) \/ UNCHANGED vars
  PROVE  SeenInv'
<1>a. JobsSeen /\ HeldSeen /\ LateSeen /\ Draw \in Actors
  BY DEF SeenInv, Actors
<1>1. CASE CoreWritesLate \/ ExternalEdit \/ WindowCloses \/ UNCHANGED vars
  <2>1. UNCHANGED <<pc, job, staged, move>> /\ (late' = late \/ late' = None)
    BY <1>1 DEF CoreWritesLate, ExternalEdit, WindowCloses, vars
  <2> QED BY <1>a, <2>1 DEF SeenInv, JobsSeen, HeldSeen, LateSeen
<1>2. CASE ChangeSeen
  <2>1. UNCHANGED <<late, job>>
    BY <1>2 DEF ChangeSeen
  <2>2. HeldSeen'
    BY <1>2, <1>a, DiscardSeen DEF ChangeSeen, HeldSeen
  <2>3. \A a \in Actors : pc'[a] = pc[a] \/ pc'[a] = "resolve"
    BY <1>2, <1>a DEF ChangeSeen, TypeInv, WaitsTyped
  <2>4. \A j : JobSeen("resolve", j)
    BY DEF JobSeen
  <2>5. JobsSeen'
    BY <1>a, <2>1, <2>3, <2>4 DEF JobsSeen
  <2> QED BY <1>a, <2>1, <2>2, <2>5 DEF SeenInv, LateSeen
<1>3. CASE Drawn
  <2>1. JobsSeen'
    BY <1>a, <1>3, SettleSeen, RefreshSeen DEF Drawn
  <2> QED BY <1>a, <1>3, <2>1 DEF Drawn, SeenInv, HeldSeen, LateSeen
<1>4. ASSUME NEW a \in Actors, Refresh(a) PROVE SeenInv'
  <2>1. JobsSeen'
    BY <1>a, <1>4, SettleSeen DEF Refresh
  <2>2. HeldSeen' /\ LateSeen'
    BY <1>a, <1>4, DiscardSeen DEF Refresh, HeldSeen, LateSeen
  <2> QED BY <2>1, <2>2 DEF SeenInv
<1> QED BY <1>1, <1>2, <1>3, <1>4

LEMMA InitSees ==
  ASSUME Init
  PROVE  SeenInv
<1>1. <<>> \in Seq(Viewed)
  OBVIOUS
<1>2. \A j : JobSeen("idle", j)
  BY DEF JobSeen
<1> QED BY <1>1, <1>2 DEF Init, SeenInv, JobsSeen, HeldSeen, LateSeen

\* So a write of the core changes the file as its request was recorded.
LEMMA WritesAsRecorded ==
  ASSUME TypeInv, SeenInv, disk' # disk, edits' = edits, [Next]_vars
  PROVE  \/ late # None /\ late' = None /\ AsRecorded(late.entries)
         \/ \E a \in Actors : Writes(a) /\ Pending(a) /\ AsRecorded(job[a].entries)
<1>a. ASSUME NEW s \in Seq(Viewed), Written(s) PROVE AsRecorded(s)
  <2>1. Run(disk, Ops(s)).end = "ok" /\ disk' = Run(disk, Ops(s)).doc /\ disk \in Docs
    BY <1>a DEF Written, TypeInv, FileTyped
  <2> QED BY <2>1, RunAllowed DEF AsRecorded
<1>1. ASSUME NEW a \in Actors, CoreWrites(a)
      PROVE  Writes(a) /\ Pending(a) /\ AsRecorded(job[a].entries)
  <2>1. Writes(a) /\ Pending(a) /\ Written(job[a].entries)
    BY <1>1 DEF CoreWrites
  <2>2. job[a].entries \in Seq(Viewed)
    BY <2>1 DEF SeenInv, JobsSeen, JobSeen, Writes
  <2> QED BY <1>a, <2>1, <2>2
<1>2. CASE CoreWritesLate
  <2>1. late # None /\ late' = None /\ Written(late.entries)
    BY <1>2 DEF CoreWritesLate
  <2> QED BY <1>a, <2>1 DEF SeenInv, LateSeen
<1>3. CASE ExternalEdit
  <2>1. edits' = edits + 1 /\ edits \in Nat
    BY <1>3, StagingAssumption DEF ExternalEdit, TypeInv, UsedTyped
  <2> QED BY <2>1
<1>4. ASSUME NEW h \in Handlers, ReaderStep(h) \/ HandlerStep(h) PROVE FALSE
  <2>1. UNCHANGED disk
    BY <1>4 DEF ReaderStep, Stage, Unstage, DiscardAll, Save, StageMove, Press,
                HandlerStep, Preview, Extract, Applied, MoveApplied
  <2> QED BY <2>1
<1>5. ASSUME NEW a \in Actors, Refresh(a) \/ CoreReads(a) \/ Timeout(a) PROVE FALSE
  BY <1>5 DEF Refresh, CoreReads, Timeout
<1>6. CASE ChangeSeen \/ WindowCloses \/ Drawn \/ UNCHANGED vars
  BY <1>6 DEF ChangeSeen, WindowCloses, Drawn, vars
<1> QED BY <1>1, <1>2, <1>3, <1>4, <1>5, <1>6 DEF Next

\* Whoever presses what while anything is in flight, whatever is lost and however late
\* a write lands: the core rewrites or removes a line only from the text it had when that
\* change was previewed, and only to what was asked.
THEOREM AnyReaderLands == Spec => LandsAsRecorded
<1>1. TypeInv /\ SeenInv /\ [Next]_vars => (TypeInv /\ SeenInv)'
  <2> SUFFICES ASSUME TypeInv, SeenInv, [Next]_vars PROVE TypeInv' /\ SeenInv'
    OBVIOUS
  <2>1. TypeInv'
    BY ReadersTyped, HandlersTyped, CoreTyped, RestTyped DEF Next
  <2>2. SeenInv'
    BY ReaderSees, HandlerSees, CoreSees, RestSees DEF Next
  <2> QED BY <2>1, <2>2
<1>2. Init => TypeInv /\ SeenInv
  BY InitTyped, InitSees
<1>3. TypeInv /\ SeenInv /\ [Next]_vars
        => (disk' # disk /\ edits' = edits
              => \/ late # None /\ late' = None /\ AsRecorded(late.entries)
                 \/ \E a \in Actors : Writes(a) /\ Pending(a) /\ AsRecorded(job[a].entries))
  BY WritesAsRecorded
<1> QED BY <1>1, <1>2, <1>3, PTL DEF Spec, LandsAsRecorded
=============================================================================
