----------------------------- MODULE Condensation -----------------------------
(***************************************************************************)
(* What the layering of a dependency graph promises: its strongly          *)
(* connected components come out whole, one by one, each once, and none    *)
(* before a component it depends on.                                       *)
(***************************************************************************)
EXTENDS Naturals, Sequences, FiniteSets

CONSTANT Size        \* the most nodes a graph has

VARIABLES adj,       \* the graph: what each of its nodes depends on
          emitted    \* its components, in the order they came out

vars == <<adj, emitted>>

Node == DOMAIN adj

(* The nodes reached from a set of them in any number of steps.            *)
Successors(S) == S \cup UNION {adj[n] : n \in S}
ReachedIn[k \in Nat] ==
  [n \in Node |-> IF k = 0 THEN {n} ELSE Successors(ReachedIn[k - 1][n])]
Reached == ReachedIn[Cardinality(Node)]

Component(n)  == {m \in Reached[n] : n \in Reached[m]}
Components    == {Component(n) : n \in Node}

Out == {emitted[i] : i \in DOMAIN emitted}
Ready(c) == /\ c \notin Out
            /\ \A d \in Components : (d # c /\ \E n \in c : adj[n] \cap d # {}) => d \in Out

Init == adj = <<>> /\ emitted = <<>>

(* A graph is handed in, and everything said of the last one is forgotten. *)
Given == /\ \E n \in 0..Size : adj' \in [1..n -> SUBSET (1..n)]
         /\ emitted' = <<>>

Emit(c) == /\ Ready(c)
           /\ emitted' = Append(emitted, c)
           /\ UNCHANGED adj

EmitAny == \E c \in Components : Emit(c)

(* Every component comes out, unless another graph is handed in first.     *)
Spec == Init /\ [][Given \/ EmitAny]_vars /\ WF_vars(EmitAny)
=============================================================================
