------------------------------ MODULE Components ------------------------------
(***************************************************************************)
(* stronglyConnected (internal/topology/layer.go): Tarjan's algorithm with *)
(* its own stack of frames instead of recursion, one turn of the inner     *)
(* loop a step; then the layer of each node, the longest dependency path   *)
(* under its component.                                                    *)
(*                                                                         *)
(* Nodes are numbered from 1; a node's targets are visited in ascending    *)
(* order, as buildDependsAdjacency sorts them.  index 0 stands for the     *)
(* code's -1.                                                              *)
(***************************************************************************)
EXTENDS Naturals, Sequences, FiniteSets, SequencesExt, FiniteSetsExt

CONSTANT Size          \* the most nodes a graph has: the bound on the input

VARIABLES adj,         \* dependsOut
          index, low, onStack, comp,
          stack, next, root,
          work,        \* the frames: the node and its targets not yet visited
          components   \* in the order they are found

vars == <<adj, index, low, onStack, comp, stack, next, root, work, components>>

Node     == DOMAIN adj
Frame(n) == [node |-> n, left |-> adj[n]]

Init == /\ adj = <<>> /\ index = <<>> /\ low = <<>> /\ comp = <<>> /\ onStack = <<>>
        /\ stack = <<>> /\ work = <<>> /\ components = <<>>
        /\ next = 1 /\ root = 1

Done == work = <<>> /\ root \notin Node

(* stronglyConnected is called with a graph: nothing of an earlier call is *)
(* left.                                                                   *)
Given(a) == /\ Done
            /\ adj' = a
            /\ index' = [n \in DOMAIN a |-> 0] /\ low' = index' /\ comp' = index'
            /\ onStack' = [n \in DOMAIN a |-> FALSE]
            /\ stack' = <<>> /\ work' = <<>> /\ components' = <<>>
            /\ next' = 1 /\ root' = 1

(* A node is numbered, stacked and given a frame.                          *)
Enter(n) == /\ index' = [index EXCEPT ![n] = next]
            /\ next' = next + 1
            /\ stack' = <<n>> \o stack
            /\ onStack' = [onStack EXCEPT ![n] = TRUE]

(* The outer loop: the next root, or past it when it has been numbered.    *)
Root == /\ work = <<>> /\ root \in Node
        /\ root' = root + 1
        /\ IF index[root] = 0
           THEN /\ Enter(root)
                /\ low' = [low EXCEPT ![root] = next]
                /\ work' = <<Frame(root)>>
           ELSE UNCHANGED <<index, low, next, stack, onStack, work>>
        /\ UNCHANGED <<adj, comp, components>>

Top  == work[1]
Min2(a, b) == IF a < b THEN a ELSE b

(* A target of the top frame: entered, or a way back up the stack.         *)
Visit == /\ work # <<>> /\ Top.left # {}
         /\ LET w    == Min(Top.left)
                rest == [work EXCEPT ![1].left = @ \ {w}]
            IN IF index[w] = 0
               THEN /\ Enter(w)
                    /\ low' = [low EXCEPT ![w] = next]
                    /\ work' = <<Frame(w)>> \o rest
               ELSE /\ low' = [low EXCEPT ![Top.node] = IF onStack[w] THEN Min2(@, index[w]) ELSE @]
                    /\ work' = rest
                    /\ UNCHANGED <<index, next, stack, onStack>>
         /\ UNCHANGED <<adj, comp, root, components>>

(* The frame is done: a root of a component takes all above it off the     *)
(* stack, and the frame below hears how far up this one reached.           *)
TopAlone(v) == {stack[1]}
Above(v) == {stack[i] : i \in 1..SelectInSeq(stack, LAMBDA n : n = v)}
Leave == /\ work # <<>> /\ Top.left = {}
         /\ LET v     == Top.node
                below == Tail(work)
                found == low[v] = index[v]
                members == Above(v)
            IN /\ work' = below
               /\ low' = IF below = <<>> THEN low
                         ELSE [low EXCEPT ![below[1].node] = Min2(@, low[v])]
               /\ IF found
                  THEN /\ components' = Append(components, members)
                       /\ comp' = [n \in Node |-> IF n \in members
                                                  THEN Len(components) + 1 ELSE comp[n]]
                       /\ onStack' = [n \in Node |-> onStack[n] /\ n \notin members]
                       /\ stack' = SubSeq(stack, Cardinality(members) + 1, Len(stack))
                  ELSE UNCHANGED <<components, comp, onStack, stack>>
         /\ UNCHANGED <<adj, index, next, root>>

Turn == Root \/ Visit \/ Leave
Next == Turn \/ \E n \in 0..Size : \E a \in [1..n -> SUBSET (1..n)] : Given(a)
Spec == Init /\ [][Next]_vars /\ WF_vars(Turn)

-----------------------------------------------------------------------------
(* assignLayers: the components come out dependencies first, so a layer    *)
(* needs only the ones before it.                                          *)
OutOfOne(c) == {comp[m] : m \in adj[Min(components[c])]} \ {c}
CompOut(c) == {comp[m] : m \in UNION {adj[n] : n \in components[c]}} \ {c}
LayerOf[c \in Nat] ==
  IF c \notin DOMAIN components THEN 0
  ELSE Max({0} \cup {LayerOf[d] + 1 : d \in {e \in CompOut(c) : e < c}})
Layer == [n \in Node |-> LayerOf[comp[n]]]

(* The components a service waits on itself through.                       *)
Cycles == {c \in Range(components) : Cardinality(c) > 1 \/ \E n \in c : n \in adj[n]}

-----------------------------------------------------------------------------
(* Correctness.                                                            *)

TypeOK == /\ \E n \in 0..Size : adj \in [1..n -> SUBSET (1..n)]
          /\ index \in [Node -> Nat] /\ low \in [Node -> Nat]
          /\ comp \in [Node -> Nat] /\ onStack \in [Node -> BOOLEAN]
          /\ stack \in Seq(Node) /\ next \in Nat /\ root \in Nat
          /\ work \in Seq([node : Node, left : SUBSET Node])
          /\ components \in Seq(SUBSET Node)

Promise == INSTANCE Condensation WITH emitted <- components

(* stronglyConnected finds exactly the strongly connected components, each *)
(* once and after all it depends on: it implements the abstract layering,  *)
(* its termination included.                                               *)
Condenses == Promise!Spec

(* The layer of a service is the length of its longest chain of            *)
(* dependencies between different components: every dependency outside its *)
(* own component is on a lower layer and, unless it is on layer 0, one is  *)
(* exactly one lower than its component.                                   *)
LayersOrder ==
  Done => \A n \in Node :
            /\ \A m \in adj[n] : m \in components[comp[n]] \/ Layer[m] < Layer[n]
            /\ Layer[n] > 0 => \E k \in components[comp[n]] : \E m \in adj[k] :
                                 Layer[m] + 1 = Layer[n]
=============================================================================
