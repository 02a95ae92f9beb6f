---------------------------- MODULE ComposeValues ----------------------------
(***************************************************************************)
(* The values of a compose document and of the model resolved from it      *)
(* (internal/resolve: model.go, origin.go, path.go).                       *)
(*                                                                         *)
(* A NODE is what a file writes; a VALUE is what conversion makes of it:   *)
(* the same shape with its origin and the history of what it displaced.    *)
(* The text of a scalar is the tuple of its parts, split at the separators *)
(* the merge and the topology split at: "A=1" is <<"A","1">>, "8080:80"    *)
(* is <<"8080","80">>.  A mapping is a function: the order of its keys is  *)
(* abstracted, and whatever depends on it is left to choose any order.     *)
(***************************************************************************)
EXTENDS Naturals, Sequences, SequencesExt, FiniteSets, FiniteSetsExt, Functions, TLC

Empty == [k \in {} |-> k]

(* A node as written.  `from` is the place of the anchor when the node is  *)
(* an alias to it, `flow` a collection written on one line.                *)
Node == [kind |-> "null", text |-> <<>>, items |-> <<>>, keys |-> Empty,
         tag |-> "none", from |-> <<>>, flow |-> FALSE]

Str(t)    == [Node EXCEPT !.kind = "scalar", !.text = t]
Word(w)   == Str(<<w>>)
Var(n)    == [Node EXCEPT !.kind = "var", !.text = <<n, "">>]
VarOp(n, op, arg) ==
  [Node EXCEPT !.kind = "var", !.text = <<n, op>>, !.items = <<arg>>]
List(s)   == [Node EXCEPT !.kind = "seq", !.items = s]
Map(f)    == [Node EXCEPT !.kind = "map", !.keys = f]
Words(s)  == List([i \in DOMAIN s |-> Word(s[i])])
Reset     == [Node EXCEPT !.tag = "reset"]
Override(n)     == [n EXCEPT !.tag = "override"]
AliasOf(n, at)  == [n EXCEPT !.from = at]
Flow(n)         == [n EXCEPT !.flow = TRUE]

NoOrigin == [file |-> <<>>, step |-> 0, at |-> <<>>]
Origin(f, s, at) == [file |-> f, step |-> s, at |-> at]

(* A value.  `at` holds where each key was written, `raw` the text before  *)
(* interpolation, `past` what the value displaced, oldest first.           *)
Value(kind, o) ==
  [kind |-> kind, text |-> <<>>, raw |-> <<>>, items |-> <<>>,
   keys |-> Empty, at |-> Empty, org |-> o, tag |-> "none", past |-> <<>>]
Absent == Value("absent", NoOrigin)

(* A path is a tuple of keys and of indices, all of them strings.          *)
Index(i) == ToString(i - 1)

Has(v, k) == v.kind = "map" /\ k \in DOMAIN v.keys
Get(v, k) == IF Has(v, k) THEN v.keys[k] ELSE Absent
Items(v)  == IF v.kind = "seq" THEN v.items ELSE <<>>
Text(v)   == IF v.kind = "scalar" THEN v.text ELSE <<>>
Blank(t)  == t \in {<<>>, <<"">>}

Without(v, ks) ==
  [v EXCEPT !.keys = Restrict(@, DOMAIN @ \ ks),
            !.at   = Restrict(@, DOMAIN @ \ ks)]
With(v, k, w, o) ==
  [v EXCEPT !.keys = (k :> w) @@ @, !.at = (k :> o) @@ @]

(* The children of a node or of a value, by path segment.                  *)
Children(v) ==
  CASE v.kind = "map" -> v.keys
    [] v.kind = "seq" -> [s \in {Index(i) : i \in DOMAIN v.items} |->
                            v.items[CHOOSE i \in DOMAIN v.items : Index(i) = s]]
    [] OTHER -> Empty

(* Value.At: the value a path addresses, or Absent.                        *)
RECURSIVE At(_, _)
At(v, p) ==
  IF p = <<>> THEN v
  ELSE LET below == Children(v)
       IN IF Head(p) \in DOMAIN below THEN At(below[Head(p)], Tail(p)) ELSE Absent

(* Value.Walk: every path below a value or a node, its own included.       *)
RECURSIVE Paths(_)
Paths(v) ==
  LET below == Children(v)
  IN {<<>>} \cup UNION {{<<k>> \o p : p \in Paths(below[k])} : k \in DOMAIN below}

(* OrderedMap as a set: a sequence of its keys, in some order.             *)
InSomeOrder(S) == FoldSet(LAMBDA x, s : Append(s, x), <<>>, S)
=============================================================================
