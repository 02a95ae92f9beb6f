------------------------------- MODULE Editing -------------------------------
(***************************************************************************)
(* Edits of a compose file: what may be typed where (internal/edit:        *)
(* Classify), what a declaration plans (Plan), and what the operations do  *)
(* to the file (run; internal/strategy).                                   *)
(*                                                                         *)
(* An operation is a fix of Diagnose: replace_scalar and delete_key at a   *)
(* path, insert_key of a key and a value into the mapping at a path.       *)
(* Scalars are written plain: quotes and block scalars are left out.       *)
(***************************************************************************)
EXTENDS Diagnose

CONSTANT Misread      \* the names YAML reads back as something else

-----------------------------------------------------------------------------
(* Where a value that is read at a path is written.                        *)

Verdict(reason, plan) == [reason |-> reason, plan |-> plan]
Editable == Verdict("editable", "none")

MergeTargets(n) ==
  IF n.kind # "map" \/ "<<" \notin DOMAIN n.keys THEN <<>>
  ELSE LET m == n.keys["<<"] IN IF m.kind = "seq" /\ m.from = <<>> THEN m.items ELSE <<m>>

(* childOf: the mapping's own key before a merged one.                     *)
NoChild == [node |-> Absent, merged |-> FALSE]
RECURSIVE Child(_, _)
Child(n, k) ==
  LET hits == SelectSeq(MergeTargets(n), LAMBDA t : t.from # <<>> /\ Child(t, k) # NoChild)
  IN IF k \in DOMAIN Children(n) THEN [node |-> Children(n)[k], merged |-> FALSE]
     ELSE IF hits = <<>> THEN NoChild
     ELSE [node |-> Child(hits[1], k).node, merged |-> TRUE]

(* A walk down a path: the node reached, where it is written, how deep,    *)
(* and at which segment a merge was first crossed.                         *)
Walk(doc, p) ==
  LET Step(w, k) ==
        LET c == Child(w.node, k)
            d == w.depth + 1
        IN IF w.lost \/ c = NoChild THEN [w EXCEPT !.lost = TRUE]
           ELSE [node |-> c.node, depth |-> d, lost |-> FALSE,
                 at |-> Append(IF w.node.from = <<>> THEN w.at ELSE w.node.from, k),
                 crossed |-> IF c.merged /\ w.crossed = 0 THEN d ELSE w.crossed]
  IN FoldLeft(Step, [node |-> doc, depth |-> 0, lost |-> FALSE, at |-> <<>>, crossed |-> 0], p)

(* The path goes on where the file has nothing.                            *)
AbsentAt(w, k) ==
  CASE w.node.kind = "seq" /\ IsIndex(k) -> Verdict("entry-index", "none")
    [] w.crossed # 0 -> Verdict("inherited-nested", "none")
    [] w.node.flow /\ w.node.from = <<>> -> Verdict("flow-style", "none")
    [] OTHER -> Verdict("absent", "insert_key")

Where(doc, p, w) ==
  LET n == w.node
  IN CASE p = <<>> -> Verdict("not-scalar", "none")
       [] w.lost -> AbsentAt(w, p[w.depth + 1])
       [] w.crossed = Len(p) ->
            Verdict("inherited", IF n.kind \in {"map", "seq"} THEN "none" ELSE "insert_key")
       [] w.crossed # 0 -> Verdict("inherited-nested", "none")
       [] n.from # <<>> -> Verdict("alias", "none")
       [] Anchored(doc, w.at) -> Verdict("anchor", "none")
       [] n.kind = "null" /\ n.tag = "none" -> Verdict("null-value", "insert_key")
       [] n.kind \in {"map", "seq"} -> Verdict("not-scalar", "none")
       [] OTHER -> Editable
Classify(doc, p) == Where(doc, p, Walk(doc, p))

(* refusalFor: the shapes a splice would damage.                           *)
AnchorsOnly(v) == v.reason = "anchor"
RefusedFor(v)  == v.reason \in {"inherited", "inherited-nested", "alias", "anchor"}

-----------------------------------------------------------------------------
(* The operations.                                                         *)

Outcome1(doc, err) == [doc |-> doc, err |-> err]

(* Splice.Edit writes over one token.  Of `*name` that is the star.        *)
Spliced(n, w) == IF n.from = <<>> THEN w ELSE Str(w.text \o <<Last(n.from)>>)
ReplaceScalar(doc, op) ==
  IF RefusedFor(Classify(doc, op.path)) THEN Outcome1(doc, "refused")
  ELSE IF ~Locatable(doc, op.path) THEN Outcome1(doc, "not-found")
  ELSE Outcome1(Put(doc, op.path, Spliced(At(doc, op.path), op.value)), "")

DeleteKey(doc, op) ==
  IF ~Locatable(doc, op.path) THEN Outcome1(doc, "not-found")
  ELSE Outcome1(Cut(doc, LineOf(doc, op.path)), "")

(* bareKey: a name is written when YAML reads it back as it was typed.     *)
Bare(k)    == k \notin Misread
ReadAs(k)  == IF k \in Misread THEN "true" ELSE k

(* A mapping on a line of its own takes a key, and so does a key with no   *)
(* value; at anything else, or beside the same key, the result does not    *)
(* parse (validate).                                                       *)
RootTakes(doc)  == doc.kind = "map" /\ ~doc.flow /\ Children(doc) # Empty
Takes(doc, p)   == LET n == At(doc, p)
                   IN /\ IF p = <<>> THEN RootTakes(doc) ELSE Locatable(doc, p)
                      /\ n.kind \in {"map", "null"} /\ n.from = <<>>
                      /\ ~n.flow /\ Inline(doc, p) = {}
Opened(n)       == IF n.kind = "null" THEN [n EXCEPT !.kind = "map"] ELSE n
InsertKey(doc, op) ==
  LET n == At(doc, op.path)
      k == ReadAs(op.key)
  IN IF ~Bare(op.key) THEN Outcome1(doc, "refused")
     ELSE IF ~Takes(doc, op.path) \/ k \in DOMAIN Children(n) THEN Outcome1(doc, "would-corrupt")
     ELSE Outcome1(Put(doc, op.path, Put(Opened(n), <<k>>, op.value)), "")

(* run: each operation on what the one before it made of the file, all of  *)
(* them or none; an edit that changes nothing is refused.                  *)
Perform(doc, op) ==
  LET got == CASE op.op = "replace_scalar" -> ReplaceScalar(doc, op)
               [] op.op = "delete_key"     -> DeleteKey(doc, op)
               [] op.op = "insert_key"     -> InsertKey(doc, op)
  IN [got EXCEPT !.doc = Realiased(@, @)]
Settled(doc, got) ==
  IF got.err # "" THEN Outcome1(doc, got.err)
  ELSE IF got.doc = doc THEN Outcome1(doc, "no-change") ELSE got
Performed(doc, ops) ==
  Settled(doc, FoldLeft(LAMBDA o, op : IF o.err # "" THEN o ELSE Perform(o.doc, op),
                        Outcome1(doc, ""), ops))

Insert(file, p, k, w) == Fix("insert_key", file, p, k, w)

-----------------------------------------------------------------------------
(* A value typed into a field of the pane (stageValue): what the project   *)
(* says is declared decides, and where this file writes it.                *)

AncestorsOf(p) == [i \in 1..(Len(p) - 1) |-> SubSeq(p, 1, i)]
Unwritten(root, p) == SelectSeq(AncestorsOf(p), LAMBDA q : At(root, q).kind = "absent")

TypedOps(root, doc, file, p, w) ==
  LET v         == At(root, p)
      overrides == Classify(doc, p) = Verdict("inherited", "insert_key")
      replace   == <<Fix("replace_scalar", file, p, "", w)>>
      here      == Insert(file, Front(p), Last(p), w)
  IN CASE IsIndex(Last(p)) -> replace
       [] v.kind = "null" -> <<Fix("delete_key", file, p, "", Node), here>>
       [] v.kind # "absent" /\ ~overrides -> replace
       [] OTHER -> LET above == Unwritten(root, p)
                   IN [i \in DOMAIN above |->
                         Insert(file, Front(above[i]), Last(above[i]), Node)] \o <<here>>

(* The pane draws a collection as a group, not as a field.                 *)
Field(root, doc, p) == /\ At(root, p).kind \notin {"map", "seq"}
                       /\ Classify(doc, p).reason # "not-scalar"

-----------------------------------------------------------------------------
(* A declaration (edit.Plan): the block if the file has none, the name     *)
(* under it, and a service's image.  root is the project when it resolves. *)

DeclaredHere(doc, block, name) == Locatable(doc, <<block, name>>)
DeclaredAnywhere(root, block, name) == Has(Get(root, block), name)
HereAlone(doc, root, block, name) == DeclaredHere(doc, block, name)
Duplicate(doc, root, block, name) ==
  DeclaredHere(doc, block, name) \/ DeclaredAnywhere(root, block, name)

Kinds == {"services", "networks", "volumes", "configs", "secrets"}
MayDeclare(doc, root, r) ==
  /\ r.block \in Kinds
  /\ Bare(r.name) /\ ~Duplicate(doc, root, r.block, r.name)
  /\ (r.block = "services") = (r.text # <<>>)

DeclareOps(doc, r) ==
  (IF Locatable(doc, <<r.block>>) THEN <<>> ELSE <<Insert(r.file, <<>>, r.block, Node)>>)
    \o <<Insert(r.file, <<r.block>>, r.name, Node)>>
    \o (IF r.block = "services"
        THEN <<Insert(r.file, <<r.block, r.name>>, "image", Str(r.text))>> ELSE <<>>)
=============================================================================
