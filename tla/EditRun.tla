------------------------------ MODULE EditRun ------------------------------
(***************************************************************************)
(* `edit.run` (internal/edit/edit.go): an ordered set of operations on one *)
(* document, each located in the buffer the ones before it produced and    *)
(* held against the byte range it was staged with.                         *)
(*                                                                         *)
(* A document is a sequence of lines, a line a key and the text written    *)
(* for it.  A text is as wide as Width says, so an edit that makes one     *)
(* line longer moves every line below it, which is all a byte range can    *)
(* tell.                                                                   *)
(***************************************************************************)
EXTENDS Naturals, Sequences, FiniteSets, SequencesExt

CONSTANTS Texts, Width, None

ASSUME EditRunAssumption ==
  /\ Width \in [Texts -> Nat]
  /\ None \notin Texts
  /\ None \notin [start : Nat, end : Nat, text : Texts \cup {None}]

\* replace_scalar, insert_sequence_entry and delete_key: the operation that
\* keeps the lines, the one that adds one at the end, the one that takes one out.
Kinds == {"replace_scalar", "insert_sequence_entry", "delete_key"}

Line(k, t) == [key |-> k, text |-> t]

Find(doc, k) == SelectInSeq(doc, LAMBDA l : l.key = k)

\* The byte the i-th line begins at.
Offset(doc, i) == FoldLeft(LAMBDA n, l : n + Width[l.text], 0, SubSeq(doc, 1, i - 1))

\* The range an operation touches, with the bytes inside it; an insertion's is
\* empty.  None when the path is not in the document.
Locate(doc, op) ==
  LET i == Find(doc, op.key)
      At(start, end, text) == [start |-> start, end |-> end, text |-> text]
  IN  IF op.kind = "insert_sequence_entry"
        THEN At(Offset(doc, Len(doc) + 1), Offset(doc, Len(doc) + 1), None)
      ELSE IF i = 0 THEN None
      ELSE At(Offset(doc, i), Offset(doc, i + 1), doc[i].text)

MetByText(range, expect) ==   \* mutant: the offsets are not compared
  expect = None \/ expect.text \in {None, range.text}
MetAtStart(range, expect) ==   \* mutant: only where the range begins
  expect = None \/ range.start = expect.start
Met(range, expect) ==
  expect = None \/ /\ range.start = expect.start /\ range.end = expect.end
                   /\ expect.text \in {None, range.text}

Perform(doc, op) ==
  CASE op.kind = "replace_scalar"        -> [doc EXCEPT ![Find(doc, op.key)].text = op.text]
    [] op.kind = "insert_sequence_entry" -> Append(doc, Line(op.key, op.text))
    [] op.kind = "delete_key"            -> RemoveAt(doc, Find(doc, op.key))

\* One turn of the loop: locate, compare, perform.  Nothing is done after a
\* failure.
Turn(sofar, op) ==
  LET range == Locate(sofar.doc, op)
  IN  IF sofar.end # "ok" THEN sofar
      ELSE IF range = None THEN [sofar EXCEPT !.end = "refused"]
      ELSE IF ~Met(range, op.expect) THEN [sofar EXCEPT !.end = "stale"]
      ELSE [end |-> "ok", doc |-> Perform(sofar.doc, op),
            ranges |-> Append(sofar.ranges, range)]

\* The answer to a request: how it ended, the document it leads to and where
\* each operation landed.  An empty diff is refused (ErrNoChange).
Run(src, ops) ==
  LET last == FoldLeft(Turn, [end |-> "ok", doc |-> src, ranges |-> <<>>], ops)
  IN  IF last.end = "ok" /\ last.doc = src THEN [last EXCEPT !.end = "refused"] ELSE last

\* The diff a reader is shown: which keys change, from what lines to what.
LinesOf(doc, k) ==
  LET at == {i \in DOMAIN doc : doc[i].key = k}
      Nth(n) == CHOOSE i \in at : Cardinality({j \in at : j <= i}) = n
  IN  [n \in 1..Cardinality(at) |-> doc[Nth(n)]]
Diff(src, out) ==
  LET changed == {k \in {l.key : l \in ToSet(src) \cup ToSet(out)} :
                    LinesOf(src, k) # LinesOf(out, k)}
  IN  {<<k, LinesOf(src, k), LinesOf(out, k)>> : k \in changed}
=============================================================================
