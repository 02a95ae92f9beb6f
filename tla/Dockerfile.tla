----------------------------- MODULE Dockerfile -----------------------------
(***************************************************************************)
(* The Dockerfile engine (internal/dockerfile): how lines become           *)
(* instructions, which stage an instruction is in, and the edits that      *)
(* splice one line and leave every other alone.                            *)
(*                                                                         *)
(* A file is what stands between its line feeds, so its last line never    *)
(* has an ending.  A line is its words, the words from a # on (tail), the  *)
(* character it ends in when that could continue it (esc), the heredoc     *)
(* delimiters it opens and its ending.                                     *)
(***************************************************************************)
EXTENDS Integers, SequencesExt

CONSTANTS Vocabulary, FlagNames

\* A word is KEY, KEY=value, repo:tag or repo@digest; ref says that the value
\* is ${value} rather than the text itself.
Word(k) == [key |-> k, sep |-> "", val |-> "", ref |-> FALSE]
Pair(k, s, v) == [key |-> k, sep |-> s, val |-> v, ref |-> FALSE]
Refers(k, s, n) == [key |-> k, sep |-> s, val |-> n, ref |-> TRUE]

Notes == {"comment", "directive"}

\* `# escape=` is honoured in the comment block the file begins with, which a
\* byte order mark in front of it hides.
EscapeChar(f) ==
  LET Leading == {i \in DOMAIN f.lines : \A j \in 1..i : f.lines[j].kind \in Notes}
      Escapes == {i \in Leading : /\ f.lines[i].words[1].key = "escape"
                                  /\ f.lines[i].words[1].val \in {"backslash", "backtick"}}
  IN  IF f.bom \/ Escapes = {} THEN "backslash" ELSE f.lines[Max(Escapes)].words[1].val

Continues(f, e, i) == f.lines[i].kind # "blank" /\ f.lines[i].esc = e

\* The lines whose text makes up the instruction begun on line i: comment lines
\* inside a continuation are skipped, a blank line ends it.
Parts(f, e, i) ==
  LET After(j) == {k \in j + 1 .. Len(f.lines) : f.lines[k].kind \notin Notes}
      from[j \in DOMAIN f.lines] ==
        IF ~Continues(f, e, j) \/ After(j) = {} THEN <<j>> ELSE <<j>> \o from[Min(After(j))]
  IN  from[i]

Bare(l) == l.words \o l.tail
\* A trailing character that is not the file's escape character is a word.
WordsOf(l, e) == Bare(l) \o (IF l.esc \in {"", e} THEN <<>> ELSE <<Word(l.esc)>>)

\* The tokens annotateFrom reads: one physical line, up to a #.
FromTokens(l) == l.words \o (IF l.esc = "" \/ l.tail # <<>> THEN <<>> ELSE <<Word(l.esc)>>)

IsFlag(w) == w.key \in FlagNames
AfterFlags(ws) == SelectInSeq(ws, LAMBDA w : ~IsFlag(w))

Closes(l, d) == Bare(l) = <<Word(d)>> /\ l.esc = ""

Simple(f, i) ==
  [kind |-> f.lines[i].kind, name |-> "", first |-> i, last |-> i, flags |-> <<>>,
   args |-> <<>>, image |-> 0, imageRef |-> Word(""), stage |-> "", open |-> FALSE]

\* Where the image reference stands among a FROM's tokens, 0 for nowhere.
ImageAt(name, toks) ==
  IF name # "FROM" \/ Len(toks) < 2 THEN 0
  ELSE IF AfterFlags(Tail(toks)) = 0 THEN 0 ELSE 1 + AfterFlags(Tail(toks))

StageName(toks, image) ==
  IF image # 0 /\ image + 2 <= Len(toks) THEN IF toks[image + 1].key = "AS" THEN toks[image + 2].key ELSE ""
  ELSE ""

From(words, n) == IF n = 0 THEN <<>> ELSE SubSeq(words, n, Len(words))

Fields(f, i, last, open, words, toks, image) ==
  [kind |-> "code", name |-> words[1].key, first |-> i, last |-> last, open |-> open,
   flags |-> SelectSeq(Tail(words), IsFlag), args |-> From(Tail(words), AfterFlags(Tail(words))),
   image |-> image, imageRef |-> IF image = 0 THEN Word("") ELSE toks[image],
   stage |-> StageName(toks, image)]

\* A heredoc's body belongs to the instruction: it runs to the line that closes
\* the last delimiter, or to the end of the file when one never comes.
HeredocEnds(f, end, delims) ==
  {j \in end + 1 .. Len(f.lines) : \A d \in delims : \E k \in end + 1 .. j : Closes(f.lines[k], d)}

Extent(f, end, delims, closed) ==
  IF delims = {} THEN <<end, FALSE>>
  ELSE IF closed = {} THEN <<Len(f.lines), TRUE>> ELSE <<Min(closed), FALSE>>

Assembled(f, i, extent, words, toks) ==
  Fields(f, i, extent[1], extent[2], words, toks, ImageAt(words[1].key, toks))

Delimiters(f, parts) == UNION {f.lines[p].opens : p \in ToSet(parts)}
EndOf(f, e, i) == IF Continues(f, e, i) THEN Len(f.lines) ELSE i

Collected(f, e, i, parts, end, delims) ==
  Assembled(f, i, Extent(f, end, delims, HeredocEnds(f, end, delims)),
            FlattenSeq([k \in DOMAIN parts |-> WordsOf(f.lines[parts[k]], e)]), FromTokens(f.lines[i]))

Instruction(f, e, i, parts) ==
  Collected(f, e, i, parts, EndOf(f, e, Last(parts)), Delimiters(f, parts))

ParseWith(f, e) ==
  LET from[i \in 1 .. Len(f.lines) + 1] ==
        LET Then(in) == <<in>> \o from[in.last + 1]
        IN  IF i > Len(f.lines) THEN <<>>
            ELSE Then(IF f.lines[i].kind = "code" THEN Instruction(f, e, i, Parts(f, e, i)) ELSE Simple(f, i))
  IN  from[1]

Parse(f) == ParseWith(f, EscapeChar(f))

Stages(ins) == SelectSeq([i \in DOMAIN ins |-> i], LAMBDA i : ins[i].name = "FROM")

\* 0 is the preamble.  A parser directive belongs to no stage.
StageOf(ins, i) ==
  IF ins[i].kind = "directive" THEN 0
  ELSE Cardinality({j \in 1..i : ins[j].name = "FROM"})

Members(ins, s) == {i \in DOMAIN ins : s > 0 /\ StageOf(ins, i) = s}

-----------------------------------------------------------------------------
\* The form the pane draws (form.go, vocabulary.go).
Editable(in) == in.kind = "code" /\ in.first = in.last

Uses(ins, scope) ==
  [n \in Vocabulary |-> {i \in scope : ins[i].kind = "code" /\ ins[i].name = n}]
Unknown(ins, scope) ==
  {ins[i].name : i \in {j \in scope : ins[j].kind = "code" /\ ins[j].name \notin Vocabulary}}

StageView(ins, from, members) ==
  [label |-> <<from.stage, from.imageRef>>, members |-> members,
   uses |-> Uses(ins, members), unknown |-> Unknown(ins, members)]

Form(ins) ==
  [directives |-> {i \in DOMAIN ins : ins[i].kind = "directive"},
   preamble |-> {i \in DOMAIN ins : ins[i].kind # "directive" /\ StageOf(ins, i) = 0},
   uses |-> Uses(ins, DOMAIN ins),
   stages |-> [s \in DOMAIN Stages(ins) |-> StageView(ins, ins[Stages(ins)[s]], Members(ins, s))]]

-----------------------------------------------------------------------------
\* Edits.  Each is the file it makes, or a refusal.
Refused(f) == [ok |-> FALSE, file |-> f]
Made(f, lines) == [ok |-> TRUE, file |-> [f EXCEPT !.lines = lines]]

\* The ending of a line put after line i: that line's own, or the nearest
\* ending above when it is the last and has none.
EndingFor(f, i) ==
  IF i < Len(f.lines) THEN f.lines[i].eol
  ELSE IF i > 1 THEN f.lines[i - 1].eol ELSE "lf"

\* A text that may become a line: something, on one line, that does not
\* continue into the next.
WritableText(f, t) == t.words # <<>> /\ t.eol = "none" /\ t.esc # EscapeChar(f)

InsertAfter(f, ins, i, t) ==
  LET n == ins[i].last
      ended == [f.lines EXCEPT ![n].eol = EndingFor(f, n)]
  IN  Made(f, InsertAt(ended, n + 1, [t EXCEPT !.eol = f.lines[n].eol]))

\* Where the run of comment lines directly above an instruction begins.
AttachedFrom(ins, i) ==
  Min({k \in 1..i : \A j \in k .. i - 1 : ins[j].kind = "comment"})

InsertBefore(f, ins, i, t) ==
  IF i \notin DOMAIN ins \/ ~WritableText(f, t) THEN Refused(f)
  ELSE Made(f, InsertAt(f.lines, ins[AttachedFrom(ins, i)].first,
                        [t EXCEPT !.eol = EndingFor(f, ins[i].first)]))

AlwaysSafe(in) == TRUE   \* mutant: an open heredoc is inserted into
SafeToFollow(in) == ~in.open

\* The last instruction of a stage; comments and blank lines after it belong to
\* what follows.
InstructionAnchor(ins, s) == Max({i \in Members(ins, s) : ins[i].kind = "code"})

InsertInstruction(f, ins, s, t) ==
  IF s \notin DOMAIN Stages(ins) \/ ~SafeToFollow(ins[InstructionAnchor(ins, s)])
     \/ ~WritableText(f, t)
    THEN Refused(f)
    ELSE InsertAfter(f, ins, InstructionAnchor(ins, s), t)

\* The last instruction of the file, or in a file with none its last directive.
StageAnchor(ins) ==
  LET Of(k) == {i \in DOMAIN ins : ins[i].kind = k}
  IN  IF Of("code") # {} THEN Max(Of("code"))
      ELSE IF Of("directive") # {} THEN Max(Of("directive")) ELSE 0

NewFrom(image, name) ==
  [kind |-> "code", words |-> <<Word("FROM"), image>> \o
     (IF name = "" THEN <<>> ELSE <<Word("AS"), Word(name)>>),
   tail |-> <<>>, esc |-> "", opens |-> {}, eol |-> "none"]

\* Names are compared without their case, so a name stands for all its casings.
NameTaken(ins, name) == name # "" /\ \E i \in DOMAIN ins : ins[i].stage = name

InsertStage(f, ins, image, name) ==
  LET at == StageAnchor(ins)
  IN  IF NameTaken(ins, name) \/ at = 0 THEN Refused(f)
      ELSE IF ~SafeToFollow(ins[at]) THEN Refused(f)
      ELSE InsertAfter(f, ins, at, NewFrom(image, name))

SetBaseImage(f, ins, s, image) ==
  IF s \notin DOMAIN Stages(ins) THEN Refused(f)
  ELSE LET from == ins[Stages(ins)[s]]
           l == f.lines[from.first]
           new == IF from.image <= Len(l.words)
                    THEN [l EXCEPT !.words[from.image] = image]
                    ELSE [l EXCEPT !.words = Append(@, image), !.esc = ""]
       IN  IF from.image = 0 THEN Refused(f) ELSE Made(f, [f.lines EXCEPT ![from.first] = new])

\* The line is built again from its name, its flags, the new words and what
\* stood from a # on.  A carriage return is kept only inside that tail, and a
\* byte order mark in front of the name is in neither.
ReplaceArgs(f, ins, i, words) ==
  IF i \notin DOMAIN ins THEN Refused(f)
  ELSE IF ~Editable(ins[i]) THEN Refused(f)
  ELSE LET at == ins[i].first
           l == f.lines[at]
           new == [l EXCEPT !.words = <<Word(ins[i].name)>> \o ins[i].flags \o words,
                            !.esc = IF l.tail = <<>> THEN "" ELSE @,
                            !.eol = IF @ = "crlf" /\ l.tail = <<>> THEN "lf" ELSE @]
       IN  [ok |-> TRUE, file |-> [f EXCEPT !.lines[at] = new, !.bom = @ /\ at # 1]]

-----------------------------------------------------------------------------
\* edit.perform on a Dockerfile, and edit.run: the operations one after the
\* other, each in the file the ones before it made, nothing after a refusal.
Perform(f, ins, op) ==
  CASE op.kind = "set_base_image"            -> SetBaseImage(f, ins, op.at, op.words[1])
    [] op.kind = "replace_args"              -> ReplaceArgs(f, ins, op.at, op.words)
    [] op.kind = "insert_instruction"        -> InsertInstruction(f, ins, op.at, op.text)
    [] op.kind = "insert_instruction_before" -> InsertBefore(f, ins, op.at, op.text)
    [] op.kind = "insert_stage"              -> InsertStage(f, ins, op.words[1], op.name)

Turn(sofar, op) == IF sofar.ok THEN Perform(sofar.file, Parse(sofar.file), op) ELSE sofar

\* An edit that changes nothing is refused (ErrNoChange).
Changed(f, end) == IF end.ok /\ end.file # f THEN end ELSE Refused(f)
Run(f, ops) == Changed(f, FoldLeft(Turn, [ok |-> TRUE, file |-> f], ops))
=============================================================================
