------------------------------ MODULE MoveToArg ------------------------------
(***************************************************************************)
(* One Dockerfile being edited: the operations of the Dockerfile grammar   *)
(* (internal/edit/edit.go) and the move of a literal into a build argument *)
(* (internal/edit/extractarg.go), which decides where an ARG has to stand  *)
(* for its use to see it, and reads its own result back before it writes.  *)
(***************************************************************************)
EXTENDS Dockerfile

CONSTANTS
  NotNames,    \* keys that are no name of a variable
  NotBare,     \* values that cannot stand unquoted after ARG NAME=
  VersionName, \* the name derived for the tag of an image
  Sources,     \* the files the runs begin with
  Images, Bodies, Texts, StageNames, ArgNames,   \* what a request may carry
  MaxEdits

VARIABLES
  file, \* the Dockerfile on disk
  last, \* the last request: what it asked, of which file, how it ended
  left  \* requests still to come (a bound)

vars == <<file, last, left>>

\* Requests.  A field an operation does not use is left out of its answer.
Op(kind, at) ==
  [kind |-> kind, at |-> at, words |-> <<>>, name |-> "",
   text |-> NewFrom(Word(""), "")]

-----------------------------------------------------------------------------
\* extractarg.go.  A plan: the substitution, and above which instruction which
\* declaration goes, if one does.
NoPlan == [end |-> "refused"]

Scope(ins, i) == IF ins[i].name = "FROM" THEN 0 ELSE StageOf(ins, i)

StageWide(ins, i, target) == TRUE   \* mutant: declarations below the use count
Above(ins, i, target) == i < target

\* The ARG words in the scope (0 is the global one) that stand above target.
Declared(ins, target, scope) ==
  LET Counts(i) == /\ ins[i].name = "ARG" /\ Above(ins, i, target)
                   /\ IF scope = 0 THEN i < Stages(ins)[1] ELSE StageOf(ins, i) = scope
      at == SelectSeq([i \in DOMAIN ins |-> i], Counts)
  IN  FlattenSeq([k \in DOMAIN at |-> ins[at[k]].args])

\* A later declaration wins; <<>> when there is none.
Declaration(ins, target, scope, n) ==
  LET said == SelectSeq(Declared(ins, target, scope), LAMBDA w : w.key = n)
  IN  IF said = <<>> THEN <<>> ELSE <<Last(said)>>

GlobalFor(ins, target, scope, n) ==
  IF scope = 0 THEN <<>> ELSE Declaration(ins, target, 0, n)

ArgLine(w) == [NewFrom(Word(""), "") EXCEPT !.words = <<Word("ARG"), w>>]

\* decideDeclaration: whether one is written at all, and whether with a default.
\* here is what the scope being written to declares, above the global default.
Decided(p, same, here, above) ==
  CASE here = same                 -> p
    [] here = <<>> /\ above = <<>> -> [p EXCEPT !.line = <<ArgLine(same[1])>>]
    [] here = <<>> /\ above = same -> [p EXCEPT !.line = <<ArgLine(Word(p.name))>>]
    [] OTHER                       -> NoPlan

AnchorOf(ins, i) == IF ins[i].name = "FROM" THEN Stages(ins)[1] ELSE i

\* A default is written as it is or not at all.
StandsBare(v) == v \notin NotBare

Planned(ins, i, sub, literal, name) ==
  LET p == [end |-> "planned", name |-> name, literal |-> literal, substitute |-> sub,
            anchor |-> AnchorOf(ins, i), line |-> <<>>]
  IN  IF name \in NotNames \/ ~StandsBare(literal) THEN NoPlan
      ELSE Decided(p, <<Pair(name, "=", literal)>>, Declaration(ins, i, Scope(ins, i), name),
                   GlobalFor(ins, i, Scope(ins, i), name))

HasTag(w) == w.sep = ":"
NameForTag(w, asked) == IF asked = "" THEN VersionName[w.key] ELSE asked

\* The tag of a FROM.  A digest or no tag at all is refused.
PlanTag(ins, i, w, asked) ==
  LET name == NameForTag(w, asked)
      s == CHOOSE k \in DOMAIN Stages(ins) : Stages(ins)[k] = i
  IN  IF ~HasTag(w) \/ w.ref THEN NoPlan
      ELSE Planned(ins, i, [Op("set_base_image", s) EXCEPT !.words = <<Refers(w.key, ":", name)>>],
                   w.val, name)

\* singleAssignment: the one KEY=value an instruction is.  A body that is KEY=
\* and nothing more reaches strings.Fields(rest)[1:] with no field at all; one
\* of several words has another assignment or a space in its value.
Assignment(args, w) ==
  IF w.sep # "=" \/ w.key \in NotNames THEN "refused"
  ELSE IF w.val = "" /\ Len(args) = 1 THEN "panics"
  ELSE IF Len(args) > 1 THEN "refused" ELSE "single"

PlanAssignment(ins, i, args, w, asked) ==
  LET name == IF asked = "" THEN w.key ELSE asked
  IN  IF Assignment(args, w) # "single" THEN [end |-> Assignment(args, w)]
      ELSE IF w.ref THEN NoPlan
      ELSE Planned(ins, i, [Op("replace_args", i) EXCEPT !.words = <<Refers(w.key, "=", name)>>],
                   w.val, name)

Plan(ins, i, asked) ==
  IF Stages(ins) = <<>> \/ i \notin DOMAIN ins THEN NoPlan
  ELSE IF ins[i].name = "FROM" THEN PlanTag(ins, i, ins[i].imageRef, asked)
  ELSE IF ins[i].args = <<>> THEN NoPlan   \* a comment or a blank line too
  ELSE PlanAssignment(ins, i, ins[i].args, ins[i].args[1], asked)

\* argReadback: the use refers to the name, something above it declares it, and
\* the last default above it, in whatever stage, is the literal.
Readback(ins, p, use) ==
  LET Names(w) == w.ref /\ w.val = p.name
      Args(i) == IF ins[i].name = "ARG" THEN SelectSeq(ins[i].args, LAMBDA w : w.key = p.name) ELSE <<>>
      said == FlattenSeq([i \in 1 .. use - 1 |-> SelectSeq(Args(i), LAMBDA w : w.sep = "=")])
  IN  /\ use \in DOMAIN ins
      /\ Names(ins[use].imageRef) \/ \E k \in DOMAIN ins[use].args : Names(ins[use].args[k])
      /\ said # <<>> /\ Last(said) = Pair(p.name, "=", p.literal)
      /\ p.substitute.kind = "set_base_image" =>
           \E i \in 1 .. Stages(ins)[1] : i < use /\ Args(i) # <<>>

\* Substitute, declare, read back, write.
Operations(p) ==
  <<p.substitute>> \o [k \in DOMAIN p.line |->
    [Op("insert_instruction_before", p.anchor) EXCEPT !.text = p.line[k]]]

Finished(f, p, made, use) ==
  IF made.ok /\ Readback(Parse(made.file), p, use)
    THEN [end |-> "written", file |-> made.file, name |-> p.name]
    ELSE [end |-> "refused", file |-> f, name |-> p.name]

Carried(f, i, p) ==
  IF p.end # "planned" THEN [end |-> p.end, file |-> f, name |-> ""]
  ELSE Finished(f, p, Run(f, Operations(p)), IF p.line # <<>> /\ p.anchor <= i THEN i + 1 ELSE i)

ExtractArg(f, i, asked) == Carried(f, i, Plan(Parse(f), i, asked))

-----------------------------------------------------------------------------
\* A request and its answer: the file is replaced when it was not refused.
Answer(op, end, out, name) ==
  /\ left > 0 /\ left' = left - 1
  /\ file' = out
  /\ last' = [op |-> op, was |-> file, end |-> end, name |-> name]

Ended(out) == IF out.ok THEN "written" ELSE "refused"
Reply(op, out) == Answer(op, Ended(out), out.file, "")
Request(op) == Reply(op, Run(file, <<op>>))

SetBase ==
  \E s \in DOMAIN Stages(Parse(file)), w \in Images :
    Request([Op("set_base_image", s) EXCEPT !.words = <<w>>])

Replace ==
  \E i \in DOMAIN Parse(file), ws \in Bodies :
    Request([Op("replace_args", i) EXCEPT !.words = ws])

Insert ==
  \E s \in DOMAIN Stages(Parse(file)), t \in Texts :
    Request([Op("insert_instruction", s) EXCEPT !.text = t])

InsertAbove ==
  \E i \in DOMAIN Parse(file), t \in Texts :
    /\ Parse(file)[i].kind = "code"
    /\ Request([Op("insert_instruction_before", i) EXCEPT !.text = t])

AddStage ==
  \E w \in Images, n \in StageNames :
    Request([Op("insert_stage", 0) EXCEPT !.words = <<w>>, !.name = n])

Extracted(i, out) == Answer(Op("extract", i), out.end, out.file, out.name)

Move ==
  \E i \in DOMAIN Parse(file), n \in ArgNames : Extracted(i, ExtractArg(file, i, n))

Nothing(f) == [op |-> Op("none", 0), was |-> f, end |-> "none", name |-> ""]

Init == file \in Sources /\ last = Nothing(file) /\ left = MaxEdits
Next == SetBase \/ Replace \/ Insert \/ InsertAbove \/ AddStage \/ Move
Spec == Init /\ [][Next]_vars

-----------------------------------------------------------------------------
Content(ins, i) == [ins[i] EXCEPT !.first = 0, !.last = @ - ins[i].first]

\* An instruction's lines, with their endings when those are compared.
LinesOf(f, in, endings) ==
  [k \in 0 .. in.last - in.first |->
     [f.lines[in.first + k] EXCEPT !.eol = IF endings THEN @ ELSE ""]]

Inserts == {"insert_instruction", "insert_instruction_before", "insert_stage"}

\* Where the instruction that was put in, or changed, stands in the new file.
Landed(old, op) ==
  CASE op.kind = "insert_instruction"        -> InstructionAnchor(old, op.at) + 1
    [] op.kind = "insert_instruction_before" -> AttachedFrom(old, op.at)
    [] op.kind = "insert_stage"              -> StageAnchor(old) + 1
    [] op.kind = "set_base_image"            -> Stages(old)[op.at]
    [] op.kind = "replace_args"              -> op.at

\* What stood from a # on, which a new body is put in front of.
TailOf(l, e) == IF l.tail = <<>> THEN <<>> ELSE WordsOf([l EXCEPT !.words = <<>>], e)

AsAsked(op, old, new, tail) ==
  CASE op.kind = "set_base_image" -> new = [old EXCEPT !.imageRef = op.words[1], !.args[1] = op.words[1]]
    [] op.kind = "replace_args"   -> /\ new.name = old.name /\ new.flags = old.flags
                                     /\ new.args = op.words \o tail
    [] op.kind = "insert_stage"   -> new.name = "FROM" /\ new.imageRef = op.words[1] /\ new.stage = op.name
    [] OTHER                      -> <<Word(new.name)>> \o new.args = WordsOf(op.text, EscapeChar(file))

Comments(ins, k) == k - AttachedFrom(ins, k)

OthersStay(old, new, at, grows) ==
  LET Was(k) == IF grows /\ k > at THEN k - 1 ELSE k
      Stays(k, w, uncut) ==
        /\ Content(new, k) = Content(old, w)
        /\ LinesOf(file, new[k], uncut) = LinesOf(last.was, old[w], uncut)
        /\ new[k].kind = "code" => /\ StageOf(new, k) = StageOf(old, w)
                                  /\ Comments(new, k) = Comments(old, w)
  IN  /\ Len(new) = Len(old) + (IF grows THEN 1 ELSE 0)
      /\ \A k \in DOMAIN new \ {at} : Stays(k, Was(k), old[Was(k)].last < Len(last.was.lines))
      /\ AsAsked(last.op, Content(old, Was(at)), Content(new, at),
                 TailOf(last.was.lines[old[Was(at)].first], EscapeChar(last.was)))

\* How often each stage is drawn as using each instruction.
Drawn(form) == [s \in DOMAIN form.stages |->
                  [n \in Vocabulary |-> Cardinality(form.stages[s].uses[n])]]

FormGains(was, is, s, n) ==
  \A t \in DOMAIN was : is[t] = IF t = s /\ n \in Vocabulary THEN [was[t] EXCEPT ![n] = @ + 1] ELSE was[t]

\* The bytes that are no words.  A line built again loses the mark in front of
\* its name and, with no tail to keep it in, its carriage return; nothing else
\* takes a mark or an ending away, and what is put in ends as a line here did.
Rebuilt == last.op.kind = "replace_args"
Endings(f) == {f.lines[i].eol : i \in DOMAIN f.lines} \ {"none"}
EndingKept(l) == IF Rebuilt /\ l.tail = <<>> /\ l.eol = "crlf" THEN "lf" ELSE l.eol

BytesStay(was, is, grows) ==
  /\ file.bom = (last.was.bom /\ ~(Rebuilt /\ was = 1))
  /\ IF grows THEN Endings(file) \subseteq Endings(last.was) \/ Endings(last.was) = {}
     ELSE file.lines[is].eol = EndingKept(last.was.lines[was])

Local(old, new, at, grows) ==
  /\ OthersStay(old, new, at, grows)
  /\ BytesStay(IF grows THEN 0 ELSE old[at].first, new[at].first, grows)
  /\ FormGains(Drawn(Form(old)), Drawn(Form(new)), IF grows THEN StageOf(new, at) ELSE 0, new[at].name)

\* A continuation that runs off the end of the file: the next line put there
\* would go on with it.
Dangles(f, in) ==
  \E j \in in.first .. in.last :
    /\ Continues(f, EscapeChar(f), j)
    /\ \A k \in j + 1 .. Len(f.lines) : f.lines[k].kind \in Notes
Follows(old, op) ==
  CASE op.kind = "insert_instruction" -> {old[InstructionAnchor(old, op.at)]}
    [] op.kind = "insert_stage"       -> {old[StageAnchor(old)]}
    [] OTHER                          -> {}

\* An edit that was written is exactly the edit asked for: read again, the file
\* holds the instruction put in or changed, as it was asked, and every other
\* instruction as it was, in its stage, under its own comments, on the same
\* lines with the same endings (a last line without one excepted), and the form
\* lists one use more and nothing else (insert.go, edit.go); a new body stands
\* before the tail of its line, and a mark or an ending is lost only where that
\* line is built again.  Left out: a text that opens a heredoc, which takes the
\* lines below it for its body, and what is put after a dangling continuation.
EditIsLocal ==
  (/\ last.end = "written" /\ last.op.kind # "extract" /\ last.op.text.opens = {}
   /\ \A in \in Follows(Parse(last.was), last.op) : ~Dangles(last.was, in)) =>
    Local(Parse(last.was), Parse(file), Landed(Parse(last.was), last.op), last.op.kind \in Inserts)

\* What the code contradicts.  A byte order mark is preserved, and a CRLF file
\* stays CRLF (docs/USER-MANUAL.md); InsertInstruction adds one instruction
\* (insert.go).
MarkStays    == last.was.bom => file.bom
EndingsStay  == Endings(last.was) = {"crlf"} => Endings(file) = {"crlf"}
InsertAddsOne ==
  (/\ last.end = "written" /\ last.op.kind = "insert_instruction" /\ last.op.text.opens = {}) =>
    Len(Parse(file)) = Len(Parse(last.was)) + 1

-----------------------------------------------------------------------------
\* What docker build makes of the arguments, as extractarg.go states it: a FROM
\* sees the ARGs above the first FROM and nothing else, a stage its own ARGs
\* above the use, the last one counting, a bare one standing for the global
\* default, and an ENV of the name before any of them.
Undefined == "undefined"

Values(ins) ==
  LET names == UNION {{w.key : w \in ToSet(ins[i].args)} : i \in DOMAIN ins}
      v[k \in DOMAIN ins, n \in names] ==
        LET Sets(name) == {j \in 1 .. k - 1 : /\ ins[j].name = name /\ StageOf(ins, j) = Scope(ins, k)
                                             /\ \E w \in ToSet(ins[j].args) : w.key = n}
            Eval(j, w) == IF ~w.ref THEN w.val ELSE IF w.val \in names THEN v[j, w.val] ELSE Undefined
            Given(j) == Last(SelectSeq(ins[j].args, LAMBDA w : w.key = n))
            Ruled(envs, args) ==
              IF Scope(ins, k) # 0 /\ envs # {} THEN Eval(Max(envs), Given(Max(envs)))
              ELSE IF args = {} THEN Undefined
              ELSE IF Given(Max(args)).sep = "=" THEN Eval(Max(args), Given(Max(args)))
              ELSE IF Scope(ins, k) = 0 THEN Undefined ELSE v[Stages(ins)[1], n]
        IN  Ruled(Sets("ENV"), Sets("ARG"))
  IN  v

\* An instruction's words with every reference replaced by its value.
Evaluated(ins, values, k) ==
  LET Value(w) == IF <<k, w.val>> \in DOMAIN values THEN values[k, w.val] ELSE Undefined
  IN  [m \in DOMAIN ins[k].args |->
         IF ins[k].args[m].ref THEN [ins[k].args[m] EXCEPT !.val = Value(ins[k].args[m]), !.ref = FALSE]
         ELSE ins[k].args[m]]

SameBuild(old, new, was, is, i) ==
  LET At(k) == IF Len(new) > Len(old) /\ k >= AnchorOf(old, i) THEN k + 1 ELSE k
      Undef(words) == \E m \in DOMAIN words : words[m].val = Undefined
      Alike(before, after) == Undef(before) \/ after = before
  IN  \A k \in DOMAIN old : old[k].kind = "code" =>
        Alike(Evaluated(old, was, k), Evaluated(new, is, At(k)))

\* An ENV of the name, above the use in its stage.
HiddenByEnv(ins, i, name) ==
  \E j \in 1 .. i - 1 : /\ ins[j].name = "ENV" /\ StageOf(ins, j) = Scope(ins, i)
                        /\ \E w \in ToSet(ins[j].args) : w.key = name

BuildsAlike(old, new, i) ==
  HiddenByEnv(old, i, last.name) \/ SameBuild(old, new, Values(old), Values(new), i)

\* A move that was written builds the same image: the moved instruction still
\* says the literal, and every other instruction whose references all had a
\* value has the same ones.  An ENV of the name above the use is left out: it
\* hides the argument (extractarg.go:287-482, 591-653).
BuildsTheSame ==
  (last.op.kind = "extract" /\ last.end = "written") =>
    BuildsAlike(Parse(last.was), Parse(file), last.op.at)
=============================================================================
