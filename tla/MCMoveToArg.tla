---------------------------- MODULE MCMoveToArg ----------------------------
(***************************************************************************)
(* Instances of MoveToArg: files with stages, comments above instructions, *)
(* continuations with a comment inside, closed and open heredocs, another  *)
(* escape character, CRLF endings, a byte order mark, a # inside a line, a *)
(* continuation with nothing after it, and the arrangements of ARG and ENV *)
(* that decide where a declaration may go.                                 *)
(***************************************************************************)
EXTENDS MoveToArg

L(kind, words) == [kind |-> kind, words |-> words, tail |-> <<>>, esc |-> "", opens |-> {}, eol |-> "lf"]
Code(words) == L("code", words)
Note == L("comment", <<Word("note")>>)
Blank == L("blank", <<>>)
Directive(k, v) == L("directive", <<Pair(k, "=", v)>>)
Continued(l, e) == [l EXCEPT !.esc = e]
Opening(l, d) == [l EXCEPT !.opens = d]
Ends(lines, eol) == [i \in DOMAIN lines |-> [lines[i] EXCEPT !.eol = IF i = Len(lines) THEN "none" ELSE eol]]
File(lines) == [bom |-> FALSE, lines |-> Ends(lines, "lf")]

Base(w) == Code(<<Word("FROM"), w>>)
FromAs(w, n) == Code(<<Word("FROM"), w, Word("AS"), Word(n)>>)
node == Pair("node", ":", "18")
Is(name, k, v) == Code(<<Word(name), Pair(k, "=", v)>>)
Use(name, n) == Code(<<Word(name), Word("make"), Refers("V", "=", n)>>)

\* Comments above a stage and above an instruction, a comment inside a
\* continuation, a flag, a blank line between the stages.
Plain ==
  <<Directive("syntax", "1"), Note, Is("ARG", "NODE_VERSION", "18"), Note,
    FromAs(node, "build"), Continued(Code(<<Word("RUN"), Word("a")>>), "backslash"), Note,
    Code(<<Word("b")>>), Blank, Note, Code(<<Word("FROM"), Word("--platform"), Refers("node", ":", "NODE_VERSION")>>),
    Note, Is("LABEL", "X", "1"), Note>>

\* A heredoc whose body reads like a stage, and one that never closes.
Heredocs ==
  <<Base(node), Opening(Code(<<Word("RUN"), Word("cat")>>), {"EOF", "END"}), Code(<<Word("END")>>),
    Base(node), Code(<<Word("EOF")>>), FromAs(node, "build"), Is("ENV", "X", "1"),
    Opening(Code(<<Word("COPY"), Word("a")>>), {"EOF"}), Code(<<Word("RUN"), Word("b")>>), Blank>>

\* The escape character is a backtick: a line may end in a backslash.
Backtick ==
  <<Directive("escape", "backtick"), FromAs(node, "build"),
    Continued(Code(<<Word("COPY"), Word("dir")>>), "backslash"),
    Continued(Code(<<Word("RUN"), Word("a")>>), "backtick"), Code(<<Word("FROM"), Word("b")>>),
    Is("ENV", "X", "1"), Blank>>

\* Declarations of X in the preamble and in both stages, with and without a default.
Scopes ==
  <<Is("ARG", "X", "1"), Base(node), Is("ENV", "A", "1"), Is("LABEL", "B", "2"),
    Is("ARG", "X", "1"), Use("RUN", "X"), Base(Pair("node", "@", "sha")),
    Is("LABEL", "X", "1"), Use("RUN", "X"), Code(<<Word("ARG"), Word("X")>>), Use("RUN", "X"), Is("LABEL", "C", "1")>>

\* An ENV of the name, two assignments, a quoted value, a key that is no name, a
\* later declaration of another value.
Odd ==
  <<Code(<<Word("ARG"), Word("X")>>), Base(node), Is("ENV", "X", "1"), Use("RUN", "X"),
    Code(<<Word("ENV"), Pair("A", "=", "1"), Pair("B", "=", "1")>>), Is("LABEL", "Y", "a b"),
    Is("LABEL", "org.name", "1"), Is("ARG", "Y", "2"), Use("RUN", "Y")>>

\* Lines with words from a # on, one of them continued, and a last line that
\* goes on into nothing.
Tailed(l) == [l EXCEPT !.tail = <<Word("#"), Word("why")>>]
Ragged ==
  <<Tailed(Is("ARG", "X", "1")), Tailed(Base(node)), Tailed(Is("ENV", "X", "1")),
    Continued(Tailed(Code(<<Word("RUN"), Word("a")>>)), "backslash"), Code(<<Word("b")>>),
    Continued(Is("ENV", "Y", "2"), "backslash")>>

\* The body the planner does not survive.
Empty == <<Base(node), Is("ENV", "A", "")>>

MCSources ==
  {File(Plain), File(Heredocs), File(Backtick), File(Scopes), File(Odd), File(Empty), File(<<Directive("check", "1"), Blank>>),
   [bom |-> FALSE, lines |-> Ends(Plain, "crlf")],
   File(Ragged), [bom |-> FALSE, lines |-> Ends(Ragged, "crlf")], File(Append(Ragged, Note)),
   [bom |-> TRUE, lines |-> Ends(<<Is("ARG", "X", "1"), Base(node), Is("LABEL", "X", "1")>>, "lf")],
   [bom |-> TRUE, lines |-> Ends(<<Note, Base(node), Is("ENV", "X", "1")>>, "crlf")]}

MCImages == {Pair("alpine", ":", "3")}
MCBodies == {<<Pair("X", "=", "1")>>}
MCTexts == {[Code(<<Word("RUN"), Word("c")>>) EXCEPT !.eol = "none"],
            [Code(<<Word("RUN"), Word("d")>>) EXCEPT !.eol = "none", !.esc = "backslash"]}
MCStageNames == {"", "build"}
MCArgNames == {"", "X"}
MCVocabulary == {"FROM", "RUN", "ENV", "ARG", "LABEL", "COPY"}
MCFlagNames == {"--platform"}
MCVersionName == [k \in {"node", "alpine"} |-> "NODE_VERSION"]
MCNotNames == {"org.name"}
MCNotBare == {"a b"}
=============================================================================
