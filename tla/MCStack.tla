------------------------------- MODULE MCStack -------------------------------
(***************************************************************************)
(* The projects the runs of Stack start from, a family for each part of    *)
(* the resolution.                                                         *)
(***************************************************************************)
EXTENDS Stack

A    == <<"p", "a">>
B    == <<"p", "b">>
C    == <<"q", "c">>
DotEnv == <<"p", ".env">>

Disk(docs)        == [docs |-> docs, env |-> Empty, built |-> {}]
At1(d, ch)        == [disk |-> d, chain |-> ch, active |-> {}, asks |-> {}]
Proj(svcs)        == Map("services" :> Map(svcs))
Image             == "image" :> Word("img")
Svc(f)            == Map(f @@ Image)

(* Merging: what two files may say of one attribute, in every order.       *)
Says1 == {Node, Word("s"), Reset, Map("A" :> Word("1")),
          Override(Map("B" :> Word("2"))), Map("A" :> Reset @@ "B" :> Word("1")),
          List(<<Str(<<"A", "1">>), Str(<<"B", "1">>)>>), Words(<<"B">>),
          Override(List(<<Str(<<"A", "2">>)>>))}
Attr(a, n) == Proj("web" :> Svc(a :> n))
Wholes == {Proj("web" :> Reset), Proj("web" :> Node), Map("services" :> Reset),
           Proj("web" :> Override(Svc("environment" :> Words(<<"C">>))))}
Chains == {<<A, B>>, <<A, B, A>>}

Merges ==
  {At1(Disk(A :> Attr("environment", x) @@ B :> Attr("environment", y)), ch) :
     x \in Says1, y \in Says1, ch \in Chains}
  \cup {At1(Disk(A :> Attr("command", x) @@ B :> w), ch) :
          x \in Says1, w \in Wholes, ch \in Chains}

(* Interpolation: every operator, over a name that is set, empty, unset.   *)
Ops == {":-", "-", ":+", "+", ":?", "?", "%"}
Interpolated ==
  {[disk |-> [docs |-> A :> Attr("label", VarOp(n, op, Var("SET"))),
              env |-> DotEnv :> ("SET" :> <<"v">> @@ "NIL" :> <<"">>), built |-> {}],
    chain |-> <<A>>, active |-> {}, asks |-> {}] : n \in {"SET", "NIL", "NO"}, op \in Ops}

(* extends: every choice of a base by three services, one of them missing, *)
(* and a base in another file that itself extends.                         *)
Bases1 == {"none", "x", "y", "z", "gone", "far"}
Ext(b) == CASE b = "none" -> Empty
            [] b = "far"  -> "extends" :> Map("service" :> Word("z") @@
                                              "file" :> Str(<<"q", "c">>))
            [] OTHER      -> "extends" :> Word(b)
Far == Proj("z" :> Svc("extends" :> Word("root") @@ "links" :> Words(<<"root">>))
              @@ "root" :> Svc("environment" :> Map("R" :> Var("R"))))
Extending ==
  {At1(Disk(A :> Proj("x" :> Svc(Ext(f["x"]) @@ "environment" :> Map("X" :> Word("1")))
                        @@ "y" :> Svc(Ext(f["y"]) @@ "environment" :> Words(<<"Y">>)
                                        @@ "depends_on" :> Words(<<"z">>))
                        @@ "z" :> Svc(Ext(f["z"]) @@ "environment" :> Map("X" :> Word("2"))))
              @@ C :> Far), <<A>>) :
     f \in [{"x", "y", "z"} -> Bases1]}

(* Dependencies: every graph over three services, one of which may depend  *)
(* on itself.                                                              *)
Listed1(S) == Words(InSomeOrder(S))
Depending ==
  {At1(Disk(A :> Proj([s \in {"x", "y", "z"} |-> Svc("depends_on" :> Listed1(f[s]))])), <<A>>) :
     f \in {g \in [{"x", "y", "z"} -> SUBSET {"x", "y", "z"}] : "y" \notin g["y"] /\ "z" \notin g["z"]}}

(* Profiles: what each of three services asks for, and who refers to whom; *)
(* two of them name a service and a network that nothing declares.         *)
Asked == {Empty, "profiles" :> Words(<<"dev">>), "profiles" :> Words(<<"dev", "test">>)}
Profiled ==
  {[disk |-> Disk(A :> Proj("x" :> Svc(p["x"] @@ "depends_on" :> Words(<<"y", "out">>)
                                          @@ "networks" :> Words(<<"lan">>))
                        @@ "y" :> Svc(p["y"] @@ "links" :> Words(<<"z", "out">>)
                                          @@ "networks" :> Map("lan" :> Node))
                        @@ "z" :> Svc(p["z"] @@ "network_mode" :> Str(<<"service", "x">>)))),
    chain |-> <<A>>, active |-> act, asks |-> {}] :
     p \in [{"x", "y", "z"} -> Asked], act \in {{}, {<<"dev">>}, {<<"test">>}}}

(* include, anchors and merge keys: values from many places.               *)
Common == Map("L" :> Word("1") @@ "M" :> Word("2"))
Shared ==
  {At1(Disk(A :> Map("x-common" :> Common
                 @@ "services" :> Map("web" :> Svc("labels" :>
                       Map("<<" :> m @@ "M" :> Word("3"))))
                 @@ "include" :> inc)
         @@ B :> Attr("labels", lab)
         @@ C :> Map("services" :> Map("far" :> Svc(Empty)) @@ "include" :> back)), ch) :
     m \in {AliasOf(Common, <<"x-common">>), Map("N" :> Word("4")),
            List(<<AliasOf(Common, <<"x-common">>), Map("L" :> Word("5") @@ "N" :> Word("6"))>>),
            Word("bad")},
     inc \in {Word("b"), List(<<Word("b"), Map("path" :> Str(<<"q", "c">>))>>),
              Words(<<"a">>), Node},
     lab \in {Map("L" :> Word("7")), Words(<<"K">>)},
     back \in {List(<<>>), List(<<Str(<<"p", "a">>)>>)},
     ch \in {<<A>>, <<A, B>>}}

(* Findings and their fixes, over two files.  A health check: absent, one  *)
(* that runs, one that is off, one that never runs.                        *)
True1 == Word("true")
Runs  == "test" :> Words(<<"CMD", "ok">>)
Never == "test" :> Words(<<"NONE">>)
Off   == "disable" :> True1
Check(f) == "healthcheck" :> f
Waiter == "web" :> Svc("depends_on" :> Map("db" :> Map("condition" :> Word("service_healthy"))))
Waiting(x, y) ==
  At1(Disk(A :> Proj(Waiter @@ "db" :> Svc(x)) @@ B :> Proj("db" :> Svc(y))), <<A, B>>)
Checks == {Empty, Check(Map(Runs)), Check(Map(Off @@ Runs)), Check(Map(Off)), Check(Reset)}
(* A check whose test stands in another file than its `disable`, or would  *)
(* never run, is for the run that expects the fix to fail.                 *)
Parted == {<<Check(Map(Runs)), Check(Map(Off))>>, <<Check(Map(Never)), Check(Map(Off))>>,
           <<Check(Map(Off @@ Never)), Empty>>}
Unready == {Waiting(h[1], h[2]) : h \in (Checks \X Checks) \ Parted}
             \cup {Waiting(Check(Map(Never)), y) : y \in {Empty, Check(Map(Runs)), Check(Reset)}}
PartedChecks == {Waiting(h[1], h[2]) : h \in Parted}

(* Ports and credentials in lists, on lines of their own or all on one.    *)
P(t) == Str(t)
Long(pub) == Map("target" :> Word("80") @@ "published" :> Word(pub))
Lists(x, y, z) ==
  {List(<<x, y>>), List(<<y, x>>), Flow(List(<<x, y>>)), List(<<z>>), Flow(List(<<z>>))}
Ports  == Lists(P(<<"80", "80">>), P(<<"8080", "8080">>), P(<<"80-81", "80">>))
            \cup {List(<<Long("8080"), P(<<"9000">>)>>)}
Secrets == Lists(Str(<<"A", "1">>), Str(<<"PASSWORD", "pw">>), Str(<<"KEY", "AKIA">>))
             \cup {Map("PASSWORD" :> Word("pw") @@ "A" :> Word("1")),
                   Flow(Map("PASSWORD" :> Word("pw") @@ "KEY" :> Word("AKIA"))),
                   Map("PASSWORD" :> Var("HOST")), Words(<<"PASSWORD">>)}
WebEnv == <<"services", "web", "environment">>
Publishing ==
  {At1(Disk(A :> Proj("db" :> Svc("ports" :> x) @@ "web" :> Svc("ports" :> y))
         @@ B :> Proj("web" :> Svc("ports" :> z))), <<A, B>>) :
     x \in Ports, y \in Ports, z \in Lists(P(<<"80", "80">>), P(<<"9000", "81">>), P(<<"8080", "80">>))}
Secretive ==
  {At1(Disk(A :> Attr("environment", x) @@ B :> Attr("environment", y)), <<A, B>>) :
     x \in Secrets, y \in Secrets}
  \cup {At1(Disk(A :> Map("x-env" :> x @@ "services" :>
                      Map("web" :> Svc("environment" :> AliasOf(x, <<"x-env">>))))), <<A>>) :
           x \in Secrets}
  \cup {At1(Disk(A :> Proj("web" :> Svc("environment" :> x) @@
                           "job" :> Svc("environment" :> AliasOf(x, WebEnv)))), <<A>>) :
           x \in Secrets}

(* Resources somebody uses, nobody does, or only another profile does; the *)
(* obsolete version; a build without its file.                             *)
Mount(src) == "volumes" :> List(<<Str(<<src, "/d">>)>>)
Owned ==
  {At1(Disk(A :> Map("services" :> Map("web" :> Svc(Mount("data")) @@ "job" :> Svc(Mount("old") @@ pr @@ bd))
                 @@ "volumes" :> x @@ v)
         @@ B :> Map("services" :> Map(Empty) @@ "volumes" :> y @@ v)), <<A, B>>) :
     x \in {Map("data" :> Node @@ "old" :> Node @@ "idle" :> Node), Map("idle" :> Map("driver" :> Word("d")))},
     y \in {Map("idle" :> Node), Map("other" :> Node), Reset, Node},
     v \in {Empty, "version" :> Word("3")},
     pr \in {Empty, "profiles" :> Words(<<"dev">>)},
     bd \in {Empty, "build" :> Word("app"), "build" :> Map("context" :> Var("WHERE"))}}

(* Resources declared on a line each, or all on one.                       *)
Volumes == Map("data" :> Node @@ "idle" :> Node)
OnOneLine ==
  {At1(Disk(A :> Map("services" :> Map("web" :> Svc(Mount("data"))) @@ "volumes" :> v)), <<A>>) :
     v \in {Volumes, Flow(Volumes)}}

(* Typing: into values of the service's own, merged from one mapping or    *)
(* from two, behind an alias, under an anchor, on one line, with no value, *)
(* and in keys that are not there.                                         *)
Web(p)  == <<"services", "web">> \o p
Typing  ==
  {Web(<<k>>) : k \in {"image", "restart", "hostname", "labels", "title", "deploy", "new"}}
    \cup {Web(p) : p \in {<<"logging", "driver">>, <<"logging", "new">>, <<"environment", "E">>,
                         <<"environment", "new">>, <<"command", "0">>, <<"command", "7">>,
                         <<"labels", "L">>, <<"deploy", "a">>, <<"deploy", "new">>,
                         <<"healthcheck", "test">>}}
    \cup {<<"x-title">>, <<"x-base", "restart">>, <<"x-base", "new">>, <<"x-env", "E">>,
          <<"x-env", "new">>, <<"services", "job", "restart">>, <<"x-new", "a">>}
Asks(f, ps) == {[op |-> "type", file |-> f, path |-> p, text |-> <<t>>] :
                  p \in ps, t \in {"typed", "img"}}
XBase   == Map("restart" :> Word("no") @@ "hostname" :> Node
                 @@ "logging" :> Map("driver" :> Word("d") @@ "opt" :> Word("o")))
Other   == Map("restart" :> Word("yes") @@ "new" :> Word("n"))
XEnv    == Map("E" :> Word("1"))
BaseRef == AliasOf(XBase, <<"x-base">>)
Written(mrg, own) ==
  Map("x-base" :> XBase @@ "x-other" :> Other @@ "x-env" :> XEnv @@ "x-title" :> Word("t")
        @@ "services" :> Map(
             "web" :> Svc(own @@ "<<" :> mrg @@ "environment" :> AliasOf(XEnv, <<"x-env">>)
                            @@ "title" :> AliasOf(Word("t"), <<"x-title">>)
                            @@ "command" :> Words(<<"run", "it">>) @@ "labels" :> Node
                            @@ "deploy" :> Flow(Map("a" :> Word("1"))))
               @@ "job" :> Svc("<<" :> BaseRef)))
Typed ==
  {[At1(Disk(A :> Written(m, own) @@ B :> Attr("restart", Word("b"))), ch) EXCEPT !.asks = Asks(A, Typing)] :
     m \in {BaseRef, List(<<AliasOf(Other, <<"x-other">>), BaseRef>>)},
     own \in {Empty, "restart" :> Word("own"), "labels" :> Map("L" :> Node)},
     ch \in {<<A>>, <<A, B>>}}

(* Declaring: names nobody has, this file has, another file has, a merge   *)
(* brings or YAML misreads, in files with and without the block.           *)
Declaring ==
  {[op |-> "declare", file |-> f, block |-> b, name |-> n, text |-> t] :
     f \in {A, B}, b \in {"services", "networks"}, n \in {"web", "job", "front", "new", "yes"},
     t \in {<<>>, <<"img2">>}}
Lone  == Map("job" :> Svc("networks" :> Words(<<"front">>)))
Fronts == {Empty, "networks" :> Node, "networks" :> Map("front" :> Map("driver" :> Word("d"))),
           "networks" :> Flow(Map("front" :> Node))}
Declared ==
  {[At1(Disk(A :> Map("services" :> s @@ n) @@ B :> b), <<A, B>>) EXCEPT !.asks = Declaring] :
     s \in {Node, Map("web" :> Svc(Empty)),
            Map("<<" :> AliasOf(Lone, <<"x-lone">>) @@ "web" :> Svc("depends_on" :> Words(<<"new">>)))},
     n \in {f @@ "x-lone" :> Lone : f \in Fronts},
     b \in {Map("x-b" :> Node), Map("services" :> Lone), Map("networks" :> Map("front" :> Node)),
            Map(Empty)}}

MCEdits        == Typed \cup Declared
MCMisread      == {"yes"}
MCSecretNames  == {"PASSWORD"}
MCSecretValues == {"AKIA"}
MCHostPaths    == {"./src"}
MCPortsOf      == "80" :> {80} @@ "8080" :> {8080} @@ "80-81" :> {80, 81}
MCExplicit     == Empty
MCHost         == "HOST" :> <<"h">>

MCProjects == Merges \cup Interpolated \cup Extending \cup Depending \cup Profiled \cup Shared
                \cup Unready \cup Publishing \cup Secretive \cup Owned
                \cup Typed \cup Declared
=============================================================================
