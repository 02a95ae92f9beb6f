-------------------------------- MODULE Stack --------------------------------
(***************************************************************************)
(* A project from its files to its report and back: the chain is read and  *)
(* merged a file at a time, `extends` is applied a service at a time, the  *)
(* model is swept and checked, the graph is built and layered, the rules   *)
(* report; then a fix the report offers, a value typed into a field or a   *)
(* declaration is written to its file, after which the project is read     *)
(* again (resolve.LoadWith, topology.Build, diagnose.AnalyzeProject,       *)
(* edit.Plan, edit.Apply).                                                 *)
(***************************************************************************)
EXTENDS Editing

CONSTANTS Projects,    \* what may be on disk: a disk, a chain, the profiles,
                       \* and what the reader may ask for (asks)
          Size,        \* the most services a project has
          MaxFixes     \* how many fixes are applied, one after the other

VARIABLES disk, chain, active, asks,
          phase, taken,     \* how many files of the chain are read
          loader, merged,   \* merged: the model before `extends`
          todo,             \* the services `extends` is still to be applied to
          graph, report,
          fixed,            \* the fixes applied, the last one last
          edited            \* what was asked for and done; the model and the file before

(* The state of stronglyConnected.                                         *)
VARIABLES adj, index, low, onStack, comp, stack, next, root, work, components
Tarjan == INSTANCE Components

layering == <<adj, index, low, onStack, comp, stack, next, root, work, components>>
project == <<disk, chain, active, asks>>
edits == <<fixed, edited>>
vars == <<project, phase, taken, loader, merged, todo, graph, report, edits, layering>>

NoEdit  == [ask |-> [op |-> "none"], was |-> Absent, doc |-> Node]
NoGraph == [profiles |-> {}, nodes |-> Empty, edges |-> {}, dangling |-> {}]

Init == /\ \E p \in Projects : disk = p.disk /\ chain = p.chain /\ active = p.active
                                /\ asks = p.asks
        /\ phase = "open" /\ taken = 0
        /\ loader = Loader /\ merged = Absent /\ todo = {}
        /\ graph = NoGraph /\ report = {} /\ fixed = <<>> /\ edited = NoEdit
        /\ Tarjan!Init

Outcome(l, then) == phase' = IF l.err = "" THEN then ELSE "failed"

-----------------------------------------------------------------------------
(* LoadWith: every file of the chain is looked at before any is read.      *)
Open ==
  /\ phase = "open"
  /\ loader' = Entered(disk, chain)
  /\ Outcome(loader', "read")
  /\ taken' = 0
  /\ UNCHANGED <<project, merged, todo, graph, report, edits, layering>>

Read ==
  /\ phase = "read" /\ taken < Len(chain)
  /\ loader' = ChainStep(disk, loader, chain, taken + 1)
  /\ Outcome(loader', "read")
  /\ taken' = taken + 1
  /\ UNCHANGED <<project, merged, todo, graph, report, edits, layering>>

StartExtends ==
  /\ phase = "read" /\ taken = Len(chain)
  /\ merged' = loader.out
  /\ todo' = KeysOf(ServicesIn(loader.out))
  /\ phase' = "extend"
  /\ UNCHANGED <<project, taken, loader, graph, report, edits, layering>>

Extend(s) ==
  /\ phase = "extend" /\ s \in todo
  /\ loader' = ExtendStep(disk, loader, s)
  /\ Outcome(loader', "extend")
  /\ todo' = todo \ {s}
  /\ UNCHANGED <<project, taken, merged, graph, report, edits, layering>>

Sweep ==
  /\ phase = "extend" /\ todo = {}
  /\ loader' = Finished(loader)
  /\ Outcome(loader', "model")
  /\ UNCHANGED <<project, taken, merged, todo, graph, report, edits, layering>>

(* Build; the services get their numbers in the order of their paths.      *)
Numbered(g)  == InSomeOrder({p \in DOMAIN g.nodes : g.nodes[p].kind = "services"})
Adjacency(g) ==
  LET paths == Numbered(g)
  IN [i \in DOMAIN paths |-> {j \in DOMAIN paths : paths[j] \in DependsOut(g)[paths[i]]}]

Build ==
  /\ phase = "model"
  /\ LET g == Graph(loader.out, active)
     IN graph' = g /\ Tarjan!Given(Adjacency(g))
  /\ phase' = "layers"
  /\ UNCHANGED <<project, taken, loader, merged, todo, report, edits>>

Arrange ==
  /\ phase = "layers" /\ Tarjan!Turn
  /\ UNCHANGED <<project, phase, taken, loader, merged, todo, graph, report, edits>>

Members(c) == {Numbered(graph)[n] : n \in c}

Analyze ==
  /\ phase = "layers" /\ Tarjan!Done
  /\ report' = Report(disk, loader, graph, {Members(c) : c \in Tarjan!Cycles})
  /\ phase' = "shown"
  /\ UNCHANGED <<project, taken, loader, merged, todo, graph, edits, layering>>

Lands(file, got) == got.err = "" /\ disk' = [disk EXCEPT !.docs[file] = got.doc]

ApplyFix(f) ==
  /\ phase = "shown" /\ edited = NoEdit /\ Len(fixed) < MaxFixes
  /\ f.fix # NoFix
  /\ Lands(f.fix.file, Performed(disk.docs[f.fix.file], <<f.fix>>))
  /\ fixed' = Append(fixed, [finding |-> f, past |-> At(loader.out, f.fix.path).past])
  /\ phase' = "open"
  /\ UNCHANGED <<chain, active, asks, taken, loader, merged, todo, graph, report, edited, layering>>

(* What the reader asks for is done to its file, or refused.  A behaviour   *)
(* has fixes, or one thing the reader typed or declared.                   *)
Unedited == edited = NoEdit /\ fixed = <<>>
Do(r, was, ops) ==
  /\ Lands(r.file, Performed(disk.docs[r.file], ops))
  /\ edited' = [ask |-> r, was |-> was, doc |-> disk.docs[r.file]]
  /\ phase' = "open"
  /\ UNCHANGED <<chain, active, asks, taken, loader, merged, todo, graph, report, fixed, layering>>

TypeIn(r) ==
  /\ phase = "shown" /\ Unedited /\ r.op = "type"
  /\ Field(loader.out, disk.docs[r.file], r.path)
  /\ Do(r, loader.out, TypedOps(loader.out, disk.docs[r.file], r.file, r.path, Str(r.text)))

(* A project that does not resolve is not held against a declaration.      *)
Known == IF phase = "shown" THEN loader.out ELSE Absent
Declare(r) ==
  /\ phase \in {"shown", "failed"} /\ Unedited /\ r.op = "declare"
  /\ MayDeclare(disk.docs[r.file], Known, r)
  /\ Do(r, Known, DeclareOps(disk.docs[r.file], r))

Next == \/ Open \/ Read \/ StartExtends \/ Sweep \/ Build \/ Arrange \/ Analyze
        \/ \E s \in todo : Extend(s)
        \/ \E f \in report : ApplyFix(f)
        \/ \E r \in asks : TypeIn(r) \/ Declare(r)

(* stronglyConnected is a loop of one goroutine that waits for nothing.    *)
Spec == Init /\ [][Next]_vars /\ WF_vars(Arrange)

-----------------------------------------------------------------------------
(* References for the properties, written from the documents alone.        *)

Resolved == phase = "model"      \* the model, once it is whole

Doc(i)      == disk.docs[chain[i]]
Up(p)       == Above(p) \ {<<>>}
Places      == UNION {Paths(Doc(i)) : i \in DOMAIN chain}
Scalars     == {"scalar", "var"}
Says(i, p)  == At(Doc(i), p).kind \in Scalars
Mapped(i, q) == At(Doc(i), q).kind = "map" /\ At(Doc(i), q).tag = "none"

(* File i takes back what earlier files say at p: it writes something else *)
(* there, or something above it that is not more of the same mapping.      *)
TakesBack(i, p, same) ==
  \/ \E q \in Up(p) : At(Doc(i), q).kind # "absent" /\ ~Mapped(i, q)
  \/ At(Doc(i), p).kind # "absent"
       /\ (At(Doc(i), p).kind \notin same \/ At(Doc(i), p).tag # "none")

ThroughMappings(p) ==
  \A q \in Above(p) : \A i \in DOMAIN chain : At(Doc(i), q).kind \in {"absent", "null", "map", "scalar"}

LastOf(S) == CHOOSE i \in S : \A j \in S : j <= i
Speaker(p) == LET S == {i \in DOMAIN chain : Says(i, p)}
              IN IF S = {} \/ \E j \in DOMAIN chain : j > LastOf(S) /\ TakesBack(j, p, Scalars)
                 THEN 0 ELSE LastOf(S)

(* A list whose entries carry names: the files heard, and what each name's *)
(* last entry says.                                                        *)
Listing(p) == {i \in DOMAIN chain : /\ At(Doc(i), p).kind = "seq"
                                    /\ ~\E j \in DOMAIN chain : j > i /\ TakesBack(j, p, {"seq"})}
EntriesOf(n) == {n.items[i].text : i \in DOMAIN n.items}
NamedIn(i, p) == {t[1] : t \in EntriesOf(At(Doc(i), p))}
Listed(p) ==
  {t \in UNION {EntriesOf(At(Doc(i), p)) : i \in Listing(p)} :
     t \in EntriesOf(At(Doc(LastOf({i \in Listing(p) : t[1] \in NamedIn(i, p)})), p))}

(* Projects whose files name no other file and share no mapping, where the *)
(* chain is all there is to a value.                                       *)
Plain ==
  /\ \A i \in DOMAIN chain : At(Doc(i), <<"include">>).kind = "absent"
  /\ \A p \in Places : /\ Last(<<"">> \o p) \notin {"<<", "extends"}
                       /\ \A i \in DOMAIN chain : At(Doc(i), p).kind # "absent" =>
                                                    At(Doc(i), p).from = <<>>

TextAt(f, n) == Expand(n, FileEnv(disk, f)).text

-----------------------------------------------------------------------------
(* Correctness.                                                            *)

(* The value a merged model holds is the one written last and not taken    *)
(* back since (`!reset`, `!override`, another kind, a value above it), and *)
(* its origin names the position in the chain that wrote it; a list whose  *)
(* entries have names keeps each name once, at its last value (merge.go).  *)
LastWordWins ==
  (Resolved /\ Plain) =>
    \A p \in {q \in Places : q # <<>> /\ ThroughMappings(q)} :
      LET v == At(loader.out, p)
          i == Speaker(p)
      IN /\ (i # 0) = (v.kind = "scalar")
         /\ i # 0 => v.text = TextAt(chain[i], At(Doc(i), p)) /\ v.org.step = i
         /\ (v.kind = "seq") = (Listing(p) # {})
         /\ (v.kind = "seq" /\ Attribute(p) \in ByName) =>
              /\ EntriesOf(v) = Listed(p)
              /\ \A j, k \in DOMAIN v.items : v.items[j].text[1] = v.items[k].text[1] => j = k

(* Where the key at the end of a path was written.                         *)
KeyAt(p) == IF p # <<>> /\ At(loader.out, Front(p)).kind = "map"
            THEN At(loader.out, Front(p)).at[Last(p)] ELSE NoOrigin

(* Where the model says a value or a key was written, it is written: the   *)
(* place is in that file, holds that text, and the step is a position of   *)
(* that file in the resolution order (origin.go).                          *)
OriginsSpeakTrue ==
  Resolved =>
    \A p \in Paths(loader.out) \ {<<>>} :
      LET v == At(loader.out, p)
          n == At(disk.docs[v.org.file], v.org.at)
          k == KeyAt(p)
      IN /\ loader.files[v.org.step] = v.org.file
         /\ n.kind # "absent"
         /\ v.kind = "scalar" => n.kind \in Scalars /\ TextAt(v.org.file, n) = v.text
         /\ v.kind = "null"   => n.kind = "null"
         /\ k # NoOrigin =>
              /\ loader.files[k.step] = k.file
              /\ Last(k.at) = Last(p) /\ At(disk.docs[k.file], k.at).kind # "absent"

Extends(s)  == Get(ServicesIn(merged).keys[s], "extends")
Base(s)     == BaseOf(Project, Extends(s))
Within      == KeysOf(ServicesIn(merged))
RECURSIVE Bases(_, _)
Bases(s, seen) ==
  IF s \notin Within \/ s \in seen \/ Extends(s).kind = "absent" \/ Base(s).file # Project
  THEN seen ELSE Bases(Base(s).name, seen \cup {s})
OwnBase(s) == /\ s \in Within /\ Extends(s).kind # "absent"
              /\ Base(s).file = Project /\ s \in Bases(Base(s).name, {})
BaseIsRead(s) == Extends(s).kind # "absent" => Base(s).file \in DOMAIN loader.docs \cup {Project}
RECURSIVE Inherits(_, _)
Inherits(file, name) ==
  LET doc  == IF file = Project THEN merged ELSE loader.docs[file]
      own  == ServicesIn(doc).keys[name]
      b    == BaseOf(file, Get(own, "extends"))
  IN IF Has(own, "extends") THEN Derived(Inherits(b.file, b.name), own, name).v ELSE own

(* Whatever order the services are taken in, each ends as its own          *)
(* declaration on top of its base's result, and the resolution gives up    *)
(* over a cycle exactly when a service is its own base in the end          *)
(* (extends.go).                                                           *)
ExtendsSettles ==
  LET done == phase = "extend" /\ todo = {}
      out  == ServicesIn(loader.out).keys
  IN /\ (phase = "failed" /\ loader.err = "extends-cycle" /\ \A f \in DOMAIN disk.docs : f \in Range(chain))
          => \E s \in Within : OwnBase(s)
     /\ done => /\ \A s \in Within : ~OwnBase(s) /\ BaseIsRead(s)
                /\ \A s \in Within : out[s] = Inherits(Project, s)

(* A node as the graph with every profile has it.  One that nothing        *)
(* declares is placed where a service that is shown refers to it: which of *)
(* them is first depends on the profiles.                                  *)
AsDeclared(g, all, p) ==
  LET n == g.nodes[p]
  IN /\ n = [all.nodes[p] EXCEPT !.org = IF n.declared THEN @ ELSE n.org]
     /\ n.declared \/ \E e \in g.edges : e.to = p /\ e.org = n.org

(* Profiles only hide: under any of them every edge joins two nodes of the *)
(* graph, what is shown is what the graph with every profile shows, and    *)
(* what is missing there is an inactive service or hangs on one, each      *)
(* reference to it reported as dangling; what nothing declares is placed   *)
(* at a reference that is shown (build.go).                                *)
ProfilesOnlyHide ==
  phase = "shown" =>
    LET all    == Graph(loader.out, DeclaredProfiles(loader.out))
        svcs   == ServicesIn(loader.out)
        Hides(p) == p[1] = "services" /\ p[2] \in KeysOf(svcs) \ ActiveServices(loader.out, active)
    IN /\ \A e \in graph.edges : {e.from, e.to} \subseteq DOMAIN graph.nodes
       /\ \A p \in DOMAIN graph.nodes : ~Hides(p) /\ AsDeclared(graph, all, p)
       /\ graph.edges = {e \in all.edges : ~Hides(e.from) /\ ~Hides(e.to)}
       /\ \A e \in all.edges : ~Hides(e.from) /\ Hides(e.to) =>
            \E d \in graph.dangling : d.from = e.from /\ d.to = e.to /\ d.reason = "profile"

(* stronglyConnected and assignLayers, on the graph of every project; what *)
(* a service waits on is below it, unless they wait on each other, and the *)
(* two directions of its blast radius agree (graph.go).                    *)
Condenses == Tarjan!Condenses
LayersOrder ==
  /\ Tarjan!LayersOrder
  /\ (phase = "layers" /\ Tarjan!Done) =>
       LET paths == Numbered(graph)
       IN \A i, j \in DOMAIN paths :
            /\ paths[j] \in Dependencies(graph, paths[i])
                 <=> paths[i] \in Dependents(graph, paths[j])
            /\ paths[j] \in Dependencies(graph, paths[i])
                 => comp[i] = comp[j] \/ Tarjan!Layer[j] < Tarjan!Layer[i]

(* A fix names the very place its finding is about: the node it would      *)
(* change is one the model took a value from, under the same keys.         *)
FixOwnsWhatItNames ==
  phase = "shown" =>
    \A f \in {x \in report : x.fix # NoFix} :
      \E p \in Paths(loader.out) :
        LET v == At(loader.out, p)
            k == KeyAt(p)
        IN /\ SameShape(p, f.fix.path)
           /\ \E o \in {v.org, k} : o.file = f.fix.file /\ o.at = f.fix.path
           /\ \E a \in f.anchors : IsPrefix(a.path, p) \/ a.path = p

(* A fix that has been applied answers its finding, and leaves a project   *)
(* that still resolves.  A value that had displaced an earlier one may     *)
(* bring that one back.                                                    *)
FixAnswersIt ==
  (fixed # <<>> /\ Last(fixed).past = <<>>) =>
    /\ phase # "failed"
    /\ phase = "shown" => \A f \in report : ~(f.rule = Last(fixed).finding.rule
                                              /\ f.anchors = Last(fixed).finding.anchors)

(* A fix changes the node it names, with all that is under it, and nothing *)
(* beside it (DeleteKey, structural.go).                                   *)
FixTakesOnlyItsOwn ==
  [][fixed' # fixed =>
       LET fix == Last(fixed').finding.fix
           old == disk.docs[fix.file]
           new == disk'.docs[fix.file]
       IN \A p \in Paths(old) :
            IsPrefix(fix.path, p) \/ IsPrefix(p, fix.path) \/ At(new, p) = At(old, p)]_vars

Reads(doc, f)  == Convert(doc, [file |-> f, env |-> FileEnv(disk, f), step |-> 1], <<>>, <<>>).v
Same(v, w)     == v.kind = w.kind /\ v.text = w.text
Untagged(doc, p) == \A q \in Above(p) \cup {p} : At(doc, q).tag # "reset"
SeenAt(r, old, new) ==
  LET v == At(new, r.path)
  IN /\ v.kind = "scalar" /\ v.text = r.text
     /\ \A q \in Paths(old) \cup Paths(new) :
          \/ IsPrefix(q, r.path)
          \/ At(new, q).org = v.org
          \/ At(old, q).kind # "absent" /\ IsPrefix(At(old, q).org.at, r.path)
          \/ Same(At(old, q), At(new, q))

(* A value typed into a field is what its file says there afterwards, and  *)
(* no other place reads otherwise than before, unless it is the same bytes *)
(* or was written on the way to the field (stageValue, Classify): nothing  *)
(* that a merge or an alias brings is lost or rewritten.                   *)
TypedIsSeen ==
  LET r == edited.ask
  IN (phase = "open" /\ r.op = "type" /\ Untagged(edited.doc, r.path)) =>
       SeenAt(r, Reads(edited.doc, r.file), Reads(disk.docs[r.file], r.file))

TookBack(block) == /\ At(edited.doc, <<block>>).kind = "null"
                   /\ \E i \in DOMAIN chain : /\ chain[i] # edited.ask.file
                                             /\ At(Doc(i), <<block>>).kind # "absent"
Kept(block) == /\ ~TookBack(block)
               /\ \A i \in DOMAIN chain : At(Doc(i), <<block>>).kind = "absent" \/ Mapped(i, <<block>>)

(* A declaration stands: the project resolves as it did, with the name and *)
(* the image it was given, which nothing in it had, and with nothing else  *)
(* changed (edit.Plan, notDeclared).  A file of the chain may take a whole *)
(* block back, with a tag or with a block of nothing: with the declaration *)
(* in it, that block takes nothing back any more.                          *)
DeclaredStands ==
  (edited.ask.op = "declare" /\ edited.was # Absent /\ Kept(edited.ask.block)) =>
    LET r    == edited.ask
        here == <<r.block, r.name>>
        v    == At(loader.out, IF r.text = <<>> THEN here ELSE Append(here, "image"))
    IN /\ phase # "failed"
       /\ phase = "shown" =>
            /\ v.kind = (IF r.text = <<>> THEN "null" ELSE "scalar") /\ v.text = r.text
            /\ \A q \in Paths(loader.out) \cup Paths(edited.was) :
                 IsPrefix(q, here) \/ Same(At(edited.was, q), At(loader.out, q)) \/ IsPrefix(here, q)
            /\ At(edited.was, here).kind = "absent"
=============================================================================
