------------------------------- MODULE Resolve -------------------------------
(***************************************************************************)
(* Resolving a chain of compose files to one model (internal/resolve:      *)
(* resolve.go, load.go, extends.go, profiles.go).                          *)
(*                                                                         *)
(* The DISK is a record: docs, the files and the node each holds; env, the *)
(* `.env` and env files and the names each defines.  A file is a pair      *)
(* <<directory, name>>; a reference of one part is relative to the file    *)
(* that makes it, one of two parts is not.  The LOADER is a record passed  *)
(* from step to step; err holds the first failure, after which nothing is  *)
(* done.                                                                   *)
(***************************************************************************)
EXTENDS Merge, Interpolate

CONSTANTS Explicit, Host      \* the --env layer and the host's variables

Dir(f)      == f[1]
InDir(d, t) == IF Len(t) = 1 THEN <<d, t[1]>> ELSE t

-----------------------------------------------------------------------------
(* Positions.  A place is the path of a token in its file.  A block        *)
(* collection begins at its first token; all of a flow collection is on    *)
(* one line, and the first key of an item is on the item's.                *)

FirstKey(n) == CHOOSE k \in DOMAIN n.keys : TRUE
Block(n)    == n.kind \in {"map", "seq"} /\ ~n.flow /\ Children(n) # Empty
PlaceOf(n, at) ==
  IF ~Block(n) THEN at
  ELSE Append(at, IF n.kind = "map" THEN FirstKey(n) ELSE Index(1))

Above(p)    == {SubSeq(p, 1, i) : i \in 0..(Len(p) - 1)}
Inline(doc, p) == {q \in Above(p) : At(doc, q).kind # "absent" /\ At(doc, q).flow}
Shortest(S) == CHOOSE p \in S : \A q \in S : Len(p) <= Len(q)

RECURSIVE LineOf(_, _)
LineOf(doc, p) ==
  IF Inline(doc, p) # {} THEN LineOf(doc, Shortest(Inline(doc, p)))
  ELSE IF /\ Len(p) > 1
          /\ At(doc, Front(Front(p))).kind = "seq"
          /\ At(doc, Front(p)).kind = "map"
          /\ FirstKey(At(doc, Front(p))) = Last(p)
       THEN LineOf(doc, Front(p))
       ELSE p

-----------------------------------------------------------------------------
(* Conversion: convert, expandAlias, convertMapping, applyMerge.           *)
(* c is the file being converted: its name, its step and its environment.  *)

Converted(v, notes, err) == [v |-> v, notes |-> notes, err |-> err]
FirstErr(errs) == IF errs \ {""} = {} THEN "" ELSE CHOOSE e \in errs : e # ""

Undefined(p, org, n) == Note("undefined-variable", p, org, n)

ConvertScalar(n, c, p, at) ==
  LET org == Origin(c.file, c.step, at)
      x   == Expand(n, c.env)
      v   == [Value("scalar", org) EXCEPT !.text = x.text,
                !.raw = IF n.kind = "var" THEN n.text ELSE <<>>]
  IN Converted(v, {Undefined(p, org, m) : m \in x.missing}
                    \cup (IF x.invalid THEN {Note("invalid-interpolation", p, org, n.text)}
                          ELSE {}),
               IF x.failed THEN "interpolation" ELSE "")

RECURSIVE Convert(_, _, _, _)

(* The mappings a `<<` key names, an earlier one before a later one.       *)
MergeSources(n, c, p, at) ==
  IF "<<" \notin DOMAIN n.keys THEN <<>>
  ELSE LET m == n.keys["<<"]
           s == IF m.kind = "seq" THEN m.items ELSE <<m>>
       IN [i \in DOMAIN s |->
             Convert(s[i], c, p, at \o (IF m.kind = "seq" THEN <<"<<", Index(i)>>
                                        ELSE <<"<<">>))]

(* Where a key of the converted mapping is written: here, or where the     *)
(* source it comes from has it.                                            *)
AtTheMerge(k, own, here, held) == here
KeyPlace(k, own, here, held)   == IF k \in own THEN here ELSE held

(* A key of the mapping itself beats every source and an earlier source a  *)
(* later one; what loses is the winner's past.                             *)
ConvertMapping(n, c, p, at) ==
  LET own  == DOMAIN n.keys \ {"<<"}
      mine == [k \in own |-> Convert(n.keys[k], c, Append(p, k), Append(at, k))]
      src  == MergeSources(n, c, p, at)
      Holding(k) == SelectSeq(src, LAMBDA s : k \in DOMAIN s.v.keys)
      Past(ss, k) == [i \in DOMAIN ss |-> Displaced(ss[i].v.keys[k])]
      Val(k) == LET h == Holding(k)
                IN IF k \in own THEN [mine[k].v EXCEPT !.past = @ \o Past(h, k)]
                   ELSE [h[1].v.keys[k] EXCEPT !.past = @ \o Past(Tail(h), k)]
      keys == own \cup UNION {DOMAIN src[i].v.keys : i \in DOMAIN src}
  IN Converted(
       [Value("map", Origin(c.file, c.step, PlaceOf(n, at))) EXCEPT
          !.keys = [k \in keys |-> Val(k)],
          !.at   = [k \in keys |-> KeyPlace(k, own, Origin(c.file, c.step, Append(at, k)),
                                            Holding(k)[1].v.at[k])]],
       UNION {mine[k].notes : k \in own} \cup UNION {src[i].notes : i \in DOMAIN src},
       FirstErr({mine[k].err : k \in own} \cup {src[i].err : i \in DOMAIN src}
                  \cup {IF src[i].v.kind = "map" THEN "" ELSE "bad-merge" : i \in DOMAIN src}))

Convert(n, c, p, site) ==
  LET at  == IF n.from = <<>> THEN site ELSE n.from
      got ==
        CASE n.tag = "reset" \/ n.kind = "null" ->
               Converted(Value("null", Origin(c.file, c.step, at)), {}, "")
          [] n.kind \in {"scalar", "var"} -> ConvertScalar(n, c, p, at)
          [] n.kind = "seq" ->
               LET e == [i \in DOMAIN n.items |->
                           Convert(n.items[i], c, Append(p, Index(i)), Append(at, Index(i)))]
               IN Converted([Value("seq", Origin(c.file, c.step, PlaceOf(n, at)))
                               EXCEPT !.items = [i \in DOMAIN e |-> e[i].v]],
                            UNION {e[i].notes : i \in DOMAIN e},
                            FirstErr({e[i].err : i \in DOMAIN e}))
          [] OTHER -> ConvertMapping(n, c, p, at)
  IN [got EXCEPT !.v.tag = n.tag]

-----------------------------------------------------------------------------
(* The environment of a file: `.env` beside it, and the env files its      *)
(* services name, themselves interpolated without env files.               *)

Defines(disk, f) == IF f \in DOMAIN disk.env THEN disk.env[f] ELSE Empty
Bootstrap(disk, d) == BuildEnv(Explicit, Host, Defines(disk, <<d, ".env">>), <<>>)

EnvFileRefs(n) ==
  CASE n.kind \in {"scalar", "var"} -> <<n>>
    [] n.kind = "seq" -> [i \in DOMAIN n.items |->
                            IF n.items[i].kind = "map" THEN Get(n.items[i], "path")
                            ELSE n.items[i]]
    [] OTHER -> <<>>

EnvFilePaths(disk, doc, d) ==
  LET svcs  == Get(doc, "services")
      names == IF svcs.kind = "map" THEN InSomeOrder(DOMAIN svcs.keys) ELSE <<>>
      refs  == FlattenSeq([i \in DOMAIN names |->
                             EnvFileRefs(Get(svcs.keys[names[i]], "env_file"))])
      texts == [i \in DOMAIN refs |-> IF refs[i].kind \in {"scalar", "var"}
                                      THEN Expand(refs[i], Bootstrap(disk, d)).text ELSE <<>>]
      named == SelectSeq(texts, LAMBDA t : ~Blank(t))
  IN [i \in DOMAIN named |-> InDir(d, named[i])]

FileEnv(disk, f) ==
  LET paths == EnvFilePaths(disk, disk.docs[f], Dir(f))
  IN BuildEnv(Explicit, Host, Defines(disk, <<Dir(f), ".env">>),
              [i \in DOMAIN paths |-> Defines(disk, paths[i])])

(* The names of the whole document only a borrowed layer supplied.         *)
RECURSIVE BorrowedIn(_, _)
BorrowedIn(n, env) ==
  IF n.tag = "reset" THEN {}
  ELSE Borrowed(n, env)
         \cup UNION {BorrowedIn(Children(n)[k], env) : k \in DOMAIN Children(n)}

-----------------------------------------------------------------------------
(* The loader.                                                             *)

Loader == [files |-> <<>>, docs |-> Empty, notes |-> {}, extended |-> Empty,
           borrowed |-> {}, stack |-> {}, out |-> Absent, err |-> ""]
Failed(l, e) == [l EXCEPT !.err = e]

AddStep(l, f)  == [l EXCEPT !.files = Append(@, f)]
StepOf(l, f)   == SelectInSeq(l.files, LAMBDA g : g = f)
WithStep(l, f) == IF StepOf(l, f) = 0 THEN AddStep(l, f) ELSE l

(* validate and looksLikeTopLevelServices.                                 *)
LegacyFormat(root) ==
  \E k \in DOMAIN root.keys : Has(root.keys[k], "image") \/ Has(root.keys[k], "build")
Invalid(root, strict) ==
  CASE root.kind # "map" -> "not-compose"
    [] Has(root, "services") ->
         IF root.keys["services"].kind \in {"map", "null"} THEN "" ELSE "not-compose"
    [] LegacyFormat(root) -> "legacy"
    [] strict -> "not-compose"
    [] OTHER  -> ""

(* The document just converted becomes the loader's, or stops it.          *)
Accepted(l, n, env, strict, got) ==
  LET bad == Invalid(got.v, strict)
  IN IF got.err # "" THEN Failed(l, got.err)
     ELSE IF bad # "" THEN Failed(l, bad)
     ELSE [l EXCEPT !.out = got.v, !.notes = @ \cup got.notes,
                    !.borrowed = @ \cup BorrowedIn(n, env)]
Converting(l, f, n, env, strict, step) ==
  Accepted(l, n, env, strict, Convert(n, [file |-> f, env |-> env, step |-> step], <<>>, <<>>))

ConvertFileAt(disk, before, f, strict, step) ==
  LET l == IF step = 0 THEN WithStep(before, f) ELSE before
  IN Converting(l, f, disk.docs[f], FileEnv(disk, f), strict,
                IF step = 0 THEN StepOf(l, f) ELSE step)

(* mergeInto at the root, from one loader's model to the next.             *)
MergedRoot(l, m) == [l EXCEPT !.out = m.v, !.notes = @ \cup m.notes]
MergeRoots(l, dst, src) == MergedRoot(l, MergeInto(<<>>, dst, src))
MergeOnto(out, sub) == IF sub.err # "" THEN sub ELSE MergeRoots(sub, out, sub.out)

(* includePaths: the files one entry names, or <<>> when it is bad.        *)
IncludePaths(f, entry) ==
  LET d  == IF Named(Get(entry, "project_directory"))
            THEN InDir(Dir(f), Get(entry, "project_directory").text)[2] ELSE Dir(f)
      pv == Get(entry, "path")
  IN CASE Named(entry) -> <<InDir(Dir(f), entry.text)>>
       [] entry.kind = "map" /\ pv.kind = "scalar" -> <<InDir(d, pv.text)>>
       [] entry.kind = "map" /\ pv.kind = "seq"
            /\ \A i \in DOMAIN pv.items : pv.items[i].kind = "scalar" ->
              [i \in DOMAIN pv.items |-> InDir(d, pv.items[i].text)]
       [] OTHER -> <<>>

RECURSIVE LoadDocAt(_, _, _, _, _)

(* Every included file in turn onto what came before it.                   *)
LoadInto(disk, l, f) ==
  IF l.err # "" THEN l ELSE MergeOnto(l.out, LoadDocAt(disk, l, f, TRUE, 0))

(* expandIncludes: the included files, and the document itself on top.     *)
ExpandIncludes(disk, l, f) ==
  LET doc     == l.out
      inc     == Get(doc, "include")
      entries == CASE inc.kind = "seq" -> inc.items
                   [] inc.kind \in {"scalar", "map"} -> <<inc>>
                   [] OTHER -> <<>>
      Enter(acc, e) ==
        LET paths == IncludePaths(f, e)
        IN IF acc.err # "" THEN acc
           ELSE IF paths = <<>> THEN Failed(acc, "bad-include")
           ELSE FoldLeft(LAMBDA a, g : LoadInto(disk, a, g), acc, paths)
      OnTop(after) ==
        IF after.err # "" THEN after
        ELSE [MergeRoots(after, after.out, Without(doc, {"include"})) EXCEPT !.stack = l.stack]
  IN CASE l.err # "" \/ ~Has(doc, "include") -> l
       [] f \in l.stack -> Failed(l, "include-cycle")
       [] inc.kind = "null" -> Failed(l, "bad-include")
       [] OTHER -> OnTop(FoldLeft(Enter, [l EXCEPT !.out = Absent, !.stack = @ \cup {f}], entries))

(* A chain file is read for its own position; any other is read once.      *)
Remembered(f, step, full) ==
  IF full.err # "" \/ step > 0 THEN full ELSE [full EXCEPT !.docs = (f :> full.out) @@ @]
LoadDocAt(disk, l, f, strict, step) ==
  IF step = 0 /\ f \in DOMAIN l.docs THEN [l EXCEPT !.out = l.docs[f]]
  ELSE IF f \notin DOMAIN disk.docs THEN Failed(l, "not-found")
  ELSE Remembered(f, step, ExpandIncludes(disk, ConvertFileAt(disk, l, f, strict, step), f))

(* Load, one file of the chain at a time: every position has its step      *)
(* before any file is read.                                                *)
Entered(disk, chain) ==
  IF \E i \in DOMAIN chain : chain[i] \notin DOMAIN disk.docs
  THEN Failed(Loader, "not-found")
  ELSE [Loader EXCEPT !.files = chain]

ChainStep(disk, l, chain, i) ==
  IF l.err # "" THEN l ELSE MergeOnto(l.out, LoadDocAt(disk, l, chain[i], i = 1, i))

-----------------------------------------------------------------------------
(* extends.                                                                *)

Project == <<>>               \* extendKey: the project itself, not a file
Excluded == {"extends", "depends_on", "volumes_from", "links"}

ServicesIn(root) == Get(root, "services")

(* serviceIn: the loader with the service, a file's read if it must be.    *)
Located(read, name) ==
  LET svcs == ServicesIn(read.out)
      svc  == Get(svcs, name)
  IN IF read.err # "" THEN read
     ELSE IF svcs.kind # "map" \/ svc.kind # "map" THEN Failed(read, "extends-target")
     ELSE [read EXCEPT !.out = svc]
ServiceIn(disk, l, file, name, root) ==
  Located(IF file = Project THEN [l EXCEPT !.out = root]
           ELSE LoadDocAt(disk, l, file, TRUE, 0), name)

(* readExtends: the base a service names, or NoBase.                       *)
NoBase == [name |-> "", file |-> Project]
BaseOf(file, ext) ==
  LET svc == Get(ext, "service")
      fv  == Get(ext, "file")
  IN CASE Named(ext) -> [name |-> ext.text[1], file |-> file]
       [] Named(svc) -> [name |-> svc.text[1],
                         file |-> IF Named(fv) THEN InDir(Dir(fv.org.file), fv.text) ELSE file]
       [] OTHER -> NoBase

(* The base contributes everything but what names a neighbour of its own.  *)
Derived(base, own, name) ==
  MergeInto(<<"services", name>>, Without(base, Excluded), Without(own, {"extends"}))

(* extendKey: what is remembered of a service, and a cycle noticed by.     *)
NameAlone(file, name) == <<Project, name>>
ExtendKey(file, name) == <<file, name>>

Keep(l, key, v) == [l EXCEPT !.out = v, !.extended = (key :> v) @@ @]
OnBase(base, key, own, name) ==
  LET m == Derived(base.out, own, name)
  IN IF base.err # "" THEN base
     ELSE [Keep(base, key, m.v) EXCEPT !.notes = @ \cup m.notes]

RECURSIVE ExtendService(_, _, _, _, _, _)

(* The service has been found (here.out); its base comes first.            *)
ExtendFrom(disk, here, file, name, root, chain) ==
  LET key == ExtendKey(file, name)
      own == here.out
      b   == BaseOf(file, Get(own, "extends"))
  IN IF here.err # "" THEN here
     ELSE IF ~Has(own, "extends") THEN Keep(here, key, own)
     ELSE IF b = NoBase THEN Failed(here, "extends-target")
     ELSE OnBase(ExtendService(disk, here, b.file, b.name, root, chain \cup {key}), key, own, name)

ExtendService(disk, l, file, name, root, chain) ==
  LET key == ExtendKey(file, name)
  IN IF l.err # "" THEN l
     ELSE IF key \in DOMAIN l.extended THEN [l EXCEPT !.out = l.extended[key]]
     ELSE IF key \in chain THEN Failed(l, "extends-cycle")
     ELSE ExtendFrom(disk, ServiceIn(disk, l, file, name, root), file, name, root, chain)

(* applyExtends, one service at a time; the key keeps its origin.          *)
Replacing(root, name, got) ==
  IF got.err # "" THEN got
  ELSE [got EXCEPT !.out = [root EXCEPT !.keys["services"].keys[name] = got.out]]
ExtendStep(disk, l, name) ==
  IF l.err # "" THEN l
  ELSE Replacing(l.out, name, ExtendService(disk, l, Project, name, l.out, {}))

-----------------------------------------------------------------------------
(* profiles.go, and the end of Load.                                       *)

ProfileValues(svc) ==
  LET v == Get(svc, "profiles")
  IN CASE v.kind = "seq" -> v.items [] v.kind = "scalar" -> <<v>> [] OTHER -> <<>>
AlwaysActive(svc) == ProfileValues(svc) = <<>>

EmptyProfileNotes(root) ==
  LET svcs == ServicesIn(root)
  IN UNION {LET vals == ProfileValues(svcs.keys[s])
            IN {Note("empty-profile-name", <<"services", s, "profiles", Index(i)>>,
                     vals[i].org, {}) : i \in {j \in DOMAIN vals : Blank(Text(vals[j]))}} :
              s \in DOMAIN svcs.keys}

Finished(l) ==
  LET root == DropResets(l.out)
      bad  == Invalid(root, TRUE)
  IN IF l.err # "" THEN l
     ELSE IF bad # "" THEN Failed(l, bad)
     ELSE [l EXCEPT !.out = root, !.notes = @ \cup EmptyProfileNotes(root)]
=============================================================================
