------------------------------- MODULE Diagnose -------------------------------
(***************************************************************************)
(* The diagnostics over a resolved model and its graph, the fixes they     *)
(* offer and what applying one does to the file (internal/diagnose;        *)
(* strategy.Locate, DeleteRange and InsertionPoint behind the fixes).      *)
(* A report is a set of findings: Run sorts them for the reader.           *)
(***************************************************************************)
EXTENDS Topology

CONSTANTS SecretNames, SecretValues,   \* what credentialsRule.match recognises
          PortsOf                      \* parsePortRange: the ports a text binds

-----------------------------------------------------------------------------
(* Fixes.                                                                  *)

NoFix == [op |-> "none"]
Fix(op, file, path, key, value) ==
  [op |-> op, file |-> file, path |-> path, key |-> key, value |-> value]

IsIndex(s) == s \in {Index(i) : i \in 1..9}

(* strategy.Locate: a path in a file's own text.  It goes on below a bare  *)
(* mapping or list only: an alias, an anchor or a tag is a node of its own *)
(* kind, and nothing below it is found.                                    *)
Anchored(doc, at) == at # <<>> /\ \E q \in Paths(doc) : At(doc, q).from = at
Plainly(doc, r) == At(doc, r).from = <<>> /\ At(doc, r).tag = "none" /\ ~Anchored(doc, r)
Locatable(doc, q) == At(doc, q).kind # "absent" /\ \A r \in Above(q) : Plainly(doc, r)

SameShape(p, q) ==
  Len(p) = Len(q) /\ \A i \in DOMAIN p : p[i] = q[i] \/ (IsIndex(p[i]) /\ IsIndex(q[i]))

(* localPath: keys as the merge kept them, every index tried, and the line *)
(* the origin names.                                                       *)
LocalPaths(doc, p, org) ==
  {q \in Paths(doc) : /\ SameShape(p, q) /\ Locatable(doc, q)
                      /\ LineOf(doc, q) = LineOf(doc, org.at)}

AnyHit(hits)  == hits # {}
OneHit(hits)  == Cardinality(hits) = 1

(* locateFix: one candidate or no fix.  What only a reader can supply is   *)
(* left as it is, a value nobody declared needed is refused (unusableFix). *)
LocateFix(disk, op, p, org, key, value) ==
  LET doc  == disk.docs[org.file]
      hits == LocalPaths(doc, p, org)
      q    == CHOOSE h \in hits : TRUE
  IN IF org.file \notin DOMAIN disk.docs \/ ~OneHit(hits) THEN NoFix
     ELSE IF op = "insert_key" /\ At(doc, q).flow THEN NoFix
     ELSE Fix(op, org.file, q, key, value)

Reader == Word("<value>")     \* NeedsValue: whatever the reader puts there

-----------------------------------------------------------------------------
(* What an edit does to a document.                                        *)

RECURSIVE Put(_, _, _), Cut(_, _)
Put(n, p, w) ==
  IF p = <<>> THEN w
  ELSE IF n.kind = "map" THEN [n EXCEPT !.keys = (Head(p) :>
         Put(IF Head(p) \in DOMAIN @ THEN @[Head(p)] ELSE Node, Tail(p), w)) @@ @]
  ELSE [n EXCEPT !.items = [i \in DOMAIN @ |-> IF Index(i) = Head(p)
                                               THEN Put(@[i], Tail(p), w) ELSE @[i]]]
(* A collection nothing is left of is a key with no value.                 *)
Cut(n, p) ==
  LET left == IF n.kind = "map" THEN [n EXCEPT !.keys = Restrict(@, DOMAIN @ \ {p[1]})]
              ELSE [n EXCEPT !.items = LET i == CHOOSE j \in DOMAIN @ : Index(j) = p[1]
                                       IN RemoveAt(@, i)]
  IN IF Len(p) > 1 THEN Put(n, <<p[1]>>, Cut(Children(n)[p[1]], Tail(p)))
     ELSE IF Children(left) = Empty THEN Node ELSE left

(* An alias is whatever its anchor has become.                             *)
RECURSIVE Realiased(_, _)
Realiased(doc, n) ==
  CASE n.from # <<>>   -> [At(doc, n.from) EXCEPT !.from = n.from]
    [] n.kind = "map" -> [n EXCEPT !.keys = [k \in DOMAIN @ |-> Realiased(doc, @[k])]]
    [] n.kind = "seq" -> [n EXCEPT !.items = [i \in DOMAIN @ |-> Realiased(doc, @[i])]]
    [] OTHER -> n

-----------------------------------------------------------------------------
(* Findings.                                                               *)

Anchor(p, org) == [path |-> p, org |-> org]
Finding(rule, anchors, fix) == [rule |-> rule, anchors |-> anchors, fix |-> fix]
Single(rule, p, org, fix)   == Finding(rule, {Anchor(p, org)}, fix)

(* plaintext-credential.  A list entry keeps its name.                     *)
Reference == "${}"
CredentialIn(rel, v) ==
  LET list  == rel # <<>> /\ IsIndex(Last(rel)) /\ Len(v.text) = 2
      name  == IF list THEN v.text[1] ELSE IF rel = <<>> THEN "" ELSE Last(rel)
      value == IF list THEN v.text[2] ELSE v.text[1]
  IN [name |-> name, list |-> list,
      found |-> /\ v.raw = <<>> /\ Named(v) /\ value \notin {"", Reference}
                /\ \/ value \in SecretValues
                   \/ ({name} \cup Range(rel)) \cap SecretNames # {}]

Credentials(disk, root) ==
  UNION {LET base == <<"services", s, "environment">>
             env  == At(root, base)
         IN {LET v == At(env, rel)
                 x == CredentialIn(rel, v)
             IN Single("plaintext-credential", base \o rel, v.org,
                       LocateFix(disk, "replace_scalar", base \o rel, v.org, "",
                                 IF x.list THEN Str(<<x.name, Reference>>) ELSE Var(x.name))) :
              rel \in {r \in Paths(env) : /\ At(env, r).kind = "scalar"
                                          /\ CredentialIn(r, At(env, r)).found}} :
         s \in KeysOf(ServicesIn(root))}

(* host-port-collision.  The one declared last in the merge gives way.     *)
HostOf(port) == IF port[1] \in {"", "0.0.0.0", "::", "*"} THEN "*" ELSE port[1]
Publications(g) ==
  UNION {{[key |-> <<HostOf(n.port), n.port[4], p>>, node |-> n] :
            p \in IF Published(n.port) \in DOMAIN PortsOf THEN PortsOf[Published(n.port)] ELSE {}} :
          n \in {g.nodes[p] : p \in {q \in DOMAIN g.nodes : g.nodes[q].kind = "port"}}}

PortCollisions(disk, root, g) ==
  LET pubs == Publications(g)
      Group(k) == {x.node : x \in {y \in pubs : y.key = k}}
      Collision(k) ==
        LET grp    == Group(k)
            victim == CHOOSE n \in grp : \A m \in grp : m.org.step <= n.org.step
        IN Finding("host-port-collision", {Anchor(n.path, n.org) : n \in grp},
             IF At(root, victim.path).kind # "scalar" THEN NoFix
             ELSE LocateFix(disk, "replace_scalar", victim.path, victim.org, "", Reader))
  IN {Collision(k) : k \in {x.key : x \in {y \in pubs : Cardinality(Group(y.key)) > 1}}}

(* healthy-without-healthcheck.                                            *)
IsTrue(v) == Text(v) \in {<<"true">>, <<"yes">>, <<"on">>, <<"1">>}
HealthState(svc) ==
  LET hc == Get(svc, "healthcheck")
      t  == Get(hc, "test")
      none == <<"NONE">>
  IN CASE hc.kind \in {"absent", "null"} -> "absent"
       [] IsTrue(Get(hc, "disable")) -> "disabled"
       [] Text(t) = none -> "none"
       [] Len(Items(t)) = 1 /\ Text(Items(t)[1]) = none -> "none"
       [] OTHER -> "ok"

DeleteDisable(disk, target, svc) ==
  LET hc == Get(svc, "healthcheck")
  IN IF HealthState(svc) # "disabled" THEN NoFix
     ELSE LocateFix(disk, "delete_key", target.path \o <<"healthcheck", "disable">>,
                    Get(hc, "disable").org, "", Node)
HealthFix(disk, target, svc) ==
  LET hc == Get(svc, "healthcheck")
  IN CASE HealthState(svc) = "absent" ->
            LocateFix(disk, "insert_key", target.path, target.org, "healthcheck", Reader)
       [] Get(hc, "test").kind \notin {"absent", "null"} -> DeleteDisable(disk, target, svc)
       [] OTHER -> NoFix

Unhealthy(disk, root, g) ==
  {LET target == g.nodes[e.to]
   IN Finding("healthy-without-healthcheck",
              {Anchor(e.from, e.org), Anchor(target.path, target.org)},
              HealthFix(disk, target, At(root, e.to))) :
     e \in {d \in g.edges : /\ d.kind = "depends_on" /\ d.condition = "service_healthy"
                            /\ g.nodes[d.to].declared
                            /\ HealthState(At(root, d.to)) # "ok"}}

(* depends-on-cycle.  orderCycle follows the first edge of each member     *)
(* from the first of them; a member it misses brings all of its edges.     *)
EdgesWithin(g, ms, m) ==
  {e \in g.edges : e.kind = "depends_on" /\ e.from = m /\ e.to \in ms}
FirstOf(ms) == LET all == InSomeOrder(ms) IN all[1]
NextOf(g, ms, m) == FirstOf({e.to : e \in EdgesWithin(g, ms, m)})
RECURSIVE Ring(_, _, _)
Ring(g, ms, ring) ==
  LET last == Last(ring)
  IN IF EdgesWithin(g, ms, last) = {} \/ NextOf(g, ms, last) \in Range(ring) THEN ring
     ELSE Ring(g, ms, Append(ring, NextOf(g, ms, last)))
UsedEdges(g, ms) ==
  LET ring == Range(Ring(g, ms, <<FirstOf(ms)>>))
  IN UNION {{e \in EdgesWithin(g, ms, m) : m \in ring => e.to = NextOf(g, ms, m)} : m \in ms}

CycleFindings(g, cycles) ==
  {Finding("depends-on-cycle",
           {Anchor(e.from, e.org) : e \in UsedEdges(g, ms)}, NoFix) : ms \in cycles}

(* unused-resource: unused under every profile the project declares.       *)
UnusedResources(disk, g, all) ==
  LET used == {e.to : e \in {d \in all.edges : d.kind \in {"volume", "network"}}}
      idle == {n \in {g.nodes[p] : p \in DOMAIN g.nodes} :
                 /\ n.kind \in {"volumes", "networks"} /\ n.declared
                 /\ n.path # <<"networks", "default">> /\ n.path \notin used}
  IN {Single("unused-resource", n.path, n.org,
             LocateFix(disk, "delete_key", n.path, n.org, "", Node)) : n \in idle}

(* undefined-variable: one finding a name, whatever refers to it.          *)
UndefinedNotes(l) == {x \in l.notes : x.kind = "undefined-variable"}
UndefinedVars(l) ==
  {Finding("undefined-variable",
           {Anchor(x.path, x.org) : x \in {y \in UndefinedNotes(l) : y.about = n}}, NoFix) :
     n \in {x.about : x \in UndefinedNotes(l)}}

(* unreachable-service.                                                    *)
Unreachable(root, g) ==
  LET services == {p \in DOMAIN g.nodes : g.nodes[p].kind = "services"}
      Ends(k)  == UNION {{e.from, e.to} : e \in {d \in g.edges : d.kind = k}}
      Nets(p)  == {e.to : e \in {d \in g.edges : d.kind = "network" /\ d.from = p}}
      Peers(n) == {e.from : e \in {d \in g.edges : d.kind = "network" /\ d.to = n}}
      HasMode(p) == Named(Get(At(root, p), "network_mode"))
      Publishes(p) == \E e \in g.edges : /\ e.kind = "publish" /\ e.from = p
                                         /\ e.published # ""
      implicit == {p \in services : Nets(p) = {} /\ ~HasMode(p)}
      onDefault == IF Cardinality(implicit) > 1 THEN implicit ELSE {}
  IN {Single("unreachable-service", p, g.nodes[p].org, NoFix) :
        p \in {q \in services :
                 /\ g.nodes[q].declared /\ ~Publishes(q) /\ ~HasMode(q)
                 /\ q \notin Ends("network_mode") \cup Ends("link") \cup onDefault
                 /\ \A n \in Nets(q) : Peers(n) \subseteq {q}}}

(* obsolete-version-field.                                                 *)
VersionField(disk, root) ==
  LET v == Get(root, "version")
  IN IF v.kind = "absent" THEN {}
     ELSE {Single("obsolete-version-field", <<"version">>, v.org,
                  LocateFix(disk, "delete_key", <<"version">>, v.org, "", Node))}

(* build-dockerfile-missing: silent over a reference nothing defines.      *)
UndefinedUnder(l, p) == \E x \in UndefinedNotes(l) : IsPrefix(p, x.path)
MissingDockerfiles(disk, l, g) ==
  {Single("build-dockerfile-missing", n.path, n.org, NoFix) :
     n \in {g.nodes[p] : p \in {q \in DOMAIN g.nodes :
              LET m == g.nodes[q]
              IN /\ m.kind = "dockerfile" /\ m.build # <<"inline">>
                 /\ ~UndefinedUnder(l, q)
                 /\ <<Dir(m.org.file)>> \o m.build \notin disk.built}}}

(* merge-form-mismatch.                                                    *)
FormMismatches(l) ==
  {Finding("merge-form-mismatch", {Anchor(x.path, x.org), Anchor(x.path, x.about.displaced)},
           NoFix) : x \in {y \in l.notes : y.kind = "form-mismatch"}}

(* declaredProfiles and AnalyzeProject: the report over the graph the      *)
(* profiles pick, beside the graph with all of them.                       *)
DeclaredProfiles(root) ==
  LET svcs == ServicesIn(root)
  IN UNION {ProfilesOf(svcs.keys[s]) : s \in KeysOf(svcs)}

Report(disk, l, g, cycles) ==
  LET root == l.out
      all  == Graph(root, DeclaredProfiles(root))
  IN Credentials(disk, root) \cup PortCollisions(disk, root, g) \cup Unhealthy(disk, root, g)
       \cup CycleFindings(g, cycles) \cup UnusedResources(disk, g, all) \cup UndefinedVars(l)
       \cup Unreachable(root, g) \cup VersionField(disk, root)
       \cup MissingDockerfiles(disk, l, g) \cup FormMismatches(l)
=============================================================================
