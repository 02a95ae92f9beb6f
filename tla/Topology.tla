------------------------------- MODULE Topology -------------------------------
(***************************************************************************)
(* The dependency graph of a resolved model (internal/topology: build.go,  *)
(* graph.go).  Nodes are a function from their paths, so the first         *)
(* declaration of a path is the only one; edges and dangling references    *)
(* are sets, since finalise sorts them.                                    *)
(***************************************************************************)
EXTENDS Resolve

CONSTANT HostPaths            \* the mount sources isHostPath reads as paths

ServiceAt(name) == <<"services", name>>

Truthy(v) == v.kind = "map" \/ Text(v) \in {<<"true">>, <<"yes">>, <<"on">>, <<"1">>}

(* declarationOrigin: where the key is written, or else the value.         *)
DeclaredAt(m, k) == IF m.at[k] # NoOrigin THEN m.at[k] ELSE m.keys[k].org

KeysOf(v)   == IF v.kind = "map" THEN DOMAIN v.keys ELSE {}
ItemsOf(v)  == {Items(v)[i] : i \in DOMAIN Items(v)}
Name1(v)    == IF Named(v) THEN v.text[1] ELSE ""

-----------------------------------------------------------------------------
(* Nodes.                                                                  *)

GNode(kind, path, org) ==
  [kind |-> kind, path |-> path, org |-> org, declared |-> TRUE, external |-> FALSE,
   profiles |-> {}, port |-> <<>>, build |-> <<>>]

(* profilesOf and profileActive: only the list form is read here.          *)
ProfilesOf(svc) == {Text(e) : e \in ItemsOf(Get(svc, "profiles"))} \ {<<>>, <<"">>}
ActiveUnder(svc, active) == ProfilesOf(svc) = {} \/ ProfilesOf(svc) \cap active # {}

ActiveServices(root, active) ==
  LET svcs == ServicesIn(root)
  IN {s \in KeysOf(svcs) : ActiveUnder(svcs.keys[s], active)}

Resources == {"networks", "volumes", "configs", "secrets"}

DeclaredNodes(root, active) ==
  LET svcs == ServicesIn(root)
      Sec(s) == Get(root, s)
  IN {[GNode("services", ServiceAt(s), DeclaredAt(svcs, s))
         EXCEPT !.profiles = ProfilesOf(svcs.keys[s])] : s \in ActiveServices(root, active)}
     \cup UNION {{[GNode(s, <<s, r>>, DeclaredAt(Sec(s), r))
                     EXCEPT !.external = Truthy(Get(Sec(s).keys[r], "external"))] :
                   r \in KeysOf(Sec(s))} : s \in Resources}

-----------------------------------------------------------------------------
(* References, by the attribute that makes them.                           *)

Ref(kind, section, name, org) ==
  [kind |-> kind, section |-> section, name |-> name, org |-> org,
   condition |-> "", published |-> ""]

(* A mapping item is placed at its first key.                              *)
ItemAt(e) == IF e.kind = "map" /\ KeysOf(e) # {} THEN DeclaredAt(e, FirstKey(e)) ELSE e.org

(* The keys of a mapping, where each name stands once: any order will do.  *)
KeySeq(v) == InSomeOrder(KeysOf(v))

DependsOn(svc) ==
  LET v  == Get(svc, "depends_on")
      es == Items(v)
      ks == KeySeq(v)
      Cond(e) == IF Word1(e, "condition") = "" THEN "service_started" ELSE Word1(e, "condition")
  IN [i \in DOMAIN es |-> [Ref("depends_on", "services", Name1(es[i]), es[i].org)
                             EXCEPT !.condition = "service_started"]]
     \o [i \in DOMAIN ks |-> [Ref("depends_on", "services", ks[i], DeclaredAt(v, ks[i]))
                                EXCEPT !.condition = Cond(v.keys[ks[i]])]]

Networks(svc) ==
  LET v  == Get(svc, "networks")
      es == Items(v)
      ks == KeySeq(v)
  IN [i \in DOMAIN es |-> Ref("network", "networks", Name1(es[i]), es[i].org)]
     \o [i \in DOMAIN ks |-> Ref("network", "networks", ks[i], DeclaredAt(v, ks[i]))]

Mode(svc) == Get(svc, "network_mode")
NetworkMode(svc) ==
  IF Len(Text(Mode(svc))) = 2 /\ Text(Mode(svc))[1] = "service"
  THEN <<Ref("network_mode", "services", Text(Mode(svc))[2], Mode(svc).org)>> ELSE <<>>

Mounts(svc) == SelectSeq(Items(Get(svc, "volumes")), LAMBDA e : e.kind \in {"scalar", "map"})
Source(e) == CASE e.kind = "map" -> Word1(e, "source")
               [] Len(e.text) > 1 -> e.text[1]
               [] OTHER -> ""
Type(e) == IF e.kind = "map" THEN Word1(e, "type") ELSE ""
IsBind(e)   == \/ Type(e) = "bind"
               \/ (Type(e) = "" /\ Source(e) \in HostPaths)
IsVolume(e) == /\ Source(e) # ""
               /\ \/ Type(e) = "volume"
                  \/ Type(e) = "" /\ ~IsBind(e)
VolumeMounts(svc) ==
  LET ms == SelectSeq(Mounts(svc), IsVolume)
  IN [i \in DOMAIN ms |-> Ref("volume", "volumes", Source(ms[i]), ItemAt(ms[i]))]

Links(svc) ==
  LET es == Items(Get(svc, "links"))
  IN [i \in DOMAIN es |-> Ref("link", "services", Name1(es[i]), es[i].org)]

(* An item that is neither a name nor a mapping refers to nothing.         *)
FileMounts(svc, s) ==
  LET es == Items(Get(svc, s))
      Named1(e) == IF e.kind = "map" THEN Word1(e, "source") ELSE Name1(e)
  IN [i \in DOMAIN es |-> Ref(s, s, Named1(es[i]), ItemAt(es[i]))]

(* walkServices: what one service refers to, in the order it is looked at. *)
(* resolveTarget's first line: an empty name refers to nothing.            *)
References(svc) ==
  SelectSeq(DependsOn(svc) \o Networks(svc) \o NetworkMode(svc) \o VolumeMounts(svc)
              \o Links(svc) \o FileMounts(svc, "configs") \o FileMounts(svc, "secrets"),
            LAMBDA r : r.name # "")

-----------------------------------------------------------------------------
(* What a service holds of its own: ports and a build.                     *)

LongPort(e) == <<Word1(e, "host_ip"), Word1(e, "published"), Word1(e, "target"),
                 IF Word1(e, "protocol") = "" THEN "/tcp" ELSE Word1(e, "protocol")>>
Published(port) == port[2]

PortNodes(name, svc) ==
  LET items == Items(Get(svc, "ports"))
      at(i) == ServiceAt(name) \o <<"ports", Index(i)>>
  IN {[GNode("port", at(i), ItemAt(items[i]))
         EXCEPT !.port = IF items[i].kind = "map" THEN LongPort(items[i])
                         ELSE PortOfText(items[i].text)] :
       i \in {j \in DOMAIN items : items[j].kind \in {"scalar", "map"}}}

(* build: a reference to a Dockerfile, unless it is written in place.      *)
BuildNodes(name, svc) ==
  LET v       == Get(svc, "build")
      context == IF v.kind = "map" THEN Word1(v, "context") ELSE Name1(v)
      file    == IF v.kind = "map" THEN Word1(v, "dockerfile") ELSE ""
      inline  == Has(v, "dockerfile_inline")
  IN IF v.kind \in {"scalar", "map"} /\ (inline \/ context # "" \/ file # "")
     THEN {[GNode("dockerfile", Append(ServiceAt(name), "build"), DeclaredAt(svc, "build"))
              EXCEPT !.build = IF inline THEN <<"inline">>
                               ELSE <<context, IF file = "" THEN "Dockerfile" ELSE file>>]}
     ELSE {}

-----------------------------------------------------------------------------
(* Build.                                                                  *)

Edge(from, to, r) ==
  [kind |-> r.kind, from |-> from, to |-> to, org |-> r.org,
   condition |-> r.condition, published |-> r.published]
Dangling(from, to, kind, reason, org) ==
  [kind |-> kind, from |-> from, to |-> to, reason |-> reason, org |-> org]

(* A reference to a declared service the profiles leave out is dangling;   *)
(* any other name nothing declares is taken to be outside the project.     *)
NeverHidden(root, active, r) == FALSE
Hidden(root, active, r) ==
  /\ r.section = "services"
  /\ r.name \in KeysOf(ServicesIn(root)) \ ActiveServices(root, active)

Outside(r) == [GNode(r.section, <<r.section, r.name>>, r.org)
                 EXCEPT !.declared = FALSE, !.external = TRUE]

OwnDangling(name, svc) ==
  {Dangling(ServiceAt(name), ServiceAt(name), "volume", "anonymous", e.org) :
     e \in {m \in Range(Mounts(svc)) : m.kind = "scalar" /\ Source(m) = ""}}
  \cup (IF Len(Text(Mode(svc))) = 2 /\ Text(Mode(svc))[1] = "container"
        THEN {Dangling(ServiceAt(name), ServiceAt(Text(Mode(svc))[2]), "network_mode",
                       "not-a-service", Mode(svc).org)}
        ELSE {})

(* The services in one order whatever the profiles; a name that nothing    *)
(* declares is a node from the first service shown that refers to it.      *)
Sent(s, rs) == [i \in DOMAIN rs |-> [from |-> ServiceAt(s), r |-> rs[i]]]
Walked(svcs, names) ==
  LET shown == SelectSeq(InSomeOrder(KeysOf(svcs)), LAMBDA s : s \in names)
  IN FlattenSeq([i \in DOMAIN shown |-> Sent(shown[i], References(svcs.keys[shown[i]]))])

To(r) == <<r.section, r.name>>
FirstTo(xs) ==
  {Outside(xs[SelectInSeq(xs, LAMBDA x : To(x.r) = p)].r) : p \in {To(x.r) : x \in Range(xs)}}
OwnNodes(svcs, names) ==
  UNION {PortNodes(s, svcs.keys[s]) \cup BuildNodes(s, svcs.keys[s]) : s \in names}

Assemble(svcs, active, names, known, own, landing, hidden) ==
  LET paths == {n.path : n \in known}
      all   == known \cup own
                 \cup FirstTo(SelectSeq(landing, LAMBDA x : To(x.r) \notin paths))
      Holds(n) == [Ref(IF n.kind = "port" THEN "publish" ELSE "build", "", "", n.org)
                     EXCEPT !.published = IF n.kind = "port" THEN Published(n.port) ELSE ""]
      Binds(s) == {Edge(ServiceAt(s), ServiceAt(s), Ref("bind", "", "", ItemAt(e))) :
                     e \in {m \in Range(Mounts(svcs.keys[s])) : IsBind(m)}}
  IN [profiles |-> active,
      nodes |-> [p \in {n.path : n \in all} |-> CHOOSE n \in all : n.path = p],
      edges |-> {Edge(x.from, To(x.r), x.r) : x \in Range(landing)}
                  \cup {Edge(SubSeq(n.path, 1, 2), n.path, Holds(n)) : n \in own}
                  \cup UNION {Binds(s) : s \in names},
      dangling |-> {Dangling(x.from, To(x.r), x.r.kind, "profile", x.r.org) : x \in Range(hidden)}
                  \cup UNION {OwnDangling(s, svcs.keys[s]) : s \in names}]

GraphOver(root, active, svcs, names, refs) ==
  Assemble(svcs, active, names, DeclaredNodes(root, active), OwnNodes(svcs, names),
        SelectSeq(refs, LAMBDA x : ~Hidden(root, active, x.r)),
        SelectSeq(refs, LAMBDA x : Hidden(root, active, x.r)))
Graph(root, active) ==
  LET svcs  == ServicesIn(root)
      names == ActiveServices(root, active)
  IN GraphOver(root, active, svcs, names, Walked(svcs, names))

(* buildDependsAdjacency: each pair once, the ends in the graph.           *)
DependsOut(g) ==
  [p \in DOMAIN g.nodes |->
     {e.to : e \in {d \in g.edges : d.kind = "depends_on" /\ d.from = p}} \cap DOMAIN g.nodes]

(* BlastRadius: what a set of arrows leads to from a node, itself left out *)
RECURSIVE Reach(_, _, _)
Reach(adj, S, seen) ==
  IF S \subseteq seen THEN seen
  ELSE Reach(adj, UNION {adj[n] : n \in S}, seen \cup S)
Dependencies(g, p) == Reach(DependsOut(g), DependsOut(g)[p], {}) \ {p}
DependsIn(g) == [p \in DOMAIN g.nodes |-> {q \in DOMAIN g.nodes : p \in DependsOut(g)[q]}]
Dependents(g, p) == Reach(DependsIn(g), DependsIn(g)[p], {}) \ {p}
=============================================================================
