-------------------------------- MODULE Merge --------------------------------
(***************************************************************************)
(* Merging one declaration onto another (internal/resolve: mergerules.go,  *)
(* merge.go).  A merge returns the surviving value, or Gone when `!reset`  *)
(* removed it, together with the set of notes it made on the way.          *)
(***************************************************************************)
EXTENDS ComposeValues

-----------------------------------------------------------------------------
(* The merge table, by the attribute of a service (patternOf drops the     *)
(* service's own name).                                                    *)

Replaced == {<<"command">>, <<"entrypoint">>, <<"healthcheck", "test">>}
ByName   == {<<"environment">>, <<"labels">>, <<"annotations">>, <<"sysctls">>,
             <<"build", "args">>, <<"build", "labels">>, <<"extra_hosts">>}
BySelf   == {<<a>> : a \in {"networks", "depends_on", "cap_add", "cap_drop", "dns",
                            "dns_opt", "dns_search", "expose", "links", "profiles",
                            "tmpfs"}} \cup {<<"build", "tags">>}
Strict   == {<<"security_opt">>, <<"group_add">>, <<"volumes_from">>}

(* What a scalar item is: nothing reads a name out of a container.         *)
Named(v) == v.kind = "scalar" /\ ~Blank(v.text)

PortOfText(t) ==
  LET proto == IF Last(t) \in {"/tcp", "/udp"} THEN Last(t) ELSE "/tcp"
      bare  == IF Last(t) \in {"/tcp", "/udp"} THEN Front(t) ELSE t
      n     == Len(bare)
  IN <<IF n > 2 THEN bare[1] ELSE "", IF n > 1 THEN bare[n - 1] ELSE "",
       bare[n], proto>>
Word1(v, k) == IF Has(v, k) /\ Named(v.keys[k]) THEN v.keys[k].text[1] ELSE ""

KeyPort(v) ==
  CASE v.kind = "map" /\ Word1(v, "target") # "" ->
         <<Word1(v, "host_ip"), Word1(v, "published"), Word1(v, "target"),
           IF Word1(v, "protocol") = "" THEN "/tcp" ELSE Word1(v, "protocol")>>
    [] Named(v) -> PortOfText(v.text)
    [] OTHER    -> <<>>

KeyMountTarget(v) ==
  CASE v.kind = "map" -> IF Get(v, "target").kind = "scalar"
                         THEN Get(v, "target").text ELSE <<>>
    [] Named(v) -> IF Len(v.text) = 1 THEN v.text ELSE <<v.text[2]>>
    [] OTHER    -> <<>>

(* A secret or a config is named by where it is mounted: a bare name is    *)
(* under the default directory, an absolute target is itself.              *)
KeyMounted(v, dir) ==
  CASE Named(v) -> <<dir, v.text[1]>>
    [] Named(Get(v, "target")) ->
         LET t == Get(v, "target").text
         IN IF t[1] \in {"/", "/run/secrets/"} THEN t ELSE <<dir, t[1]>>
    [] Named(Get(v, "source")) -> <<dir, Get(v, "source").text[1]>>
    [] OTHER -> <<>>

(* The key an item of the attribute is unique on; <<>> when it has none.   *)
UniqueKey(attr, v) ==
  CASE attr = <<"ports">>   -> KeyPort(v)
    [] attr \in {<<"volumes">>, <<"devices">>} -> KeyMountTarget(v)
    [] attr = <<"secrets">> -> KeyMounted(v, "/run/secrets/")
    [] attr = <<"configs">> -> KeyMounted(v, "/")
    [] attr \in ByName  -> IF v.kind = "scalar" THEN <<v.text[1]>> ELSE <<>>
    [] attr \in BySelf \cup Strict -> IF v.kind = "scalar" THEN v.text ELSE <<>>
    [] OTHER -> <<>>

Uniquely == {<<"ports">>, <<"volumes">>, <<"devices">>, <<"secrets">>, <<"configs">>}
              \cup ByName \cup BySelf

(* patternOf and ruleFor: the table is about services only.                *)
Attribute(p) == IF Len(p) > 2 /\ p[1] = "services" THEN SubSeq(p, 3, Len(p)) ELSE <<>>
Rule(p) == CASE Attribute(p) \in Replaced -> "replace"
             [] Attribute(p) \in Uniquely -> "unique"
             [] Attribute(p) \in Strict   -> "strict"
             [] OTHER -> "default"

-----------------------------------------------------------------------------
(* The walker.                                                             *)

Gone == Value("gone", NoOrigin)
Merged(v, notes) == [v |-> v, notes |-> notes]

Displaced(v) == [org |-> v.org, text |-> Text(v)]
ReplaceWith(dst, src) ==
  [src EXCEPT !.past = dst.past \o <<Displaced(dst)>> \o src.past]

(* droppedEntries: the names the earlier form set and the later does not.  *)
EntryNames(v) ==
  IF v.kind = "map" THEN DOMAIN v.keys
  ELSE {v.items[i].text[1] : i \in {j \in DOMAIN v.items : v.items[j].kind = "scalar"}}

Note(kind, p, org, about) == [kind |-> kind, path |-> p, org |-> org, about |-> about]

FormMismatch(p, dst, src) ==
  IF {dst.kind, src.kind} = {"seq", "map"}
  THEN {Note("form-mismatch", p, src.org,
             [dropped |-> EntryNames(dst) \ EntryNames(src), displaced |-> dst.org])}
  ELSE {}

(* noteRepeats: every item whose key an earlier item already has.          *)
Repeats(p, items) ==
  LET key(i) == UniqueKey(Attribute(p), items[i])
  IN {Note("repeated-list-item", p, items[i].org, {}) :
        i \in {j \in DOMAIN items : /\ key(j) # <<>>
                                    /\ \E h \in 1..(j - 1) : key(h) = key(j)}}

RECURSIVE MergeInto(_, _, _)

(* mergeMapping: a reset of a key that is not there does nothing, a reset  *)
(* of one that is removes it, and a key's own place moves to the file that *)
(* set it last.                                                            *)
MergeMapping(p, dst, src) ==
  LET new  == {k \in DOMAIN src.keys \ DOMAIN dst.keys : src.keys[k].tag # "reset"}
      both == DOMAIN src.keys \cap DOMAIN dst.keys
      met  == [k \in both |-> MergeInto(Append(p, k), dst.keys[k], src.keys[k])]
      lost == {k \in both : met[k].v = Gone}
      kept == (DOMAIN dst.keys \cup new) \ lost
  IN Merged([dst EXCEPT
       !.keys = [k \in kept |-> IF k \in both THEN met[k].v
                                ELSE IF k \in new THEN src.keys[k] ELSE dst.keys[k]],
       !.at   = [k \in kept |-> IF k \in both \cup new THEN src.at[k] ELSE dst.at[k]]],
     UNION {met[k].notes : k \in both})

MergeAppend(p, dst, src) ==
  LET v == [dst EXCEPT !.items = @ \o src.items]
  IN Merged(v, IF Rule(p) = "strict" THEN Repeats(p, v.items) ELSE {})

(* mergeSequenceUnique: an item merges into the first one with its key.    *)
MergeUnique(p, dst, src) ==
  LET key(v) == UniqueKey(Attribute(p), v)
      Slots(items, e) == {i \in DOMAIN items : key(e) # <<>> /\ key(items[i]) = key(e)}
      Add(acc, e) ==
        LET items == acc.v.items
            slots == Slots(items, e)
        IN IF slots = {} THEN [acc EXCEPT !.v.items = Append(items, e)]
           ELSE LET i == CHOOSE j \in slots : \A h \in slots : j <= h
                    m == MergeInto(p, items[i], e)
                IN Merged([acc.v EXCEPT !.items = IF m.v = Gone THEN RemoveAt(items, i)
                                                  ELSE [items EXCEPT ![i] = m.v]],
                          acc.notes \cup m.notes)
  IN FoldLeft(Add, Merged(dst, {}), src.items)

MergeInto(p, dst, src) ==
  CASE src.kind = "absent"  -> Merged(dst, {})
    [] src.tag = "reset"    -> Merged(Gone, {})
    [] dst.kind = "absent"  -> Merged(src, {})
    [] \/ src.tag = "override"
       \/ Rule(p) = "replace" -> Merged(ReplaceWith(dst, src), {})
    [] dst.kind = "map" /\ src.kind = "map" -> MergeMapping(p, dst, src)
    [] dst.kind = "seq" /\ src.kind = "seq" ->
         IF Rule(p) = "unique" THEN MergeUnique(p, dst, src) ELSE MergeAppend(p, dst, src)
    [] OTHER -> Merged(ReplaceWith(dst, src), FormMismatch(p, dst, src))

(* dropResets: what is still marked once every merge has run.              *)
RECURSIVE DropResets(_)
DropResets(v) ==
  CASE v.kind = "map" ->
         LET kept == {k \in DOMAIN v.keys : v.keys[k].tag # "reset"}
         IN [v EXCEPT !.keys = [k \in kept |-> DropResets(v.keys[k])],
                      !.at   = Restrict(v.at, kept)]
    [] v.kind = "seq" ->
         [v EXCEPT !.items = LET kept == SelectSeq(v.items, LAMBDA e : e.tag # "reset")
                             IN [i \in DOMAIN kept |-> DropResets(kept[i])]]
    [] OTHER -> v
=============================================================================
