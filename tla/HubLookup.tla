------------------------------ MODULE HubLookup ------------------------------
(***************************************************************************)
(* Looking an image up on Docker Hub: which tag is offered in place of the *)
(* one a file pins, and the bounded cache with expiry that several lookups *)
(* of one server share (internal/hub, cmd/composure/image.go).             *)
(*                                                                         *)
(* A tag's name is its leading version and the words after it: 18.4-alpine *)
(* is [ver |-> <<18, 4>>, words |-> <<"alpine">>].                         *)
(***************************************************************************)
EXTENDS Integers, Sequences, FiniteSets, SequencesExt

CONSTANTS Askers,      \* lookups the server may run at a time
          Questions,   \* sequences of references: one, or a Dockerfile's stages
          Releases,    \* what Docker Hub holds, now and after each push
          Off,         \* COMPOSURE_OFFLINE
          Failures,    \* of "offline", "rate-limited"
          Page,        \* tagsPage: how many tags one request answers with
          TTL, Timeout, MaxEntries,
          MaxTime, MaxAsks        \* bounds of the model

Tags == [ver : Seq(Nat), words : Seq(STRING)]

ASSUME HubAssumption ==
  /\ Page \in Nat \ {0} /\ MaxEntries \in Nat \ {0}
  /\ TTL \in Nat /\ Timeout \in Nat \ {0}
  /\ Failures \subseteq {"offline", "rate-limited"}
  /\ Releases # <<>> /\ Releases \in Seq(Range(Releases))
  /\ \A hub \in Range(Releases) : \A repo \in DOMAIN hub : hub[repo] \in Seq(Tags)

VARIABLES now, release,
          entries,     \* Cache.entries
          asker,       \* what each lookup is at
          asks,        \* how many questions were asked
          said         \* the lists of a family Docker Hub answered with, and when

vars == <<now, release, entries, asker, asks, said>>

-----------------------------------------------------------------------------
(* Tags.                                                                   *)
Families == <<"alpine", "slim", "bookworm", "bullseye", "trixie",
              "jammy", "noble", "windowsservercore", "nanoserver", "distroless">>
Markers == {"edge", "tip", "nightly", "dev", "rc", "alpha", "beta", "canary"}

FamilySuffix(name) ==
  LET in == {i \in DOMAIN Families : Families[i] \in Range(name.words)}
  IN  IF in = {} THEN <<>> ELSE <<Families[CHOOSE i \in in : \A j \in in : i <= j]>>

IsUnstable(name) == \/ Range(name.words) \cap Markers # {}
                    \/ name = [ver |-> <<>>, words |-> <<"latest">>]

Digits(n) == Cardinality({k \in 1..7 : n >= 10^k}) + 1
IsDateTag(name) == /\ name.words = <<>> /\ name.ver # <<>>
                   /\ FoldSeq(LAMBDA n, d : d + Digits(n), 0, name.ver) >= 6

(* CompareVersions(a, b) < 0.                                              *)
Lower(a, b) ==
  \E k \in 0..Len(a) :
    /\ IsPrefix(SubSeq(a, 1, k), b)
    /\ k < Len(b) /\ (k = Len(a) \/ a[k + 1] < b[k + 1])

Classify(cur, v) ==
  CASE ~Lower(cur, v) -> "none"
    [] cur = <<>> \/ (v # <<>> /\ cur[1] # v[1]) -> "major"
    [] Len(cur) > 1 /\ Len(v) > 1 /\ cur[2] # v[2] -> "minor"
    [] OTHER -> "patch"

SameShape(name, cur) == Len(name.ver) = Len(cur.ver) /\ name.words = cur.words

Eligible(name, cur) ==
  /\ name # cur /\ ~IsUnstable(name) /\ ~IsDateTag(name)
  /\ FamilySuffix(name) = FamilySuffix(cur)
  /\ name.ver # <<>>
  /\ cur.ver # <<>> => Lower(cur.ver, name.ver)

(* pickCandidates: the reader's own shape when there is one, the highest   *)
(* version first.                                                          *)
PickCandidates(list, cur) ==
  LET out  == {i \in DOMAIN list : Eligible(list[i], cur)}
      same == {i \in out : SameShape(list[i], cur)}
      kept == IF same # {} THEN same ELSE out
      Before(i, j) == \/ Lower(list[j].ver, list[i].ver)
                      \/ list[i].ver = list[j].ver /\ i < j
      Rank(i) == Cardinality({j \in kept : Before(j, i)}) + 1
  IN  [n \in 1..Cardinality(kept) |-> list[CHOOSE i \in kept : Rank(i) = n]]

-----------------------------------------------------------------------------
(* Docker Hub: the tags whose name contains the filter, last pushed first, *)
(* a page of them.                                                         *)
NoName == [ver |-> <<>>, words |-> <<>>]

Within(part, whole) ==
  \E k \in 0..Len(whole) - Len(part) : part = SubSeq(whole, k + 1, k + Len(part))

NameHas(name, part) ==
  /\ Within(part.ver, name.ver) /\ Within(part.words, name.words)
  /\ part.ver # <<>> /\ part.words # <<>> => /\ IsSuffix(part.ver, name.ver)
                                             /\ IsPrefix(part.words, name.words)

Answer(err, list) == [err |-> err, list |-> list]

Searches == {"v4", "legacy"}

Matching(tags, part) ==
  FoldLeft(LAMBDA found, name : IF NameHas(name, part) THEN Append(found, name) ELSE found,
           <<>>, tags)

HubAnswers(hub, call) ==
  IF call.which \in Searches
  THEN Answer("", IF call.repo \in DOMAIN hub THEN <<NoName>> ELSE <<>>)
  ELSE IF call.repo \notin DOMAIN hub THEN Answer("not-found", <<>>)
  ELSE LET all == Matching(hub[call.repo], call.part)
       IN  Answer("", SubSeq(all, 1, IF Len(all) < Page THEN Len(all) ELSE Page))

-----------------------------------------------------------------------------
(* The cache.                                                              *)
RepoOnly(call) == <<call.repo, NoName>>
KeyOf(call) == <<call.repo, call.part>>

Fresh(call) == /\ KeyOf(call) \in DOMAIN entries
               /\ now - entries[KeyOf(call)].at < TTL

OneMore == IF Cardinality(DOMAIN entries) > MaxEntries THEN <<>> ELSE entries
Room == IF Cardinality(DOMAIN entries) >= MaxEntries THEN <<>> ELSE entries

Kept(key, answer, at) ==
  [k \in DOMAIN Room \cup {key} |->
     IF k = key THEN [answer |-> answer, at |-> at] ELSE entries[k]]

FailuresToo(key, answer, at) == Kept(key, answer, at)

(* A failure is never cached.                                              *)
Remembered(key, answer, at) ==
  IF answer.err # "" THEN entries ELSE Kept(key, answer, at)

-----------------------------------------------------------------------------
(* A lookup: the stages still to look up, the call it is at, its reports.  *)
NoCall == [repo |-> "", part |-> NoName, which |-> "none"]
Idle == [todo |-> <<>>, at |-> "next", call |-> NoCall,
         got |-> Answer("", <<>>), lost |-> {}, list |-> <<>>, began |-> 0, reports |-> <<>>]

FamilyCall(ref) == [repo |-> ref.repo, part |-> [ver |-> <<>>, words |-> FamilySuffix(ref.name)],
                    which |-> "family"]
ExactCall(ref) == [repo |-> ref.repo, part |-> ref.name, which |-> "exact"]
SearchCall(ref) == [repo |-> ref.repo, part |-> NoName, which |-> "v4"]

(* What is decided without a request.                                      *)
Refused(ref) ==
  CASE ref.kind \in {"empty", "variable", "scratch", "digest"} -> "not-comparable"
    [] ref.kind = "foreign" -> "other-registry"
    [] OTHER -> IF Off THEN "disabled" ELSE ""

(* The report on the stage a lookup is at, and on to the next stage.       *)
Reported(a, state, offers, aged) ==
  LET ref == Head(a.todo)
      r == [ref |-> ref, state |-> state, offers |-> offers, aged |-> aged,
            kind |-> IF offers = <<>> THEN "none"
                     ELSE Classify(ref.name.ver, offers[1].ver),
            at |-> now, lost |-> a.lost]
  IN  [Idle EXCEPT !.began = a.began, !.todo = Tail(a.todo),
                   !.reports = Append(a.reports, r)]

(* The end of Look: whether the pinned tag's age is known, and what is     *)
(* offered.                                                                *)
Concluded(a, list, aged) ==
  LET offers == PickCandidates(list, Head(a.todo).name)
  IN  Reported(a, IF offers = <<>> THEN "current" ELSE "ok", offers, aged)

(* A page of the family that does not carry the pinned tag costs one more  *)
(* request, whose failure is not reported; a search that fails is tried    *)
(* again at the older endpoint.                                            *)
Took(a, answer) ==
  LET listed == Head(a.todo).name \in Range(answer.list)
  IN  CASE a.call.which \in {"family", "legacy"} /\ answer.err # "" ->
             Reported(a, answer.err, <<>>, FALSE)
        [] a.call.which = "family" /\ answer.err = "" /\ ~listed ->
             [a EXCEPT !.at = "cache", !.call = ExactCall(Head(a.todo)),
                       !.got = Answer("", <<>>), !.list = answer.list]
        [] a.call.which = "family" /\ answer.err = "" /\ listed ->
             Concluded(a, answer.list, TRUE)
        [] a.call.which = "exact" -> Concluded(a, a.list, listed)
        [] a.call.which = "v4" /\ answer.err # "" ->
             [a EXCEPT !.at = "sent", !.call.which = "legacy", !.got = Answer("", <<>>)]
        [] a.call.which \in Searches /\ answer.err = "" ->
             Reported(a, IF answer.list = <<>> THEN "not-found" ELSE "ok", <<>>, FALSE)

Init == /\ now = 0 /\ release = 1
        /\ entries = <<>>
        /\ asker = [p \in Askers |-> Idle]
        /\ asks = 0 /\ said = {}

Turn(p, a) == asker' = [asker EXCEPT ![p] = a]

(* lookupImage, staleImages: one deadline for the whole question.          *)
Ask(p, q) ==
  /\ asker[p].todo = <<>> /\ asks < MaxAsks
  /\ Turn(p, [Idle EXCEPT !.todo = q, !.began = now])
  /\ asks' = asks + 1
  /\ UNCHANGED <<now, release, entries, said>>

(* Look, up to the first request.                                          *)
Refuse(p) ==
  /\ asker[p].at = "next" /\ asker[p].todo # <<>>
  /\ Refused(Head(asker[p].todo)) # ""
  /\ Turn(p, Reported(asker[p], Refused(Head(asker[p].todo)), <<>>, FALSE))
  /\ UNCHANGED <<now, release, entries, asks, said>>

Begun(p) == /\ asker[p].at = "next" /\ asker[p].todo # <<>>
            /\ Refused(Head(asker[p].todo)) = ""

(* The call a lookup is about to make.                                     *)
Calling(p, call) == [asker[p] EXCEPT !.call = call, !.at = "cache"]

(* Cache.Tags, its first section under the lock.                           *)
Consulted(a) == IF Fresh(a.call) THEN Took(a, entries[KeyOf(a.call)].answer)
                ELSE [a EXCEPT !.at = "sent"]

Look(p) ==
  /\ Begun(p) /\ Head(asker[p].todo).kind = "image"
  /\ Turn(p, Consulted(Calling(p, FamilyCall(Head(asker[p].todo)))))
  /\ UNCHANGED <<now, release, entries, asks, said>>

LookExact(p) ==
  /\ asker[p].at = "cache"
  /\ Turn(p, Consulted(asker[p]))
  /\ UNCHANGED <<now, release, entries, asks, said>>

Search(p) ==
  /\ Begun(p) /\ Head(asker[p].todo).kind = "search"
  /\ Turn(p, [Calling(p, SearchCall(Head(asker[p].todo))) EXCEPT !.at = "sent"])
  /\ UNCHANGED <<now, release, entries, asks, said>>

Expired(p) == now - asker[p].began >= Timeout

Subject(call) == [repo |-> call.repo, part |-> call.part]
AboutFamily(call) == call.which \notin Searches /\ call.part.ver = <<>>

Answered(p, answer) ==
  /\ asker[p].at = "sent"
  /\ Turn(p, [asker[p] EXCEPT !.at = "back", !.got = answer,
                              !.lost = IF answer.err = "" THEN @ ELSE @ \cup {answer.err}])
  /\ said' = IF ~AboutFamily(asker[p].call) THEN said ELSE
       said \cup {[at |-> now, about |-> Subject(asker[p].call), answer |-> answer]}
  /\ UNCHANGED <<now, release, entries, asks>>

(* getJSON: Docker Hub, or the network, answers the request.               *)
Served(p) == ~Expired(p) /\ Answered(p, HubAnswers(Releases[release], asker[p].call))
Fails(p) == \E err \in Failures : ~Expired(p) /\ Answered(p, Answer(err, <<>>))
Cancelled(p) == Expired(p) /\ Answered(p, Answer("cancelled", <<>>))

(* Cache.Tags, after the request: its second section under the lock.       *)
Arrive(p) ==
  /\ asker[p].at = "back"
  /\ entries' = IF asker[p].call.which \in Searches THEN entries
                ELSE Remembered(KeyOf(asker[p].call), asker[p].got, now)
  /\ Turn(p, Took(asker[p], asker[p].got))
  /\ UNCHANGED <<now, release, asks, said>>

(* Somebody pushes a tag.                                                  *)
Push == /\ release < Len(Releases) /\ release' = release + 1
        /\ UNCHANGED <<now, entries, asker, asks, said>>

(* A deadline that has passed is acted on before more time does. An answer *)
(* that was given is its reader's from then on, and what was said too long *)
(* ago to be behind a later one is forgotten.                              *)
Tick == /\ now < MaxTime
        /\ \A p \in Askers : asker[p].todo # <<>> => ~Expired(p)
        /\ now' = now + 1
        /\ asker' = [p \in Askers |-> IF asker[p].todo = <<>> THEN Idle ELSE asker[p]]
        /\ said' = {s \in said : now - s.at < TTL + 2 * Timeout}
        /\ UNCHANGED <<release, entries, asks>>

Next == \/ \E p \in Askers : \/ \E q \in Questions : Ask(p, q)
                             \/ Refuse(p) \/ Look(p) \/ LookExact(p) \/ Search(p) \/ Served(p) \/ Fails(p)
                             \/ Cancelled(p) \/ Arrive(p)
        \/ Push \/ Tick

Spec == Init /\ [][Next]_vars
-----------------------------------------------------------------------------
Reports == UNION {Range(asker[p].reports) : p \in Askers}

(* The cache holds no more than its bound, however many lookups miss one   *)
(* key, or a full cache, at the same time.                                 *)
CacheBounded == Cardinality(DOMAIN entries) <= MaxEntries

(* The newest stable tag of a page in the pinned tag's family, the pinned  *)
(* tag's own shape first: what lookup.go says is offered.                  *)
IsDate(name) == name.words = <<>> /\ Len(name.ver) = 1 /\ name.ver[1] >= 100000

Upgrades(list, cur) ==
  {name \in Range(list) : /\ Range(name.words) \cap Markers = {}
                          /\ name.ver # <<>> /\ ~IsDate(name)
                          /\ FamilySuffix(name) = FamilySuffix(cur)
                          /\ cur.ver # <<>> => Lower(cur.ver, name.ver)
                          /\ name # cur}

Newest(list, cur) ==
  LET mine == {name \in Upgrades(list, cur) : SameShape(name, cur)}
      of   == IF mine # {} THEN mine ELSE Upgrades(list, cur)
  IN  {name \in of : \A other \in of : ~Lower(name.ver, other.ver)}

(* An answer about a tag is what Docker Hub itself said, of that           *)
(* repository and that family, no longer ago than the cache's lifetime and *)
(* a request at either end: never another repository's or another page's   *)
(* list, whatever two lookups fetched and stored in whichever order. And   *)
(* an outage is over when it is over: a lookup that says it failed made a  *)
(* request of its own that did.                                            *)
AnswersHold ==
  \A r \in Reports :
    /\ r.state \in {"ok", "current"} /\ r.ref.kind = "image" =>
         \E s \in said :
           /\ s.about = Subject(FamilyCall(r.ref)) /\ s.answer.err = ""
           /\ r.at - s.at < TTL + 2 * Timeout
           /\ IF r.state = "current" THEN Newest(s.answer.list, r.ref.name) = {}
              ELSE r.offers[1] \in Newest(s.answer.list, r.ref.name)
    /\ r.state \in {"offline", "rate-limited", "cancelled"} => r.state \in r.lost

(* The sentence under "current": this is the newest stable tag Docker Hub  *)
(* lists in its family.                                                    *)
CurrentIsNewest ==
  \A r \in Reports :
    r.state = "current" =>
      \E s \in said : /\ s.about = Subject(FamilyCall(r.ref))
                      /\ Newest(s.answer.list, r.ref.name) = {}
=============================================================================
