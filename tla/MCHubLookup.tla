----------------------------- MODULE MCHubLookup -----------------------------
(***************************************************************************)
(* Registries small enough for TLC: two repositories, of one of which a    *)
(* higher tag is pushed while lookups run.                                 *)
(***************************************************************************)
EXTENDS HubLookup, TLC

Name(ver, words) == [ver |-> ver, words |-> words]
Image(repo, name) == [kind |-> "image", repo |-> repo, name |-> name]

Pinned == Name(<<16>>, <<"alpine">>)
Old    == Name(<<15>>, <<"alpine">>)
Tighter == Name(<<18, 4>>, <<"alpine", "3.23">>)
Newer  == Name(<<18>>, <<"alpine">>)
Plain  == Name(<<17>>, <<>>)
Edge   == Name(<<>>, <<"edge", "alpine">>)
Stamp  == Name(<<20260805>>, <<>>)
Candidate == Name(<<19>>, <<"rc", "alpine">>)

(* A second repository, of one family only, and a push of 18-alpine.       *)
MCReleases ==
  << [postgres |-> <<Tighter, Edge, Plain, Pinned, Stamp>>, redis |-> <<Plain>>],
     [postgres |-> <<Candidate, Newer, Tighter, Plain, Pinned>>, redis |-> <<Plain>>] >>

Without(kind) == [kind |-> kind, repo |-> "", name |-> NoName]

MCQuestions == { <<Image("postgres", Pinned)>>,
                 <<Image("postgres", Old), Image("redis", Name(<<16>>, <<>>))>>,
                 <<Without("variable"), Image("absent", Pinned)>>,
                 <<[kind |-> "search", repo |-> "redis", name |-> NoName]>> }

(* mariadb 10.11.6, and the 10.11.11 that replaced it.                     *)
SixDigits == << [mariadb |-> <<Name(<<10, 11, 11>>, <<>>), Name(<<10, 11, 6>>, <<>>)>>] >>
AskMariadb == { <<Image("mariadb", Name(<<10, 11, 6>>, <<>>))>> }
Symmetric == Permutations(Askers)
=============================================================================
