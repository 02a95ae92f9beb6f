--------------------------- MODULE MCTwoFileWrite ---------------------------
(***************************************************************************)
(* Small instances of TwoFileWrite for TLC.                                *)
(***************************************************************************)
EXTENDS TwoFileWrite, TLC

CONSTANTS plain, doubled,   \* literals: the second is written `pa$$word`
          single,           \* `pa$word`, what Compose reads that as
          elsewhere,        \* what the host sets a variable to
          n1, n2            \* names

Escaped == [l \in Literals |-> IF l = doubled THEN single ELSE l]

HostIsBare == [n \in Names |-> Unset]
HostSetsN2 == [n \in Names |-> IF n = n2 THEN elsewhere ELSE Unset]

NoDefaults == {}
DefaultN1  == {<<n1, plain>>}

\* Sound where Host and Fallbacks tell no name from another.
Symmetry == Permutations(Movers) \cup Permutations(Sites) \cup Permutations(Names)
=============================================================================
