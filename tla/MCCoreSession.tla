--------------------------- MODULE MCCoreSession ---------------------------
(***************************************************************************)
(* Small instances of CoreSession for TLC: three processes, so that one    *)
(* may be ending and one starting while a third serves.                    *)
(***************************************************************************)
EXTENDS CoreSession, TLC

Symmetry == Permutations(Procs) \cup Permutations(Calls)
=============================================================================
