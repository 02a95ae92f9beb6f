----------------------------- MODULE MCStaging -----------------------------
(***************************************************************************)
(* Small instances of Staging for TLC: two texts, of widths 1 and 3, so    *)
(* that an edit may or may not move the lines below it.                    *)
(***************************************************************************)
EXTENDS Staging

CONSTANTS short, long

MCWidth == (short :> 1) @@ (long :> 3)

Symmetry == Permutations(Handlers) \cup Permutations(Keys)
=============================================================================
