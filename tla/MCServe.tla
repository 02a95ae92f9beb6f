------------------------------ MODULE MCServe ------------------------------
(***************************************************************************)
(* Small instances of Serve for TLC: serve_safety.cfg and serve_live.cfg.  *)
(***************************************************************************)
EXTENDS Serve, TLC

Symmetry == Permutations(Readers) \cup Permutations(Writers)
=============================================================================
