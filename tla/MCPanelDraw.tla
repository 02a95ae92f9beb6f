----------------------------- MODULE MCPanelDraw -----------------------------
(***************************************************************************)
(* Small instances of PanelDraw for TLC: a service whose inspection asks   *)
(* the core for more than the stack's does.                                *)
(***************************************************************************)
EXTENDS PanelDraw

CONSTANT web

MCNodes == {web, Stack}
MCFollow == [n \in MCNodes |-> IF n = web THEN 1 ELSE 0]
=============================================================================
