---------------------------- MODULE MCPanelAccess ---------------------------
(* Two requests at a time; a code lives longer than the interval between     *)
(* codes, and a session longer than it may idle.                             *)
EXTENDS PanelAccess, TLC

CONSTANTS r, s

Swap == Permutations({r, s})
=============================================================================
