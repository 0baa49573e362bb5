---------------------------- MODULE MCToolsMenu ----------------------------
(* Small instances of ToolsMenu for TLC.                                   *)
EXTENDS ToolsMenu, TLC

CONSTANTS a1, a2, a3

Symmetry == Permutations(Addresses)
=============================================================================
