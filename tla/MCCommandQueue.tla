--------------------------- MODULE MCCommandQueue ---------------------------
(* Small instances of CommandQueue for TLC.                                *)
EXTENDS CommandQueue

CONSTANTS c1, c2, d1, d2
=============================================================================
