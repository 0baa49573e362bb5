---------------------------- MODULE MCFrameHook ----------------------------
(* Small instances of FrameHook for TLC.                                   *)
EXTENDS FrameHook, TLC

CONSTANTS t1, t2, p1, p2

Symmetry == Permutations(FrameThreads) \cup Permutations(Pages)
=============================================================================
