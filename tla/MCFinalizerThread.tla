------------------------- MODULE MCFinalizerThread --------------------------
(* An instance of FinalizerThread for TLC.                                 *)
EXTENDS FinalizerThread
CONSTANTS m1, m2, o1, o2
=============================================================================
