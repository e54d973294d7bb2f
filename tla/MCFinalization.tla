--------------------------- MODULE MCFinalization ---------------------------
(* An instance of Finalization for TLC.                                    *)
EXTENDS Finalization
CONSTANTS t1, t2
Fields == {<<1, 4>>, <<2, 1>>}
=============================================================================
