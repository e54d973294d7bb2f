----------------------------- MODULE MCSpinLock -----------------------------
(* An instance of SpinLock for TLC.                                        *)
EXTENDS SpinLock
CONSTANTS t1, t2, a, b
=============================================================================
