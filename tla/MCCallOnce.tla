----------------------------- MODULE MCCallOnce -----------------------------
(* Instances of CallOnce for TLC.                                          *)
EXTENDS CallOnce, TLC
CONSTANTS t1, t2, t3, A, B, C

\* A uses B.
ChainUses == A :> {B} @@ B :> {}
\* A and B use each other, C uses itself.
CyclicUses == A :> {B} @@ B :> {A} @@ C :> {C}

Symm == Permutations(Threads)
=============================================================================
