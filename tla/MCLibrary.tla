------------------------------ MODULE MCLibrary ------------------------------
(***************************************************************************)
(* An instance of Numbers and Roots for TLC. They share nothing, so a      *)
(* behaviour is one call of the arithmetic or one il2cpp_CommitRoots.      *)
(***************************************************************************)
EXTENDS Numbers, Roots

\* one to three variables of 1, 2 or 4 cells at the addresses 1..Top
Top == 10
Valid == {i \in {Item(p, n) : p \in 1..Top, n \in {1, 2, 4}} : i.ptr + i.len <= Top + 1}
Beside(i, j) == i = j \/ i.ptr + i.len <= j.ptr \/ j.ptr + j.len <= i.ptr
Pairs == {p \in Valid \X Valid : Beside(p[1], p[2])}
Variables ==
  {{}} \cup {{p[1][1], p[1][2], p[2]} :
             p \in {q \in Pairs \X Valid : Beside(q[1][1], q[2]) /\ Beside(q[1][2], q[2])}}

\* no data segment, one, or two in either order
DataSegments ==
  {<<>>, <<Extent(2, 12)>>, <<Extent(2, 4), Extent(8, 10)>>, <<Extent(8, 12), Extent(2, 4)>>}

Idle == call = None /\ answer = None
NoRoots ==
  /\ roots = <<>> /\ next = 1 /\ start = 0 /\ end = 0 /\ handed = {}
  /\ finished = TRUE /\ windows = FALSE /\ table = <<>>

Init == (NumbersInit /\ NoRoots) \/ (RootsInit /\ Idle)
Next ==
  \/ call # None /\ NumbersNext /\ UNCHANGED rootsVars
  \/ call = None /\ RootsNext /\ UNCHANGED numbersVars
Spec == Init /\ [][Next]_<<numbersVars, rootsVars>>
=============================================================================
