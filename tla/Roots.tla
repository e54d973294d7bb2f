-------------------------------- MODULE Roots --------------------------------
(***************************************************************************)
(* il2cpp_CommitRoots: il2cpp_Init hands the static fields that may refer  *)
(* to objects to the collector. The loop sorts the items by address, joins *)
(* those that touch, and gives each range to GC_add_roots, which keeps     *)
(* whole words in a table of bounded size. On Windows the table joins what *)
(* overlaps, elsewhere it only finds a range with the same start again.    *)
(***************************************************************************)
EXTENDS Integers, Sequences, FiniteSets, FiniteSetsExt

CONSTANTS Word,        \* sizeof(word)
          ItemSets,    \* what a program may register: sets of distinct variables
          Segments     \* what GC_init may have registered: tables

VARIABLES roots,       \* the items of the program, sorted, never changed
          next,        \* the index of the one the loop has come to
          start, end,  \* its range so far; start is 0, the null pointer, at first
          handed,      \* the ranges it has given to GC_add_roots
          finished,    \* it is past the loop
          windows,     \* the platform, never changed
          table        \* GC_static_roots, up to n_root_sets

rootsVars == <<roots, next, start, end, handed, finished, windows, table>>

Item(p, n) == [ptr |-> p, len |-> n]
Extent(b, e) == [start |-> b, end |-> e]
Cells(r) == r.start..(r.end - 1)
Place(i) == i.ptr..(i.ptr + i.len - 1)

ItemsAssumption ==
  \A I \in ItemSets :
    /\ IsFiniteSet(I)
    /\ \A i \in I : i.ptr \in Nat /\ i.len \in Nat /\ 0 < i.ptr /\ 0 < i.len
    /\ \A i, j \in I : i # j => i.ptr + i.len <= j.ptr \/ j.ptr + j.len <= i.ptr
ASSUME Distinct == ItemsAssumption
ASSUME WordAssumption == Word \in Nat /\ 0 < Word

Extents == [start : Nat, end : Nat]
Tables == Seq(Extents)
ASSUME SegmentsAssumption == Segments \subseteq Tables

RoundUpBeyond(a) == (a \div Word + 1) * Word
RoundUp(a) == ((a + Word - 1) \div Word) * Word
RoundDown(a) == (a \div Word) * Word

Touches(b, e, r) == b <= r.end /\ e >= r.start
Joined(r, b, e) ==
  Extent(IF b < r.start THEN b ELSE r.start, IF e > r.end THEN e ELSE r.end)

\* an entry is deleted by moving the last one to its place
Moved(t, i) == SubSeq([t EXCEPT ![i] = t[Len(t)]], 1, Len(t) - 1)

\* entry s.i of s.t is looked at, and taken into entry k if it touches that
Look(s, k) ==
  IF s.i > Len(s.t) THEN s
  ELSE LET other == s.t[s.i]
       IN  IF Touches(other.start, other.end, s.t[k])
           THEN [t |-> Moved([s.t EXCEPT ![k] = Joined(@, other.start, other.end)], s.i), i |-> s.i + 1]
           ELSE [s EXCEPT !.i = @ + 1]

\* the loop over the entries after entry k; the entry moved to the place of a
\* deleted one is not looked at
TakeIn(t, k) ==
  LET run[n \in 0..Len(t)] == IF n = 0 THEN [t |-> t, i |-> k + 1] ELSE Look(run[n - 1], k)
  IN  run[Len(t)].t

AddWindows(t, b, e) ==
  LET found == {i \in DOMAIN t : Touches(b, e, t[i])}
  IN  IF found = {} THEN Append(t, Extent(b, e))
      ELSE TakeIn([t EXCEPT ![Min(found)] = Joined(@, b, e)], Min(found))

AddElsewhere(t, b, e) ==
  LET found == {i \in DOMAIN t : t[i].start = b}
  IN  IF found = {} THEN Append(t, Extent(b, e))
      ELSE [t EXCEPT ![Max(found)] = Extent(b, IF e > @.end THEN e ELSE @.end)]

\* GC_add_roots_inner
AddRoots(low, high) ==
  LET b == RoundUp(low)
      e == RoundDown(high)
  IN  /\ handed' = handed \cup {Extent(low, high)}
      /\ table' = IF b >= e THEN table
                  ELSE IF windows THEN AddWindows(table, b, e) ELSE AddElsewhere(table, b, e)

\* what std::sort makes of the array
Sorted(I) ==
  {q \in [1..Cardinality(I) -> I] :
     /\ \A i \in I : \E k \in DOMAIN q : q[k] = i
     /\ \A k, l \in DOMAIN q : k < l => q[k].ptr < q[l].ptr}

RootsInit ==
  /\ \E I \in ItemSets : roots \in Sorted(I)
  /\ next = 1
  /\ start = 0 /\ end = 0
  /\ handed = {} /\ finished = FALSE
  /\ windows \in BOOLEAN
  /\ table \in Segments

Current == roots[next]
AtEnd == next > Len(roots)

Joins == start # 0 /\ Current.ptr <= end

Extend ==
  /\ ~AtEnd /\ Joins
  /\ end' = end + Current.len
  /\ next' = next + 1
  /\ UNCHANGED <<roots, start, handed, finished, windows, table>>

Begin ==
  /\ ~AtEnd /\ ~Joins
  /\ IF start # 0 THEN AddRoots(start, end) ELSE UNCHANGED <<handed, table>>
  /\ start' = Current.ptr /\ end' = Current.ptr + Current.len
  /\ next' = next + 1
  /\ UNCHANGED <<roots, finished, windows>>

FinishWithoutLast ==
  /\ AtEnd /\ ~finished
  /\ finished' = TRUE
  /\ UNCHANGED <<roots, next, start, end, handed, windows, table>>

Finish ==
  /\ AtEnd /\ ~finished
  /\ IF start # 0 THEN AddRoots(start, end) ELSE UNCHANGED <<handed, table>>
  /\ finished' = TRUE
  /\ UNCHANGED <<roots, next, start, end, windows>>

RootsNext == Extend \/ Begin \/ Finish

RootsSpec == RootsInit /\ [][RootsNext]_rootsVars
-----------------------------------------------------------------------------
Covered(R) == UNION {Cells(r) : r \in R}

\* Once il2cpp_CommitRoots has returned, what it has given to the collector is
\* the static fields that were registered, all of them and nothing else.
HandedIsRegistered == finished => Covered(handed) = UNION {Place(roots[k]) : k \in DOMAIN roots}

\* No two of the ranges it gives touch: it takes as few entries of the table,
\* which is bounded and whose overflow aborts the program, as can be.
RangesApart == \A r, q \in handed : r = q \/ r.end < q.start \/ q.end < r.start

\* What il2cpp_CommitRoots gives to the collector is right, and as few ranges
\* as can be.
RangesRight == HandedIsRegistered /\ RangesApart

\* The collector looks at every word of a static field.
WordsScanned ==
  finished =>
    \A k \in DOMAIN roots : \A w \in {n * Word : n \in 0..(roots[k].ptr + roots[k].len)} :
      w..(w + Word - 1) \subseteq Place(roots[k]) =>
        \E t \in DOMAIN table : w..(w + Word - 1) \subseteq Cells(table[t])

=============================================================================
