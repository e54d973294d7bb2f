----------------------------- MODULE UnitMerger -----------------------------
(***************************************************************************)
(* CompileUnitMerger: the generated code of each type is a unit, and units *)
(* are merged into few files. Their declarations depend on each other, for *)
(* base types, fields and signatures; a file is included once, so what a   *)
(* declaration needs must come before it.                                  *)
(***************************************************************************)
EXTENDS Integers, Sequences, FiniteSets, Functions, SequencesExt

CONSTANT Graphs       \* DeclDepends of each unit, as the generators leave them

ASSUME GraphsAreFinite == \A g \in Graphs : IsFiniteSet(DOMAIN g)

VARIABLES decl,       \* one of Graphs; its domain is the UnitMap
          bridgeTypes,\* the units that are named in BridgeTypes
          order,      \* DependOrder of each unit, 0 before it is computed
          calls,      \* the calls of GetDependOrder, outermost first
          stackUnitNames,
          phase,      \* what Merge does
          sorted,     \* sortedUnits
          pos,        \* the unit the loop has come to
          remain,     \* remainUnits
          changed,
          bridge,     \* bridgeUnits
          bridgeNames,\* bridgeUnitNames
          files       \* the merged units after the bridge, each a sequence of units

program == <<decl, bridgeTypes>>
ordering == <<order, calls, stackUnitNames>>
merging == <<phase, sorted, pos, remain, changed, bridge, bridgeNames, files>>
mergeVars == <<program, ordering, merging>>

Units == DOMAIN decl

\* CompileUnit.Optimize
Depends(u) == (decl[u] \cap Units) \ {u}

MergeInit ==
  /\ decl \in Graphs
  /\ bridgeTypes \in SUBSET Units
  /\ order = [u \in Units |-> 0] /\ calls = <<>> /\ stackUnitNames = {}
  /\ phase = "sort" /\ sorted = <<>>
  /\ pos = 1 /\ remain = <<>> /\ changed = FALSE
  /\ bridge = <<>> /\ bridgeNames = {}
  /\ files = <<<<>>>>

-----------------------------------------------------------------------------
(* The sort compares the orders of the units, which are computed when they *)
(* are first asked for. A call adds up the orders of all the unit depends  *)
(* on, in the order of a HashSet.                                          *)

Call(u) == [unit |-> u, todo |-> Depends(u), sum |-> 0]

CompareUnit(u) ==
  /\ phase = "sort" /\ calls = <<>>
  /\ order[u] = 0
  /\ calls' = <<Call(u)>>
  /\ stackUnitNames' = {u}
  /\ UNCHANGED <<program, order, merging>>

Innermost == calls[Len(calls)]

\* What is being computed counts as 0.
AddOrder(d) ==
  /\ calls # <<>>
  /\ d \in Innermost.todo
  /\ LET done == [calls EXCEPT ![Len(calls)].todo = @ \ {d}, ![Len(calls)].sum = @ + order[d]]
     IN  IF order[d] # 0 \/ d \in stackUnitNames
         THEN calls' = done /\ UNCHANGED stackUnitNames
         ELSE calls' = Append(done, Call(d)) /\ stackUnitNames' = stackUnitNames \cup {d}
  /\ UNCHANGED <<program, order, merging>>

ReturnOrder ==
  /\ calls # <<>>
  /\ Innermost.todo = {}
  /\ order' = [order EXCEPT ![Innermost.unit] = Innermost.sum + 1]
  /\ calls' = IF Len(calls) = 1 THEN <<>>
              ELSE [Front(calls) EXCEPT ![Len(calls) - 1].sum = @ + Innermost.sum + 1]
  /\ UNCHANGED <<program, stackUnitNames, merging>>

\* List.Sort compares the units in an order of its own, and is not stable.
ByOrder(S) ==
  {q \in [1..Cardinality(S) -> S] :
     /\ Range(q) = S /\ IsInjective(q)
     /\ \A i, j \in DOMAIN q : i < j => order[q[i]] <= order[q[j]]}

Sort ==
  /\ phase = "sort" /\ calls = <<>>
  /\ \A u \in Units : order[u] # 0
  /\ sorted' \in ByOrder(Units)
  /\ phase' = "collect"
  /\ UNCHANGED <<program, ordering, pos, remain, changed, bridge, bridgeNames, files>>

-----------------------------------------------------------------------------
(* The bridge takes the types the runtime names and all they depend on.    *)

InBridge(u) == u \in bridgeTypes \cup bridgeNames

CollectUnit ==
  /\ phase = "collect" /\ pos <= Len(sorted)
  /\ LET u == sorted[pos]
     IN  IF InBridge(u)
         THEN /\ bridge' = Append(bridge, u)
              /\ bridgeNames' = bridgeNames \cup {u} \cup Depends(u)
              /\ changed' = TRUE /\ UNCHANGED remain
         ELSE remain' = Append(remain, u) /\ UNCHANGED <<bridge, bridgeNames, changed>>
  /\ pos' = pos + 1
  /\ UNCHANGED <<program, ordering, phase, sorted, files>>

\* mutant: one pass over the units
LastPassOnly == TRUE

LastPass == ~changed

EndPass ==
  /\ phase = "collect" /\ pos > Len(sorted)
  /\ IF LastPass
     THEN bridge' \in ByOrder(Range(bridge)) /\ phase' = "place"
     ELSE UNCHANGED <<bridge, phase>>
  /\ sorted' = remain
  /\ remain' = <<>> /\ pos' = 1 /\ changed' = FALSE
  /\ UNCHANGED <<program, ordering, bridgeNames, files>>

-----------------------------------------------------------------------------
\* Append to the current unit; whether it is full is a matter of its text.
PlaceUnit ==
  /\ phase = "place" /\ pos <= Len(sorted)
  /\ \E full \in BOOLEAN :
       LET here == [files EXCEPT ![Len(files)] = Append(@, sorted[pos])]
       IN  files' = IF full THEN Append(here, <<>>) ELSE here
  /\ pos' = pos + 1
  /\ UNCHANGED <<program, ordering, phase, sorted, remain, changed, bridge, bridgeNames>>

\* The last unit is dropped if it is empty, dependencies become those of files.
Finish ==
  /\ phase = "place" /\ pos > Len(sorted)
  /\ files' = IF Last(files) = <<>> THEN Front(files) ELSE files
  /\ phase' = "merged"
  /\ UNCHANGED <<program, ordering, sorted, pos, remain, changed, bridge, bridgeNames>>

MergeNext ==
  \/ \E u \in Units : CompareUnit(u) \/ AddOrder(u)
  \/ ReturnOrder \/ Sort \/ CollectUnit \/ EndPass \/ PlaceUnit \/ Finish

MergeSpec == MergeInit /\ [][MergeNext]_mergeVars

-----------------------------------------------------------------------------
\* Where a unit is printed: in the bridge, which all files include, or a file.
Places == {<<0, i>> : i \in DOMAIN bridge} \cup UNION {{<<k, i>> : i \in DOMAIN files[k]} : k \in DOMAIN files}
UnitAt(p) == IF p[1] = 0 THEN bridge[p[2]] ELSE files[p[1]][p[2]]
Precedes(p, q) == p[1] < q[1] \/ (p[1] = q[1] /\ p[2] < q[2])

\* The units that the declaration of d needs, directly or not: what is in every
\* set that has d and all that its members depend on.
Closed(S) == \A u \in S : Depends(u) \subseteq S
Below(d) == {u \in Units : \A S \in SUBSET Units : d \in S /\ Closed(S) => u \in S}

\* When all is merged, each unit is printed once, and after all that its
\* declaration depends on; the bridge depends on nothing else, as Merge
\* asserts. Only units that need each other are in no certain order.
DeclaredFirst ==
  phase = "merged" =>
    /\ \A u \in Units : \E p \in Places : UnitAt(p) = u
    /\ \A p, q \in Places : UnitAt(p) = UnitAt(q) => p = q
    /\ \A u \in Range(bridge) : Depends(u) \subseteq Range(bridge)
    /\ \A p, q \in Places : UnitAt(p) \in Depends(UnitAt(q)) =>
         Precedes(p, q) \/ UnitAt(q) \in Below(UnitAt(p))
=============================================================================
