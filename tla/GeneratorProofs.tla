---------------------------- MODULE GeneratorProofs ---------------------------
(***************************************************************************)
(* Merged files declare what a unit needs before the unit, for any finite  *)
(* graph of units, with cycles or without, and any order of the sets; and  *)
(* virtual calls, through classes and through interfaces, run what the     *)
(* declarations say, for any chain of classes whose explicit overrides     *)
(* name entries of interfaces.                                             *)
(***************************************************************************)
EXTENDS MethodTable, UnitMerger, FiniteSetTheorems, WellFoundedInduction, TLAPS

-----------------------------------------------------------------------------
(* Units. The orders are sums that are saved while they are computed: a    *)
(* unit has a larger order than all it depends on but those that were      *)
(* being computed when it was, and these depend on it. The bridge takes    *)
(* units out of a sorted list in several passes, which leaves the rest     *)
(* sorted.                                                                 *)

Calls == [unit : Units, todo : SUBSET Units, sum : Nat]

Types ==
  /\ decl \in Graphs
  /\ order \in [Units -> Nat]
  /\ calls \in Seq(Calls)
  /\ phase \in {"sort", "collect", "place", "merged"}
  /\ sorted \in Seq(Units) /\ remain \in Seq(Units) /\ bridge \in Seq(Units)
  /\ pos \in Nat /\ pos >= 1
  /\ files \in Seq(Seq(Units))
  /\ changed \in BOOLEAN

\* u comes after all it depends on, but for units that depend on u.
After(u) == \A d \in Depends(u) : u \in Below(d) \/ (order[d] # 0 /\ order[d] < order[u])

OrderInv ==
  /\ \A u \in Units : order[u] # 0 => After(u)
  /\ phase # "sort" => calls = <<>> /\ \A u \in Units : order[u] # 0

\* A call has added the orders of what is no longer to do, but for those that
\* were being computed, and each call is made by one whose unit depends on it.
CallsInv ==
  /\ \A i \in DOMAIN calls :
       /\ order[calls[i].unit] = 0 /\ calls[i].unit \in stackUnitNames
       /\ calls[i].todo \subseteq Depends(calls[i].unit)
       /\ \A d \in Depends(calls[i].unit) \ calls[i].todo :
            \/ i < Len(calls) /\ d = calls[i + 1].unit
            \/ calls[i].unit \in Below(d)
            \/ order[d] # 0 /\ order[d] <= calls[i].sum
       /\ \A j \in DOMAIN calls : i < j =>
            /\ calls[i].unit # calls[j].unit
            /\ calls[j].unit \in Below(calls[i].unit)
  /\ \A u \in stackUnitNames \cap Units : order[u] # 0 \/ \E i \in DOMAIN calls : calls[i].unit = u

Sorted(q) == \A i, j \in DOMAIN q : i < j => order[q[i]] <= order[q[j]]

\* The rest of the list, the remaining units and the bridge hold each unit
\* once; what a full pass has left is not named by the bridge.
CollectInv == phase = "collect" =>
  /\ Sorted(sorted) /\ Sorted(remain)
  /\ IsInjective(sorted) /\ IsInjective(remain) /\ IsInjective(bridge)
  /\ pos <= Len(sorted) + 1
  /\ \A i \in DOMAIN remain, k \in pos..Len(sorted) :
       order[remain[i]] <= order[sorted[k]] /\ remain[i] # sorted[k]
  /\ \A b \in DOMAIN bridge :
       /\ \A i \in DOMAIN remain : bridge[b] # remain[i]
       /\ \A k \in pos..Len(sorted) : bridge[b] # sorted[k]
  /\ \A u \in Units :
       u \in Range(bridge) \/ u \in Range(remain) \/ \E k \in pos..Len(sorted) : sorted[k] = u
  /\ \A u \in Range(bridge) : Depends(u) \subseteq bridgeNames
  /\ ~changed => \A i \in DOMAIN remain : remain[i] \notin bridgeNames
  /\ files = <<<<>>>>

BridgeDone ==
  /\ Sorted(bridge) /\ IsInjective(bridge)
  /\ \A u \in Range(bridge) : Depends(u) \subseteq Range(bridge)
  /\ \A b \in DOMAIN bridge, k \in DOMAIN files : \A i \in DOMAIN files[k] : bridge[b] # files[k][i]

FilesSorted ==
  \A k, l \in DOMAIN files : \A i \in DOMAIN files[k], j \in DOMAIN files[l] :
    k < l \/ (k = l /\ i < j) => order[files[k][i]] <= order[files[l][j]] /\ files[k][i] # files[l][j]

Placed(u) == \E k \in DOMAIN files : \E i \in DOMAIN files[k] : files[k][i] = u

PlaceInv == phase = "place" =>
  /\ BridgeDone /\ FilesSorted /\ files # <<>>
  /\ Sorted(sorted) /\ IsInjective(sorted) /\ pos <= Len(sorted) + 1
  /\ \A m \in pos..Len(sorted) :
       /\ \A b \in DOMAIN bridge : bridge[b] # sorted[m]
       /\ \A k \in DOMAIN files : \A i \in DOMAIN files[k] :
            order[files[k][i]] <= order[sorted[m]] /\ files[k][i] # sorted[m]
  /\ \A u \in Units : u \in Range(bridge) \/ Placed(u) \/ \E m \in pos..Len(sorted) : sorted[m] = u

MergedInv == phase = "merged" =>
  BridgeDone /\ FilesSorted /\ \A u \in Units : u \in Range(bridge) \/ Placed(u)

SortInv == phase = "sort" => /\ files = <<<<>>>> /\ bridge = <<>> /\ remain = <<>> /\ pos = 1 /\ ~changed

IInv == Types /\ OrderInv /\ CallsInv /\ SortInv /\ CollectInv /\ PlaceInv /\ MergedInv

-----------------------------------------------------------------------------
(* What a unit needs.                                                      *)

LEMMA BelowStep ==
  /\ \A u \in Units : u \in Below(u)
  /\ \A d : \A u \in Below(d) : \A w \in Depends(u) : w \in Below(d)
<1>1. ASSUME NEW u \in Units PROVE u \in Below(u)
  BY DEF Below
<1>2. ASSUME NEW d, NEW u \in Below(d), NEW w \in Depends(u) PROVE w \in Below(d)
  <2>1. w \in Units
    BY DEF Depends
  <2>2. ASSUME NEW S \in SUBSET Units, d \in S, Closed(S) PROVE w \in S
    <3>1. u \in S
      BY <2>2 DEF Below
    <3>. QED BY <3>1, <2>2 DEF Closed
  <2>. QED BY <2>1, <2>2 DEF Below
<1>. QED BY <1>1, <1>2

LEMMA SameProgram ==
  ASSUME decl' = decl
  PROVE  Units' = Units /\ Calls' = Calls /\ \A u : Depends(u)' = Depends(u) /\ Below(u)' = Below(u)
<1>1. Units' = Units /\ \A u : Depends(u)' = Depends(u)
  BY DEF Units, Depends
<1>2. \A S : Closed(S)' <=> Closed(S)
  BY <1>1 DEF Closed
<1>3. \A u : Below(u)' = Below(u)
  BY <1>1, <1>2 DEF Below
<1>. QED BY <1>1, <1>3 DEF Calls

LEMMA MakesSeq ==
  ASSUME NEW C, NEW n \in Nat, NEW r \in [1..n -> C] PROVE r \in Seq(C) /\ Len(r) = n
OBVIOUS

LEMMA SameLength ==
  ASSUME NEW C, NEW q \in Seq(C), NEW r, r = [i \in DOMAIN q |-> r[i]], \A i \in DOMAIN q : r[i] \in C
  PROVE  r \in Seq(C) /\ Len(r) = Len(q)
<1>1. Len(q) \in Nat /\ DOMAIN q = 1..Len(q)
  OBVIOUS
<1>2. PICK n \in Nat : n = Len(q)
  BY <1>1
<1>3. r \in [1..n -> C]
  BY <1>1, <1>2
<1>4. r \in Seq(C) /\ Len(r) = n
  BY <1>3, MakesSeq
<1>. QED BY <1>4, <1>2

\* The innermost call has returned.
LEMMA Returned ==
  ASSUME NEW C, NEW q \in Seq(C), Len(q) > 1
  PROVE  /\ DOMAIN Front(q) = 1..(Len(q) - 1)
         /\ \A i \in 1..(Len(q) - 1) : Front(q)[i] = q[i] /\ q[i] \in C
         /\ \A r : r = [i \in 1..(Len(q) - 1) |-> r[i]] /\ (\A i \in 1..(Len(q) - 1) : r[i] \in C) =>
              r \in Seq(C) /\ Len(r) = Len(q) - 1
<1>1. Len(q) \in Nat /\ DOMAIN q = 1..Len(q) /\ \A i \in 1..Len(q) : q[i] \in C
  OBVIOUS
<1>2. DOMAIN Front(q) = 1..(Len(q) - 1) /\ \A i \in 1..(Len(q) - 1) : Front(q)[i] = q[i]
  BY <1>1 DEF Front
<1>3. PICK n \in Nat : n = Len(q) - 1
  <2>1. Len(q) - 1 \in Nat
    BY <1>1
  <2>. QED BY <2>1
<1>4. ASSUME NEW r, r = [i \in 1..n |-> r[i]], \A i \in 1..n : r[i] \in C
      PROVE  r \in Seq(C) /\ Len(r) = n
  <2>1. r \in [1..n -> C]
    BY <1>4
  <2>. QED BY <2>1, MakesSeq
<1>5. \A i \in 1..(Len(q) - 1) : q[i] \in C
  BY <1>1
<1>. QED BY <1>2, <1>3, <1>4, <1>5

-----------------------------------------------------------------------------
(* The orders.                                                             *)

MergingInv == SortInv /\ CollectInv /\ PlaceInv /\ MergedInv

\* Steps that compute orders are taken in the phase of the sort.
LEMMA MergingStays ==
  ASSUME IInv, calls # <<>> \/ phase = "sort", UNCHANGED <<program, merging>>
  PROVE  MergingInv'
<1>1. phase = "sort" /\ phase' = "sort" /\ SortInv
  BY DEF merging, IInv, OrderInv
<1>2. SortInv'
  BY <1>1 DEF SortInv, merging
<1>. QED BY <1>1, <1>2 DEF MergingInv, CollectInv, PlaceInv, MergedInv

LEMMA MergeInitInv == MergeInit => IInv
<1>. SUFFICES ASSUME MergeInit PROVE IInv
  OBVIOUS
<1>. USE DEF MergeInit
<1>1. Types
  <2>1. files = <<<<>>>> /\ files \in Seq(Seq(Units))
    OBVIOUS
  <2>2. calls \in Seq(Calls) /\ sorted \in Seq(Units) /\ remain \in Seq(Units) /\ bridge \in Seq(Units)
    OBVIOUS
  <2>3. decl \in Graphs /\ order \in [Units -> Nat] /\ phase = "sort" /\ changed = FALSE /\ pos = 1
    OBVIOUS
  <2>4. phase \in {"sort", "collect", "place", "merged"} /\ pos \in Nat /\ pos >= 1
    BY <2>3
  <2>5. changed \in BOOLEAN
    BY ONLY <2>3
  <2>. QED BY ONLY <2>1, <2>2, <2>3, <2>4, <2>5, Zenon DEF Types
<1>2. OrderInv /\ CallsInv
  BY DEF OrderInv, CallsInv
<1>3. SortInv /\ CollectInv /\ PlaceInv /\ MergedInv
  BY DEF SortInv, CollectInv, PlaceInv, MergedInv
<1>. QED BY <1>1, <1>2, <1>3 DEF IInv

LEMMA CompareUnitInv == ASSUME IInv, NEW u \in Units, CompareUnit(u) PROVE IInv'
<1>. USE DEF CompareUnit
<1>0. /\ UNCHANGED <<program, order, merging>> /\ phase = "sort" /\ order[u] = 0
      /\ calls' = <<Call(u)>> /\ stackUnitNames' = {u}
  OBVIOUS
<1>1. Units' = Units /\ Calls' = Calls /\ \A v : Depends(v)' = Depends(v) /\ Below(v)' = Below(v)
  BY SameProgram DEF program
<1>2. Call(u) \in Calls /\ Call(u).unit = u /\ Call(u).todo = Depends(u)
  BY DEF Call, Calls, Depends
<1>3. calls' \in Seq(Calls) /\ Len(calls') = 1 /\ calls'[1] = Call(u) /\ DOMAIN calls' = {1}
  BY <1>0, <1>2
<1>4. Types'
  BY <1>0, <1>1, <1>3 DEF IInv, Types, program, merging
<1>5. OrderInv'
  BY <1>0, <1>1 DEF IInv, OrderInv, After, program, merging
<1>6. CallsInv'
  BY <1>0, <1>1, <1>2, <1>3 DEF CallsInv
<1>7. MergingInv'
  BY <1>0, MergingStays
<1>. QED BY <1>4, <1>5, <1>6, <1>7 DEF IInv, MergingInv

LEMMA AddOrderInv == ASSUME IInv, NEW d \in Units, AddOrder(d) PROVE IInv'
<1>. DEFINE n == Len(calls)
            T == calls[n].todo \ {d}
            s == calls[n].sum + order[d]
            done == [calls EXCEPT ![n].todo = T, ![n].sum = s]
<1>0. /\ UNCHANGED <<program, order, merging>> /\ calls # <<>> /\ d \in calls[n].todo
      /\ IF order[d] # 0 \/ d \in stackUnitNames
         THEN calls' = done /\ UNCHANGED stackUnitNames
         ELSE calls' = Append(done, Call(d)) /\ stackUnitNames' = stackUnitNames \cup {d}
  BY DEF AddOrder, Innermost
<1>1. Units' = Units /\ Calls' = Calls /\ \A v : Depends(v)' = Depends(v) /\ Below(v)' = Below(v)
  BY <1>0, SameProgram DEF program
<1>2. calls \in Seq(Calls) /\ order \in [Units -> Nat]
  BY DEF IInv, Types
<1>3. n \in Nat /\ n >= 1 /\ DOMAIN calls = 1..n /\ \A i \in 1..n : calls[i] \in Calls
  BY <1>0, <1>2
<1>4. calls[n].unit \in Units /\ calls[n].todo \in SUBSET Units /\ calls[n].sum \in Nat /\ order[d] \in Nat
  BY <1>2, <1>3 DEF Calls
<1>5. T \in SUBSET Units /\ s \in Nat /\ s >= calls[n].sum /\ s >= order[d]
  BY <1>4
<1>. HIDE DEF T, s
<1>6. /\ done \in Seq(Calls) /\ Len(done) = n
      /\ \A i \in DOMAIN calls : i # n => done[i] = calls[i]
      /\ done[n].unit = calls[n].unit /\ done[n].todo = T /\ done[n].sum = s
  <2>1. n \in DOMAIN calls /\ calls[n] \in [unit : Units, todo : SUBSET Units, sum : Nat]
    BY <1>3 DEF Calls
  <2>2. DOMAIN done = DOMAIN calls /\ \A i \in DOMAIN calls : i # n => done[i] = calls[i]
    BY <2>1
  <2>3. done[n].unit = calls[n].unit /\ done[n].todo = T /\ done[n].sum = s
    BY <2>1
  <2>4. done[n] \in Calls
    BY <2>1, <1>5 DEF Calls
  <2>5. done = [i \in DOMAIN calls |-> done[i]]
    BY <2>1
  <2>. HIDE DEF done, n
  <2>6. \A i \in DOMAIN calls : done[i] \in Calls
    BY <2>2, <2>4, <1>3
  <2>7. done \in Seq(Calls) /\ Len(done) = Len(calls)
    BY <2>5, <2>6, <1>2, SameLength
  <2>. QED BY <2>2, <2>3, <2>7 DEF n
<1>. HIDE DEF done
<1>. DEFINE Added(e) == e \in Depends(calls[n].unit) \ T
<1>7. d \in Depends(calls[n].unit) /\ T \subseteq Depends(calls[n].unit) /\ d \notin T
      /\ \A e : Added(e) <=> e = d \/ e \in Depends(calls[n].unit) \ calls[n].todo
  BY <1>0, <1>3 DEF IInv, CallsInv, T
<1>. HIDE DEF n
<1>8. \A i \in 1..n : /\ done[i].unit = calls[i].unit /\ order[done[i].unit] = 0
                      /\ done[i].unit \in stackUnitNames
                      /\ done[i].todo \subseteq Depends(done[i].unit)
  BY <1>3, <1>6, <1>7 DEF IInv, CallsInv
<1>9. \A i, j \in 1..n : i < j => /\ done[i].unit # done[j].unit
                                  /\ done[j].unit \in Below(done[i].unit)
  BY <1>3, <1>8 DEF IInv, CallsInv
<1>10. \A i \in 1..n : i # n => \A e \in Depends(done[i].unit) \ done[i].todo :
         \/ i < n /\ e = done[i + 1].unit
         \/ done[i].unit \in Below(e)
         \/ order[e] # 0 /\ order[e] <= done[i].sum
  <2>. SUFFICES ASSUME NEW i \in 1..n, i # n, NEW e \in Depends(calls[i].unit) \ calls[i].todo
                PROVE  \/ i < n /\ e = done[i + 1].unit
                       \/ calls[i].unit \in Below(e)
                       \/ order[e] # 0 /\ order[e] <= calls[i].sum
    BY <1>3, <1>6
  <2>1. i + 1 \in 1..n /\ done[i + 1].unit = calls[i + 1].unit
    BY <1>3, <1>8
  <2>2. \/ i < n /\ e = calls[i + 1].unit
        \/ calls[i].unit \in Below(e)
        \/ order[e] # 0 /\ order[e] <= calls[i].sum
    BY <1>3 DEF IInv, CallsInv, n
  <2>. QED BY <2>1, <2>2
<1>11. \A e \in Depends(done[n].unit) \ done[n].todo :
         e = d \/ done[n].unit \in Below(e) \/ (order[e] # 0 /\ order[e] <= done[n].sum)
  <2>. SUFFICES ASSUME NEW e \in Depends(done[n].unit) \ done[n].todo, e # d
                PROVE  done[n].unit \in Below(e) \/ (order[e] # 0 /\ order[e] <= done[n].sum)
    OBVIOUS
  <2>1. e \in Depends(calls[n].unit) \ calls[n].todo
    BY <1>6, <1>7
  <2>2. \/ n < n
        \/ calls[n].unit \in Below(e)
        \/ order[e] # 0 /\ order[e] <= calls[n].sum
    BY <2>1, <1>3 DEF IInv, CallsInv, n
  <2>3. order[e] \in Nat
    BY <2>1, <1>2 DEF Depends
  <2>. QED BY <2>2, <2>3, <1>3, <1>4, <1>5, <1>6
<1>12. OrderInv' /\ MergingInv'
  <2>1. phase = "sort" /\ phase' = "sort"
    BY <1>0 DEF IInv, OrderInv, merging
  <2>2. OrderInv'
    BY <2>1, <1>0, <1>1 DEF IInv, OrderInv, After
  <2>. QED BY <2>2, <1>0, MergingStays
<1>13. Types' /\ CallsInv'
  <2>1. CASE order[d] # 0 \/ d \in stackUnitNames
    <3>1. calls' = done /\ stackUnitNames' = stackUnitNames /\ DOMAIN done = 1..n /\ Len(done) = n
      BY <2>1, <1>0, <1>6, <1>3
    <3>2. done[n].unit \in Below(d) \/ (order[d] # 0 /\ order[d] <= done[n].sum)
      <4>1. CASE order[d] # 0
        BY <4>1, <1>5, <1>6
      <4>2. CASE order[d] = 0
        <5>1. PICK i \in 1..n : calls[i].unit = d
          BY <4>2, <2>1, <1>3 DEF IInv, CallsInv
        <5>2. i < n
          BY <5>1, <1>3, <1>7 DEF Depends
        <5>. QED BY <5>1, <5>2, <1>3, <1>8, <1>9
      <4>. QED BY <4>1, <4>2
    <3>3. \A i \in 1..n : \A e \in Depends(done[i].unit) \ done[i].todo :
            \/ i < n /\ e = done[i + 1].unit
            \/ done[i].unit \in Below(e)
            \/ order[e] # 0 /\ order[e] <= done[i].sum
      BY <3>2, <1>3, <1>10, <1>11
    <3>4. \A v \in stackUnitNames \cap Units : order[v] # 0 \/ \E i \in 1..n : done[i].unit = v
      BY <1>3, <1>8 DEF IInv, CallsInv
    <3>5. CallsInv'
      BY <3>1, <3>3, <3>4, <1>0, <1>1, <1>8, <1>9 DEF CallsInv
    <3>6. Types'
      BY <3>1, <1>0, <1>1, <1>6 DEF IInv, Types, program, merging
    <3>. QED BY <3>5, <3>6
  <2>2. CASE order[d] = 0 /\ d \notin stackUnitNames
    <3>0. Call(d) \in Calls /\ Call(d).unit = d /\ Call(d).todo = Depends(d)
      BY DEF Call, Calls, Depends
    <3>1. /\ calls' = Append(done, Call(d)) /\ stackUnitNames' = stackUnitNames \cup {d}
          /\ calls' \in Seq(Calls)
          /\ Len(calls') = n + 1 /\ DOMAIN calls' = 1..(n + 1)
          /\ \A i \in 1..n : calls'[i] = done[i]
          /\ calls'[n + 1] = Call(d)
      BY <2>2, <1>0, <1>3, <1>6, <3>0
    <3>2. \A i \in 1..n : done[i].unit # d
      <4>1. ASSUME NEW i \in 1..n, done[i].unit = d PROVE FALSE
        BY <4>1, <2>2, <1>8
      <4>. QED BY <4>1
    <3>3. \A i \in 1..n : d \in Below(done[i].unit)
      <4>1. done[n].unit \in Below(done[n].unit) /\ d \in Depends(done[n].unit)
        BY <1>4, <1>6, <1>7, BelowStep
      <4>2. \A i \in 1..n : done[n].unit \in Below(done[i].unit)
        BY <4>1, <1>3, <1>9
      <4>. QED BY <4>1, <4>2, BelowStep
    <3>4. \A i \in 1..n : \A e \in Depends(done[i].unit) \ done[i].todo :
            \/ i < n + 1 /\ e = calls'[i + 1].unit
            \/ done[i].unit \in Below(e)
            \/ order[e] # 0 /\ order[e] <= done[i].sum
      <4>1. \A i \in 1..n : i # n => i + 1 \in 1..n /\ i < n /\ i < n + 1
        BY <1>3
      <4>2. n < n + 1 /\ calls'[n + 1].unit = d
        BY <1>3, <3>0, <3>1
      <4>. QED BY <4>1, <4>2, <1>3, <1>10, <1>11, <3>1
    <3>5. \A v \in stackUnitNames' \cap Units : order[v] # 0 \/ \E i \in 1..(n + 1) : calls'[i].unit = v
      <4>1. ASSUME NEW v \in stackUnitNames \cap Units PROVE order[v] # 0 \/ \E i \in 1..(n + 1) : calls'[i].unit = v
        <5>1. order[v] # 0 \/ \E i \in 1..n : calls[i].unit = v
          BY <1>3 DEF IInv, CallsInv
        <5>2. \A i \in 1..n : i \in 1..(n + 1) /\ calls'[i].unit = calls[i].unit
          BY <1>3, <1>8, <3>1
        <5>. QED BY <5>1, <5>2
      <4>2. n + 1 \in 1..(n + 1) /\ calls'[n + 1].unit = d
        BY <1>3, <3>0, <3>1
      <4>. QED BY <4>1, <4>2, <3>1
    <3>6. ASSUME NEW i \in 1..(n + 1)
          PROVE  /\ order[calls'[i].unit] = 0 /\ calls'[i].unit \in stackUnitNames'
                 /\ calls'[i].todo \subseteq Depends(calls'[i].unit)
                 /\ \A e \in Depends(calls'[i].unit) \ calls'[i].todo :
                      \/ i < n + 1 /\ e = calls'[i + 1].unit
                      \/ calls'[i].unit \in Below(e)
                      \/ order[e] # 0 /\ order[e] <= calls'[i].sum
                 /\ \A j \in 1..(n + 1) : i < j =>
                      /\ calls'[i].unit # calls'[j].unit
                      /\ calls'[j].unit \in Below(calls'[i].unit)
      <4>1. CASE i = n + 1
        BY <4>1, <3>0, <3>1, <2>2, <1>3
      <4>2. CASE i # n + 1
        <5>1. i \in 1..n /\ calls'[i] = done[i]
          BY <4>2, <1>3, <3>1
        <5>2. \A j \in 1..(n + 1) : i < j =>
                /\ calls'[i].unit # calls'[j].unit
                /\ calls'[j].unit \in Below(calls'[i].unit)
          <6>1. ASSUME NEW j \in 1..(n + 1), i < j, j # n + 1
                PROVE  /\ calls'[i].unit # calls'[j].unit
                       /\ calls'[j].unit \in Below(calls'[i].unit)
            <7>1. j \in 1..n /\ calls'[j] = done[j]
              BY <6>1, <1>3, <3>1
            <7>. QED BY <7>1, <6>1, <5>1, <1>9
          <6>2. /\ calls'[i].unit # calls'[n + 1].unit
                /\ calls'[n + 1].unit \in Below(calls'[i].unit)
            BY <5>1, <3>0, <3>1, <3>2, <3>3
          <6>. QED BY <6>1, <6>2
        <5>3. \A e \in Depends(calls'[i].unit) \ calls'[i].todo :
                 \/ i < n + 1 /\ e = calls'[i + 1].unit
                 \/ calls'[i].unit \in Below(e)
                 \/ order[e] # 0 /\ order[e] <= calls'[i].sum
          BY <5>1, <3>4
        <5>. QED BY <5>1, <5>2, <5>3, <3>1, <1>8
      <4>. QED BY <4>1, <4>2
    <3>7. CallsInv'
      BY <3>1, <3>5, <3>6, <1>0, <1>1 DEF CallsInv
    <3>8. Types'
      BY <3>1, <1>0, <1>1 DEF IInv, Types, program, merging
    <3>. QED BY <3>7, <3>8
  <2>. QED BY <2>1, <2>2
<1>. QED BY <1>12, <1>13 DEF IInv, MergingInv

LEMMA ReturnOrderInv == ASSUME IInv, ReturnOrder PROVE IInv'
<1>0. PICK n : n = Len(calls)
  OBVIOUS
<1>1. PICK u, t : u = calls[n].unit /\ t = calls[n].sum + 1
  OBVIOUS
<1>2. /\ UNCHANGED <<program, stackUnitNames, merging>> /\ calls # <<>> /\ calls[n].todo = {}
      /\ order' = [order EXCEPT ![u] = t]
      /\ calls' = IF n = 1 THEN <<>> ELSE [Front(calls) EXCEPT ![n - 1].sum = @ + calls[n].sum + 1]
  BY <1>0, <1>1 DEF ReturnOrder, Innermost
<1>3. Units' = Units /\ Calls' = Calls /\ \A v : Depends(v)' = Depends(v) /\ Below(v)' = Below(v)
  BY <1>2, SameProgram DEF program
<1>4. /\ calls \in Seq(Calls) /\ order \in [Units -> Nat] /\ n \in Nat /\ n >= 1
      /\ DOMAIN calls = 1..n /\ \A i \in 1..n : calls[i] \in Calls
  BY <1>0, <1>2 DEF IInv, Types
<1>5. calls[n].sum \in Nat /\ u \in Units /\ t \in Nat /\ t > calls[n].sum /\ t # 0
  BY <1>1, <1>4 DEF Calls
<1>6. order'[u] = t /\ (\A v \in Units : v # u => order'[v] = order[v]) /\ order' \in [Units -> Nat]
  BY <1>2, <1>4, <1>5
<1>7. \A i \in 1..n : order[calls[i].unit] = 0 /\ calls[i].unit \in stackUnitNames
                      /\ calls[i].todo \subseteq Depends(calls[i].unit)
  BY <1>4 DEF IInv, CallsInv
<1>8. \A i, j \in 1..n : i < j => calls[i].unit # calls[j].unit /\ calls[j].unit \in Below(calls[i].unit)
  BY <1>4 DEF IInv, CallsInv
<1>9. \A i \in 1..n : \A d \in Depends(calls[i].unit) \ calls[i].todo :
        \/ i < n /\ d = calls[i + 1].unit
        \/ calls[i].unit \in Below(d)
        \/ order[d] # 0 /\ order[d] <= calls[i].sum
  BY <1>0, <1>4 DEF IInv, CallsInv
<1>10. order[u] = 0 /\ phase = "sort" /\ phase' = "sort"
  BY <1>1, <1>2, <1>4, <1>7 DEF IInv, OrderInv, merging
<1>11. OrderInv'
  <2>1. ASSUME NEW v \in Units, order'[v] # 0, NEW d \in Depends(v)
        PROVE  v \in Below(d) \/ (order'[d] # 0 /\ order'[d] < order'[v])
    <3>0. d \in Units /\ order[d] \in Nat
      BY <1>4 DEF Depends
    <3>1. CASE v = u
      <4>1. v \in Below(d) \/ (order[d] # 0 /\ order[d] <= calls[n].sum)
        BY <3>1, <1>1, <1>2, <1>4, <1>9
      <4>2. order[d] # 0 => order'[d] = order[d]
        BY <3>0, <1>6, <1>10
      <4>. QED BY <4>1, <4>2, <3>0, <3>1, <1>5, <1>6
    <3>2. CASE v # u
      <4>1. order'[v] = order[v]
        BY <3>2, <1>6
      <4>2. v \in Below(d) \/ (order[d] # 0 /\ order[d] < order[v])
        BY <4>1, <2>1 DEF IInv, OrderInv, After
      <4>3. order[d] # 0 => order'[d] = order[d]
        BY <3>0, <1>6, <1>10
      <4>. QED BY <4>1, <4>2, <4>3
    <3>. QED BY <3>1, <3>2
  <2>. QED BY <2>1, <1>3, <1>10 DEF OrderInv, After
<1>12. MergingInv'
  BY <1>2, MergingStays
<1>13. Types' /\ CallsInv'
  <2>1. CASE n = 1
    <3>1. calls' = <<>> /\ calls' \in Seq(Calls)
      BY <2>1, <1>2
    <3>2. Types'
      BY <3>1, <1>2, <1>3, <1>6 DEF IInv, Types, program, merging
    <3>3. \A v \in stackUnitNames' \cap Units : order'[v] # 0
      <4>1. ASSUME NEW v \in stackUnitNames \cap Units, v # u PROVE order[v] # 0
        <5>1. order[v] # 0 \/ \E i \in 1..1 : calls[i].unit = v
          BY <2>1, <1>4 DEF IInv, CallsInv
        <5>. QED BY <5>1, <4>1, <1>1, <2>1
      <4>. QED BY <4>1, <1>2, <1>5, <1>6
    <3>4. CallsInv'
      BY <3>1, <3>3, <1>3 DEF CallsInv
    <3>. QED BY <3>2, <3>4
  <2>2. CASE n # 1
    <3>0. n - 1 \in 1..(n - 1) /\ n - 1 \in Nat /\ n - 1 \in 1..n /\ n > 1
      BY <2>2, <1>4
    <3>1. DOMAIN Front(calls) = 1..(n - 1) /\ \A i \in 1..(n - 1) : Front(calls)[i] = calls[i]
      BY <3>0, <1>0, <1>4, Returned
    <3>2. /\ calls' = [i \in 1..(n - 1) |-> calls'[i]]
          /\ \A i \in 1..(n - 1) : i # n - 1 => calls'[i] = calls[i]
      BY <3>0, <3>1, <1>2, <2>2
    <3>3. /\ calls'[n - 1].unit = calls[n - 1].unit /\ calls'[n - 1].todo = calls[n - 1].todo
          /\ calls'[n - 1].sum = calls[n - 1].sum + calls[n].sum + 1
          /\ calls'[n - 1] \in Calls
      <4>1. calls[n - 1] \in [unit : Units, todo : SUBSET Units, sum : Nat]
        BY <3>0, <1>4 DEF Calls
      <4>2. calls' = [Front(calls) EXCEPT ![n - 1] = [Front(calls)[n - 1] EXCEPT !.sum = @ + calls[n].sum + 1]]
        BY <1>2, <2>2
      <4>3. calls'[n - 1] = [calls[n - 1] EXCEPT !.sum = @ + calls[n].sum + 1]
        BY <4>2, <3>0, <3>1
      <4>. QED BY <4>1, <4>3, <1>5 DEF Calls
    <3>4. \A i \in 1..(n - 1) : calls'[i] \in Calls
      BY <3>0, <3>2, <3>3, <1>4
    <3>5. calls' \in Seq(Calls) /\ Len(calls') = n - 1 /\ DOMAIN calls' = 1..(n - 1)
      BY <3>0, <3>2, <3>4, <1>0, <1>4, Returned
    <3>6. Types'
      BY <3>5, <1>2, <1>3, <1>6 DEF IInv, Types, program, merging
    <3>7. ASSUME NEW i \in 1..(n - 1)
          PROVE  /\ calls'[i].unit = calls[i].unit /\ calls'[i].todo = calls[i].todo
                 /\ calls[i].sum \in Nat /\ calls'[i].sum \in Nat /\ calls[i].sum <= calls'[i].sum
                 /\ i = n - 1 => t <= calls'[i].sum
      <4>1. i \in 1..n /\ calls[i].sum \in Nat
        BY <1>4 DEF Calls
      <4>. QED BY <4>1, <3>0, <3>2, <3>3, <1>1, <1>5
    <3>8. ASSUME NEW i \in 1..(n - 1), NEW d \in Depends(calls'[i].unit) \ calls'[i].todo
          PROVE  \/ i < n - 1 /\ d = calls'[i + 1].unit
                 \/ calls'[i].unit \in Below(d)
                 \/ order'[d] # 0 /\ order'[d] <= calls'[i].sum
      <4>0. i \in 1..n /\ d \in Units /\ order[d] \in Nat
        BY <1>4 DEF Depends
      <4>1. \/ i < n /\ d = calls[i + 1].unit
            \/ calls[i].unit \in Below(d)
            \/ order[d] # 0 /\ order[d] <= calls[i].sum
        BY <4>0, <3>7, <1>9
      <4>2. CASE i < n /\ d = calls[i + 1].unit
        <5>1. CASE i = n - 1
          <6>1. d = u
            BY <5>1, <4>2, <1>1, <1>4
          <6>. QED BY <6>1, <5>1, <3>7, <1>5, <1>6
        <5>2. CASE i # n - 1
          <6>1. i + 1 \in 1..(n - 1) /\ i < n - 1
            BY <5>2, <1>4
          <6>. QED BY <6>1, <4>2, <3>7
        <5>. QED BY <5>1, <5>2
      <4>3. CASE order[d] # 0 /\ order[d] <= calls[i].sum
        <5>1. order'[d] = order[d]
          BY <4>0, <4>3, <1>6, <1>10
        <5>. QED BY <5>1, <4>0, <4>3, <3>7
      <4>. QED BY <4>1, <4>2, <4>3, <3>7
    <3>9. ASSUME NEW i \in 1..(n - 1)
          PROVE  /\ order'[calls'[i].unit] = 0 /\ calls'[i].unit \in stackUnitNames'
                 /\ calls'[i].todo \subseteq Depends(calls'[i].unit)
      <4>1. i \in 1..n /\ i < n /\ n \in 1..n /\ calls[i].unit \in Units
        BY <1>4 DEF Calls
      <4>2. calls[i].unit # u
        BY <4>1, <1>1, <1>8
      <4>. QED BY <4>1, <4>2, <3>7, <1>2, <1>6, <1>7
    <3>10. \A i, j \in 1..(n - 1) : i < j =>
             calls'[i].unit # calls'[j].unit /\ calls'[j].unit \in Below(calls'[i].unit)
      <4>1. \A i \in 1..(n - 1) : i \in 1..n /\ calls'[i].unit = calls[i].unit
        BY <3>7, <1>4
      <4>. QED BY <4>1, <1>8
    <3>11. \A v \in stackUnitNames' \cap Units : order'[v] # 0 \/ \E i \in 1..(n - 1) : calls'[i].unit = v
      <4>1. ASSUME NEW v \in stackUnitNames \cap Units, v # u
            PROVE  order'[v] # 0 \/ \E i \in 1..(n - 1) : calls'[i].unit = v
        <5>1. order[v] # 0 \/ \E i \in 1..n : calls[i].unit = v
          BY <1>4 DEF IInv, CallsInv
        <5>2. CASE order[v] # 0
          BY <5>2, <4>1, <1>6
        <5>3. ASSUME NEW i \in 1..n, calls[i].unit = v PROVE \E j \in 1..(n - 1) : calls'[j].unit = v
          <6>1. i \in 1..(n - 1)
            BY <5>3, <4>1, <1>1, <1>4
          <6>. QED BY <6>1, <5>3, <3>7
        <5>. QED BY <5>1, <5>2, <5>3
      <4>. QED BY <4>1, <1>2, <1>5, <1>6
    <3>12. CallsInv'
      BY <3>5, <3>8, <3>9, <3>10, <3>11, <1>3 DEF CallsInv
    <3>. QED BY <3>6, <3>12
  <2>. QED BY <2>1, <2>2
<1>. QED BY <1>11, <1>12, <1>13 DEF IInv, MergingInv

-----------------------------------------------------------------------------
(* The lists.                                                              *)

LEMMA ByOrderIs ==
  ASSUME IInv, NEW S \in SUBSET Units, NEW q \in ByOrder(S)
  PROVE  q \in Seq(Units) /\ Range(q) = S /\ IsInjective(q) /\ Sorted(q)
<1>1. IsFiniteSet(Units)
  BY GraphsAreFinite DEF IInv, Types, Units
<1>2. IsFiniteSet(S)
  BY <1>1, FS_Subset
<1>3. PICK n \in Nat : n = Cardinality(S)
  BY <1>2, FS_CardinalityType
<1>4. q \in [1..n -> S]
  BY <1>3 DEF ByOrder
<1>5. q \in [1..n -> Units]
  BY <1>4
<1>6. q \in Seq(Units)
  BY <1>5, MakesSeq
<1>. QED BY <1>6 DEF ByOrder, Sorted

\* Steps of the merge leave the orders alone.
LEMMA OrdersStay ==
  ASSUME IInv, UNCHANGED <<program, ordering>>, phase' = "sort" => phase = "sort",
         phase' # "sort" => calls = <<>> /\ \A u \in Units : order[u] # 0
  PROVE  /\ OrderInv' /\ CallsInv' /\ decl' \in Graphs /\ order' \in [Units -> Nat] /\ calls' \in Seq(Calls)
         /\ order' = order
         /\ Units' = Units /\ Calls' = Calls /\ \A u : Depends(u)' = Depends(u) /\ Below(u)' = Below(u)
<1>1. Units' = Units /\ Calls' = Calls /\ \A u : Depends(u)' = Depends(u) /\ Below(u)' = Below(u)
  BY SameProgram DEF program
<1>2. order' = order /\ calls' = calls /\ stackUnitNames' = stackUnitNames /\ decl' = decl
  BY DEF ordering, program
<1>3. OrderInv'
  BY <1>1, <1>2 DEF IInv, OrderInv, After
<1>4. CallsInv'
  BY <1>1, <1>2 DEF IInv, CallsInv
<1>. QED BY <1>1, <1>2, <1>3, <1>4 DEF IInv, Types

LEMMA SortPhaseInv == ASSUME IInv, Sort PROVE IInv'
<1>. USE DEF Sort
<1>0. phase = "sort" /\ phase' = "collect" /\ files = <<<<>>>> /\ bridge = <<>> /\ remain = <<>> /\ pos = 1
      /\ changed = FALSE
  BY DEF IInv, SortInv, Types
<1>1. /\ OrderInv' /\ CallsInv' /\ decl' \in Graphs /\ order' \in [Units -> Nat] /\ calls' \in Seq(Calls)
      /\ order' = order
      /\ Units' = Units /\ Calls' = Calls /\ \A u : Depends(u)' = Depends(u) /\ Below(u)' = Below(u)
  BY <1>0, OrdersStay
<1>2. sorted' \in Seq(Units) /\ Range(sorted') = Units /\ IsInjective(sorted') /\ Sorted(sorted')
  BY ByOrderIs
<1>3. /\ files' = <<<<>>>> /\ bridge' = <<>> /\ remain' = <<>> /\ pos' = 1 /\ changed' = FALSE
      /\ bridgeNames' = bridgeNames
  BY <1>0
<1>4. Types'
  BY <1>0, <1>1, <1>2 DEF IInv, Types
<1>5. CollectInv'
  <2>1. Len(sorted') \in Nat /\ DOMAIN sorted' = 1..Len(sorted')
    BY <1>2
  <2>2. \A u \in Units : \E k \in 1..Len(sorted') : sorted'[k] = u
    BY <1>2, <2>1 DEF Range
  <2>3. DOMAIN remain' = {} /\ DOMAIN bridge' = {} /\ Range(bridge') = {}
    BY <1>3 DEF Range
  <2>4. Sorted(sorted)'
    BY <1>1, <1>2 DEF Sorted
  <2>5. Sorted(remain)' /\ IsInjective(remain') /\ IsInjective(bridge')
    BY <2>3 DEF Sorted, IsInjective
  <2>. QED BY <2>1, <2>2, <2>3, <2>4, <2>5, <1>1, <1>2, <1>3 DEF CollectInv
<1>6. SortInv' /\ PlaceInv' /\ MergedInv'
  BY <1>0 DEF SortInv, PlaceInv, MergedInv
<1>. QED BY <1>1, <1>4, <1>5, <1>6 DEF IInv

LEMMA CollectUnitInv == ASSUME IInv, CollectUnit PROVE IInv'
<1>0. PICK u : u = sorted[pos]
  OBVIOUS
<1>1. /\ phase = "collect" /\ phase' = "collect" /\ pos <= Len(sorted) /\ pos' = pos + 1
      /\ UNCHANGED <<program, ordering, sorted, files>>
      /\ IF InBridge(u)
         THEN /\ bridge' = Append(bridge, u)
              /\ bridgeNames' = bridgeNames \cup {u} \cup Depends(u)
              /\ changed' = TRUE /\ remain' = remain
         ELSE remain' = Append(remain, u) /\ UNCHANGED <<bridge, bridgeNames, changed>>
  BY <1>0 DEF CollectUnit
<1>2. /\ OrderInv' /\ CallsInv' /\ decl' \in Graphs /\ order' \in [Units -> Nat] /\ calls' \in Seq(Calls)
      /\ order' = order
      /\ Units' = Units /\ Calls' = Calls /\ \A v : Depends(v)' = Depends(v) /\ Below(v)' = Below(v)
  BY <1>1, OrdersStay DEF IInv, OrderInv
<1>3. /\ sorted \in Seq(Units) /\ remain \in Seq(Units) /\ bridge \in Seq(Units) /\ pos \in Nat /\ pos >= 1
      /\ changed \in BOOLEAN
  BY DEF IInv, Types
<1>4. PICK L, n, m \in Nat : L = Len(sorted) /\ n = Len(remain) /\ m = Len(bridge)
  BY <1>3
<1>5. DOMAIN sorted = 1..L /\ DOMAIN remain = 1..n /\ DOMAIN bridge = 1..m /\ pos \in 1..L /\ u \in Units
      /\ pos \in pos..L /\ (\A k \in pos..L : k \in 1..L)
  BY <1>0, <1>1, <1>3, <1>4
<1>6. \A k \in (pos + 1)..L : k \in pos..L /\ pos < k /\ k \in 1..L
  BY <1>3, <1>4
<1>7. /\ Sorted(sorted) /\ Sorted(remain)
      /\ IsInjective(sorted) /\ IsInjective(remain) /\ IsInjective(bridge)
      /\ \A i \in 1..n, k \in pos..L : order[remain[i]] <= order[sorted[k]] /\ remain[i] # sorted[k]
      /\ \A b \in 1..m : /\ \A i \in 1..n : bridge[b] # remain[i]
                         /\ \A k \in pos..L : bridge[b] # sorted[k]
      /\ \A v \in Units : v \in Range(bridge) \/ v \in Range(remain) \/ \E k \in pos..L : sorted[k] = v
      /\ \A v \in Range(bridge) : Depends(v) \subseteq bridgeNames
      /\ ~changed => \A i \in 1..n : remain[i] \notin bridgeNames
      /\ files = <<<<>>>>
  BY <1>1, <1>4, <1>5 DEF IInv, CollectInv
<1>8. SortInv' /\ PlaceInv' /\ MergedInv'
  BY <1>1 DEF SortInv, PlaceInv, MergedInv
<1>9. \A k \in (pos + 1)..L : order[u] <= order[sorted[k]] /\ u # sorted[k]
  BY <1>0, <1>5, <1>6, <1>7 DEF Sorted, IsInjective
<1>10. ASSUME NEW v \in Units, v # u, \E k \in pos..L : sorted[k] = v
       PROVE  \E k \in (pos + 1)..L : sorted[k] = v
  <2>1. PICK k \in pos..L : sorted[k] = v
    BY <1>10
  <2>2. k # pos
    BY <2>1, <1>10, <1>0
  <2>3. k \in (pos + 1)..L
    BY <2>1, <2>2, <1>3, <1>4
  <2>. QED BY <2>1, <2>3
<1>11. CASE InBridge(u)
  <2>1. /\ bridge' = Append(bridge, u) /\ remain' = remain /\ changed' = TRUE
        /\ bridgeNames' = bridgeNames \cup {u} \cup Depends(u)
    BY <1>1, <1>11
  <2>2. /\ bridge' \in Seq(Units) /\ DOMAIN bridge' = 1..(m + 1) /\ bridge'[m + 1] = u
        /\ \A b \in 1..m : bridge'[b] = bridge[b]
    BY <2>1, <1>3, <1>4, <1>5
  <2>3. \A b \in 1..(m + 1) : b \in 1..m \/ b = m + 1
    BY <1>4
  <2>4. Range(bridge') = Range(bridge) \cup {u}
    BY <2>2, <2>3, <1>4, <1>5 DEF Range
  <2>5. Types'
    <3>1. changed' \in BOOLEAN
      BY <2>1
    <3>2. pos' \in Nat /\ pos' >= 1
      BY <1>1, <1>3
    <3>. QED BY <3>1, <3>2, <2>1, <2>2, <1>1, <1>2, <1>3 DEF IInv, Types
  <2>6. IsInjective(bridge')
    <3>1. \A b \in 1..m : bridge[b] # u
      BY <1>0, <1>5, <1>7
    <3>. QED BY <3>1, <2>2, <2>3, <1>5, <1>7 DEF IsInjective
  <2>7. Sorted(sorted)' /\ Sorted(remain)'
    BY <1>1, <1>2, <1>7, <2>1 DEF Sorted
  <2>8. \A b \in 1..(m + 1) : /\ \A i \in 1..n : bridge'[b] # remain[i]
                              /\ \A k \in (pos + 1)..L : bridge'[b] # sorted[k]
    BY <2>2, <2>3, <1>0, <1>5, <1>6, <1>7, <1>9
  <2>9. \A v \in Units :
          v \in Range(bridge') \/ v \in Range(remain) \/ \E k \in (pos + 1)..L : sorted[k] = v
    BY <2>4, <1>7, <1>10
  <2>10. \A v \in Range(bridge') : Depends(v) \subseteq bridgeNames'
    BY <2>1, <2>4, <1>7
  <2>11. CollectInv'
    <3>1. pos' <= L + 1
      BY <1>1, <1>3, <1>4
    <3>. QED BY <3>1, <2>1, <2>2, <2>6, <2>7, <2>8, <2>9, <2>10, <1>1, <1>2, <1>4, <1>5, <1>6, <1>7 DEF CollectInv
  <2>. QED BY <2>5, <2>11, <1>2, <1>8 DEF IInv
<1>12. CASE ~InBridge(u)
  <2>1. remain' = Append(remain, u) /\ bridge' = bridge /\ changed' = changed /\ bridgeNames' = bridgeNames
    BY <1>1, <1>12
  <2>2. /\ remain' \in Seq(Units) /\ DOMAIN remain' = 1..(n + 1) /\ remain'[n + 1] = u
        /\ \A i \in 1..n : remain'[i] = remain[i]
    BY <2>1, <1>3, <1>4, <1>5
  <2>3. \A i \in 1..(n + 1) : i \in 1..n \/ i = n + 1
    BY <1>4
  <2>4. Range(remain') = Range(remain) \cup {u}
    BY <2>2, <2>3, <1>4, <1>5 DEF Range
  <2>5. Types'
    <3>1. pos' \in Nat /\ pos' >= 1
      BY <1>1, <1>3
    <3>. QED BY <3>1, <2>1, <2>2, <1>1, <1>2, <1>3 DEF IInv, Types
  <2>6. \A i \in 1..n : remain[i] # u /\ order[remain[i]] <= order[u]
    BY <1>0, <1>5, <1>7
  <2>7. IsInjective(remain')
    BY <2>2, <2>3, <2>6, <1>5, <1>7 DEF IsInjective
  <2>8. Sorted(sorted)' /\ Sorted(remain)'
    <3>1. \A i, j \in 1..(n + 1) : i < j => order[remain'[i]] <= order[remain'[j]]
      <4>1. ASSUME NEW i \in 1..(n + 1), NEW j \in 1..(n + 1), i < j PROVE i \in 1..n /\ (j \in 1..n \/ j = n + 1)
        BY <4>1, <1>4
      <4>. QED BY <4>1, <2>2, <2>6, <1>5, <1>7 DEF Sorted
    <3>. QED BY <3>1, <2>2, <1>1, <1>2, <1>7 DEF Sorted
  <2>9. \A i \in 1..(n + 1), k \in (pos + 1)..L : order[remain'[i]] <= order[sorted[k]] /\ remain'[i] # sorted[k]
    BY <2>2, <2>3, <1>6, <1>7, <1>9
  <2>10. \A b \in 1..m : /\ \A i \in 1..(n + 1) : bridge[b] # remain'[i]
                         /\ \A k \in (pos + 1)..L : bridge[b] # sorted[k]
    BY <2>2, <2>3, <1>0, <1>5, <1>6, <1>7
  <2>11. \A v \in Units :
          v \in Range(bridge) \/ v \in Range(remain') \/ \E k \in (pos + 1)..L : sorted[k] = v
    BY <2>4, <1>7, <1>10
  <2>12. ~changed => \A i \in 1..(n + 1) : remain'[i] \notin bridgeNames
    BY <2>2, <2>3, <1>7, <1>12 DEF InBridge
  <2>13. CollectInv'
    <3>1. pos' <= L + 1
      BY <1>1, <1>3, <1>4
    <3>. QED BY <3>1, <2>1, <2>2, <2>7, <2>8, <2>9, <2>10, <2>11, <2>12, <1>1, <1>2, <1>4, <1>5, <1>7 DEF CollectInv
  <2>. QED BY <2>5, <2>13, <1>2, <1>8 DEF IInv
<1>. QED BY <1>11, <1>12

LEMMA EndPassInv == ASSUME IInv, EndPass PROVE IInv'
<1>1. /\ phase = "collect" /\ pos > Len(sorted)
      /\ IF ~changed THEN bridge' \in ByOrder(Range(bridge)) /\ phase' = "place"
                     ELSE bridge' = bridge /\ phase' = phase
      /\ sorted' = remain /\ remain' = <<>> /\ pos' = 1 /\ changed' = FALSE
      /\ UNCHANGED <<program, ordering, bridgeNames, files>>
  BY DEF EndPass, LastPass
<1>2. /\ OrderInv' /\ CallsInv' /\ decl' \in Graphs /\ order' \in [Units -> Nat] /\ calls' \in Seq(Calls)
      /\ order' = order
      /\ Units' = Units /\ Calls' = Calls /\ \A v : Depends(v)' = Depends(v) /\ Below(v)' = Below(v)
  <2>1. calls = <<>> /\ \A u \in Units : order[u] # 0
    BY <1>1 DEF IInv, OrderInv
  <2>2. phase' # "sort"
    BY <1>1
  <2>. QED BY <1>1, <2>1, <2>2, OrdersStay
<1>3. /\ sorted \in Seq(Units) /\ remain \in Seq(Units) /\ bridge \in Seq(Units) /\ pos \in Nat /\ pos >= 1
  BY DEF IInv, Types
<1>4. PICK n, m \in Nat : n = Len(remain) /\ m = Len(bridge)
  BY <1>3
<1>5. /\ DOMAIN remain = 1..n /\ DOMAIN bridge = 1..m /\ DOMAIN sorted' = 1..n /\ Len(sorted') = n
      /\ \A k \in pos..Len(sorted) : FALSE
  BY <1>1, <1>3, <1>4
<1>6. /\ Sorted(remain) /\ IsInjective(remain) /\ IsInjective(bridge)
      /\ \A b \in 1..m : \A i \in 1..n : bridge[b] # remain[i]
      /\ \A v \in Units : v \in Range(bridge) \/ v \in Range(remain)
      /\ \A v \in Range(bridge) : Depends(v) \subseteq bridgeNames
      /\ ~changed => \A i \in 1..n : remain[i] \notin bridgeNames
      /\ files = <<<<>>>>
  BY <1>1, <1>4, <1>5 DEF IInv, CollectInv
<1>7. remain' \in Seq(Units) /\ sorted' \in Seq(Units) /\ DOMAIN remain' = {} /\ Range(remain') = {}
  BY <1>1, <1>3 DEF Range
<1>8. Range(bridge) \in SUBSET Units
  BY <1>3, <1>4, <1>5 DEF Range
<1>9. \A v \in Range(remain) : \E k \in 1..n : sorted'[k] = v
  BY <1>1, <1>5 DEF Range
<1>10. Sorted(sorted)' /\ IsInjective(sorted')
  BY <1>1, <1>2, <1>6 DEF Sorted
<1>11. files' = <<<<>>>> /\ files' \in Seq(Seq(Units)) /\ DOMAIN files' = {1} /\ files'[1] = <<>> /\ DOMAIN files'[1] = {}
  BY <1>1, <1>6
<1>12. CASE changed
  <2>1. bridge' = bridge /\ phase' = "collect"
    BY <1>1, <1>12
  <2>2. Types'
    <3>1. changed' \in BOOLEAN
      BY <1>1
    <3>. QED BY <3>1, <2>1, <1>1, <1>2, <1>3, <1>7, <1>11 DEF Types
  <2>3. CollectInv'
    <3>1. Sorted(remain)' /\ IsInjective(remain') /\ IsInjective(bridge')
      BY <2>1, <1>6, <1>7 DEF Sorted, IsInjective
    <3>2. DOMAIN bridge' = 1..m /\ \A b \in 1..m : \A k \in 1..n : bridge'[b] # sorted'[k]
      BY <2>1, <1>1, <1>5, <1>6
    <3>3. \A v \in Units : v \in Range(bridge') \/ \E k \in 1..n : sorted'[k] = v
      BY <2>1, <1>6, <1>9
    <3>4. \A v \in Range(bridge') : Depends(v) \subseteq bridgeNames'
      BY <2>1, <1>1, <1>6
    <3>5. pos' = 1 /\ 1 <= n + 1 /\ Len(sorted') = n
      BY <1>1, <1>4, <1>5
    <3>. QED BY <3>1, <3>2, <3>3, <3>4, <3>5, <1>2, <1>7, <1>10, <1>11 DEF CollectInv
  <2>4. SortInv' /\ PlaceInv' /\ MergedInv'
    BY <2>1 DEF SortInv, PlaceInv, MergedInv
  <2>. QED BY <2>2, <2>3, <2>4, <1>2 DEF IInv
<1>13. CASE ~changed
  <2>1. bridge' \in ByOrder(Range(bridge)) /\ phase' = "place"
    BY <1>1, <1>13
  <2>2. bridge' \in Seq(Units) /\ Range(bridge') = Range(bridge) /\ IsInjective(bridge') /\ Sorted(bridge')
    BY <2>1, <1>8, ByOrderIs
  <2>3. Types'
    <3>1. changed' \in BOOLEAN
      BY <1>1
    <3>. QED BY <3>1, <2>1, <2>2, <1>1, <1>2, <1>3, <1>7, <1>11 DEF Types
  <2>4. \A v \in Range(bridge) : Depends(v) \subseteq Range(bridge)
    <3>1. ASSUME NEW v \in Range(bridge), NEW d \in Depends(v) PROVE d \in Range(bridge)
      <4>1. d \in Units /\ d \in bridgeNames
        BY <1>6 DEF Depends
      <4>2. d \notin Range(remain)
        BY <4>1, <1>5, <1>6, <1>13 DEF Range
      <4>. QED BY <4>1, <4>2, <1>6
    <3>. QED BY <3>1
  <2>5. BridgeDone'
    <3>1. Sorted(bridge)'
      BY <2>2, <1>2 DEF Sorted
    <3>. QED BY <3>1, <2>2, <2>4, <1>2, <1>11 DEF BridgeDone
  <2>6. FilesSorted'
    BY <1>11 DEF FilesSorted
  <2>7. PlaceInv'
    <3>1. \A b \in DOMAIN bridge', k \in 1..n : bridge'[b] # sorted'[k]
      <4>1. \A b \in DOMAIN bridge' : \E c \in 1..m : bridge'[b] = bridge[c]
        BY <2>2, <1>5 DEF Range
      <4>. QED BY <4>1, <1>1, <1>6
    <3>2. \A v \in Units : v \in Range(bridge') \/ \E k \in 1..n : sorted'[k] = v
      BY <2>2, <1>6, <1>9
    <3>3. pos' = 1 /\ 1 <= n + 1 /\ Len(sorted') = n /\ files' # <<>>
      BY <1>1, <1>4, <1>5, <1>11
    <3>. QED BY <2>5, <2>6, <3>1, <3>2, <3>3, <1>2, <1>10, <1>11 DEF PlaceInv
  <2>8. SortInv' /\ CollectInv' /\ MergedInv'
    BY <2>1 DEF SortInv, CollectInv, MergedInv
  <2>. QED BY <2>3, <2>7, <2>8, <1>2 DEF IInv
<1>14. changed \in BOOLEAN
  BY ONLY IInv DEF IInv, Types
<1>. QED BY <1>12, <1>13

LEMMA PlaceUnitInv == ASSUME IInv, PlaceUnit PROVE IInv'
<1>0. PICK u : u = sorted[pos]
  OBVIOUS
<1>1. PICK F, L : F = Len(files) /\ L = Len(sorted)
  OBVIOUS
<1>2. PICK full \in BOOLEAN : \E here :
        /\ here = [files EXCEPT ![F] = Append(files[F], u)]
        /\ files' = IF full THEN Append(here, <<>>) ELSE here
  BY <1>0, <1>1 DEF PlaceUnit
<1>3. PICK here : /\ here = [files EXCEPT ![F] = Append(files[F], u)]
                  /\ files' = IF full THEN Append(here, <<>>) ELSE here
  BY <1>2
<1>4. /\ phase = "place" /\ phase' = "place" /\ pos <= L /\ pos' = pos + 1
      /\ UNCHANGED <<program, ordering, sorted, remain, changed, bridge, bridgeNames>>
  BY <1>1 DEF PlaceUnit
<1>5. /\ OrderInv' /\ CallsInv' /\ decl' \in Graphs /\ order' \in [Units -> Nat] /\ calls' \in Seq(Calls)
      /\ order' = order
      /\ Units' = Units /\ Calls' = Calls /\ \A v : Depends(v)' = Depends(v) /\ Below(v)' = Below(v)
  BY <1>4, OrdersStay DEF IInv, OrderInv
<1>6. /\ sorted \in Seq(Units) /\ bridge \in Seq(Units) /\ pos \in Nat /\ pos >= 1
      /\ files \in Seq(Seq(Units))
  BY DEF IInv, Types
<1>7. /\ BridgeDone /\ FilesSorted /\ files # <<>>
      /\ Sorted(sorted) /\ IsInjective(sorted)
      /\ \A m \in pos..L :
           /\ \A b \in DOMAIN bridge : bridge[b] # sorted[m]
           /\ \A k \in DOMAIN files : \A i \in DOMAIN files[k] :
                order[files[k][i]] <= order[sorted[m]] /\ files[k][i] # sorted[m]
      /\ \A v \in Units : v \in Range(bridge) \/ Placed(v) \/ \E m \in pos..L : sorted[m] = v
  BY <1>1, <1>4 DEF IInv, PlaceInv
<1>8. /\ F \in Nat /\ F >= 1 /\ DOMAIN files = 1..F /\ L \in Nat /\ DOMAIN sorted = 1..L /\ F \in 1..F
      /\ pos \in pos..L /\ pos \in 1..L /\ u \in Units /\ files[F] \in Seq(Units)
  BY <1>0, <1>1, <1>4, <1>6, <1>7
<1>9. PICK f \in Nat : f = Len(files[F])
  BY <1>8
<1>10. /\ here[F] = Append(files[F], u) /\ here[F] \in Seq(Units) /\ DOMAIN files[F] = 1..f
       /\ DOMAIN here[F] = 1..(f + 1) /\ here[F][f + 1] = u
       /\ \A i \in 1..f : here[F][i] = files[F][i]
  BY <1>3, <1>8, <1>9
<1>11. here \in Seq(Seq(Units)) /\ Len(here) = F /\ \A k \in 1..F : k # F => here[k] = files[k]
  <2>1. here = [k \in 1..F |-> here[k]]
    BY <1>3, <1>8
  <2>2. \A k \in 1..F : k # F => here[k] = files[k]
    BY <1>3, <1>8
  <2>3. \A k \in 1..F : files[k] \in Seq(Units)
    BY <1>6, <1>8
  <2>4. \A k \in 1..F : here[k] \in Seq(Units)
    BY <2>2, <2>3, <1>10
  <2>5. here \in [1..F -> Seq(Units)]
    BY <2>1, <2>4
  <2>. QED BY <2>2, <2>5, <1>8, MakesSeq
<1>12. /\ files' \in Seq(Seq(Units)) /\ files' # <<>>
       /\ \A k \in 1..F : k \in DOMAIN files' /\ files'[k] = here[k]
       /\ \A k \in DOMAIN files' : k \in 1..F \/ DOMAIN files'[k] = {}
  <2>1. CASE full
    <3>1. files' = Append(here, <<>>)
      BY <2>1, <1>3
    <3>2. <<>> \in Seq(Units)
      OBVIOUS
    <3>3. Len(files') = F + 1 /\ DOMAIN files' = 1..(F + 1) /\ files'[F + 1] = <<>>
          /\ (\A k \in 1..F : files'[k] = here[k]) /\ files' \in Seq(Seq(Units))
      BY <3>1, <3>2, <1>8, <1>11
    <3>4. \A k \in 1..(F + 1) : k \in 1..F \/ k = F + 1
      BY <1>8
    <3>. QED BY <3>3, <3>4, <1>8
  <2>2. CASE ~full
    <3>1. files' = here
      BY <2>2, <1>3
    <3>2. DOMAIN here = 1..F
      BY <1>11
    <3>. QED BY <3>1, <3>2, <1>8, <1>11
  <2>. QED BY <2>1, <2>2
\* The places are those there were and one more, after them.
<1>13. \A k \in DOMAIN files' : \A i \in DOMAIN files'[k] :
         \/ k = F /\ i = f + 1 /\ files'[k][i] = u
         \/ /\ k \in 1..F /\ i \in DOMAIN files[k] /\ files'[k][i] = files[k][i]
            /\ k < F \/ (k = F /\ i < f + 1)
  <2>. SUFFICES ASSUME NEW k \in DOMAIN files', NEW i \in DOMAIN files'[k]
                PROVE  \/ k = F /\ i = f + 1 /\ files'[k][i] = u
                       \/ /\ k \in 1..F /\ i \in DOMAIN files[k] /\ files'[k][i] = files[k][i]
                          /\ k < F \/ (k = F /\ i < f + 1)
    OBVIOUS
  <2>1. k \in 1..F /\ files'[k] = here[k]
    BY <1>12
  <2>2. CASE k # F
    BY <2>1, <2>2, <1>8, <1>11
  <2>3. CASE k = F
    <3>1. i \in 1..f \/ i = f + 1
      BY <2>1, <2>3, <1>9, <1>10
    <3>. QED BY <3>1, <2>1, <2>3, <1>9, <1>10
  <2>. QED BY <2>2, <2>3
<1>14. \A k \in 1..F : \A i \in DOMAIN files[k] : k \in DOMAIN files' /\ i \in DOMAIN files'[k] /\ files'[k][i] = files[k][i]
  <2>. SUFFICES ASSUME NEW k \in 1..F, NEW i \in DOMAIN files[k]
                PROVE  i \in DOMAIN here[k] /\ here[k][i] = files[k][i]
    BY <1>12
  <2>1. CASE k # F
    BY <2>1, <1>11
  <2>2. CASE k = F
    BY <2>2, <1>9, <1>10
  <2>. QED BY <2>1, <2>2
<1>15. F \in DOMAIN files' /\ f + 1 \in DOMAIN files'[F] /\ files'[F][f + 1] = u
  BY <1>8, <1>9, <1>10, <1>12
<1>16. \A m \in (pos + 1)..L : m \in pos..L /\ pos < m /\ m \in 1..L
  BY <1>6, <1>8
<1>17. \A m \in (pos + 1)..L : order[u] <= order[sorted[m]] /\ u # sorted[m]
  BY <1>0, <1>7, <1>8, <1>16 DEF Sorted, IsInjective
<1>18. FilesSorted'
  <2>. SUFFICES ASSUME NEW k \in DOMAIN files', NEW l \in DOMAIN files', NEW i \in DOMAIN files'[k],
                       NEW j \in DOMAIN files'[l], k < l \/ (k = l /\ i < j)
                PROVE  order[files'[k][i]] <= order[files'[l][j]] /\ files'[k][i] # files'[l][j]
    BY <1>5 DEF FilesSorted
  <2>1. k \in 1..F /\ l \in 1..F
    BY <1>8, <1>13
  <2>2. CASE l = F /\ j = f + 1 /\ files'[l][j] = u
    <3>1. ~(k = F /\ i = f + 1)
      BY <2>2, <1>8, <1>9
    <3>2. i \in DOMAIN files[k] /\ files'[k][i] = files[k][i]
      BY <3>1, <1>13
    <3>. QED BY <3>2, <2>1, <2>2, <1>0, <1>7, <1>8
  <2>3. CASE j \in DOMAIN files[l] /\ files'[l][j] = files[l][j] /\ (l < F \/ (l = F /\ j < f + 1))
    <3>0. l < F \/ (l = F /\ j \in 1..f)
      BY <2>3, <1>10
    <3>1. ~(k = F /\ i = f + 1)
      BY <3>0, <2>1, <1>8, <1>9
    <3>2. i \in DOMAIN files[k] /\ files'[k][i] = files[k][i]
      BY <3>1, <1>13
    <3>. QED BY <3>2, <2>1, <2>3, <1>7, <1>8 DEF FilesSorted
  <2>. QED BY <2>2, <2>3, <1>13
<1>19. BridgeDone'
  <2>1. Sorted(bridge)' /\ IsInjective(bridge') /\ bridge' = bridge
    BY <1>4, <1>5, <1>7 DEF BridgeDone, Sorted
  <2>2. \A v \in Range(bridge') : Depends(v)' \subseteq Range(bridge')
    BY <2>1, <1>5, <1>7 DEF BridgeDone
  <2>3. \A b \in DOMAIN bridge, k \in DOMAIN files' : \A i \in DOMAIN files'[k] : bridge[b] # files'[k][i]
    <3>. SUFFICES ASSUME NEW b \in DOMAIN bridge, NEW k \in DOMAIN files', NEW i \in DOMAIN files'[k]
                  PROVE  bridge[b] # files'[k][i]
      OBVIOUS
    <3>1. bridge[b] # u
      BY <1>0, <1>7, <1>8
    <3>. QED BY <3>1, <1>7, <1>8, <1>13 DEF BridgeDone
  <2>. QED BY <2>1, <2>2, <2>3 DEF BridgeDone
<1>20. \A m \in (pos + 1)..L :
         /\ \A b \in DOMAIN bridge : bridge[b] # sorted[m]
         /\ \A k \in DOMAIN files' : \A i \in DOMAIN files'[k] :
              order[files'[k][i]] <= order[sorted[m]] /\ files'[k][i] # sorted[m]
  <2>. SUFFICES ASSUME NEW m \in (pos + 1)..L
                PROVE  /\ \A b \in DOMAIN bridge : bridge[b] # sorted[m]
                       /\ \A k \in DOMAIN files' : \A i \in DOMAIN files'[k] :
                            order[files'[k][i]] <= order[sorted[m]] /\ files'[k][i] # sorted[m]
    OBVIOUS
  <2>1. m \in pos..L /\ order[u] <= order[sorted[m]] /\ u # sorted[m]
    BY <1>16, <1>17
  <2>. QED BY <2>1, <1>7, <1>8, <1>13
<1>21. \A v \in Units : v \in Range(bridge) \/ Placed(v)' \/ \E m \in (pos + 1)..L : sorted[m] = v
  <2>. SUFFICES ASSUME NEW v \in Units, v \notin Range(bridge)
                PROVE  Placed(v)' \/ \E m \in (pos + 1)..L : sorted[m] = v
    OBVIOUS
  <2>1. CASE Placed(v)
    BY <2>1, <1>8, <1>14 DEF Placed
  <2>2. CASE \E m \in pos..L : sorted[m] = v
    <3>1. PICK m \in pos..L : sorted[m] = v
      BY <2>2
    <3>2. m = pos \/ m \in (pos + 1)..L
      BY <1>6, <1>8
    <3>3. CASE m = pos
      BY <3>1, <3>3, <1>0, <1>15 DEF Placed
    <3>. QED BY <3>1, <3>2, <3>3
  <2>. QED BY <2>1, <2>2, <1>7
<1>22. PlaceInv'
  <2>1. Sorted(sorted)' /\ IsInjective(sorted') /\ sorted' = sorted /\ Len(sorted') = L /\ bridge' = bridge
    BY <1>1, <1>4, <1>5, <1>7 DEF Sorted
  <2>2. pos' = pos + 1 /\ pos + 1 <= L + 1
    BY <1>4, <1>6, <1>8
  <2>. QED BY <2>1, <2>2, <1>5, <1>12, <1>18, <1>19, <1>20, <1>21 DEF PlaceInv
<1>23. Types'
  <2>1. changed' \in BOOLEAN
    BY ONLY IInv, <1>4 DEF IInv, Types
  <2>2. pos' \in Nat /\ pos' >= 1
    BY <1>4, <1>6
  <2>. QED BY <2>1, <2>2, <1>4, <1>5, <1>12 DEF IInv, Types
<1>24. SortInv' /\ CollectInv' /\ MergedInv'
  BY <1>4 DEF SortInv, CollectInv, MergedInv
<1>. QED BY <1>5, <1>22, <1>23, <1>24 DEF IInv

LEMMA FinishInv == ASSUME IInv, Finish PROVE IInv'
<1>1. PICK F : F = Len(files)
  OBVIOUS
<1>2. /\ phase = "place" /\ phase' = "merged" /\ pos > Len(sorted)
      /\ files' = IF files[F] = <<>> THEN Front(files) ELSE files
      /\ UNCHANGED <<program, ordering, sorted, pos, remain, changed, bridge, bridgeNames>>
  BY <1>1 DEF Finish, Last
<1>3. /\ OrderInv' /\ CallsInv' /\ decl' \in Graphs /\ order' \in [Units -> Nat] /\ calls' \in Seq(Calls)
      /\ order' = order
      /\ Units' = Units /\ Calls' = Calls /\ \A v : Depends(v)' = Depends(v) /\ Below(v)' = Below(v)
  BY <1>2, OrdersStay DEF IInv, OrderInv
<1>4. /\ sorted \in Seq(Units) /\ bridge \in Seq(Units) /\ pos \in Nat /\ files \in Seq(Seq(Units))
      /\ BridgeDone /\ FilesSorted /\ files # <<>>
      /\ \A v \in Units : v \in Range(bridge) \/ Placed(v)
  <2>1. \A m \in pos..Len(sorted) : FALSE
    BY <1>2 DEF IInv, Types
  <2>. QED BY <2>1, <1>2 DEF IInv, PlaceInv, Types
<1>5. F \in Nat /\ F >= 1 /\ DOMAIN files = 1..F /\ \A k \in 1..F : files[k] \in Seq(Units)
  BY <1>1, <1>4
<1>6. /\ files' \in Seq(Seq(Units))
      /\ \A k \in DOMAIN files' : k \in 1..F /\ files'[k] = files[k]
      /\ \A k \in 1..F : k \in DOMAIN files' \/ DOMAIN files[k] = {}
  <2>1. CASE files[F] = <<>>
    <3>1. files' = [k \in 1..(F - 1) |-> files[k]] /\ F - 1 \in Nat
      BY <2>1, <1>1, <1>2, <1>5 DEF Front
    <3>2. PICK n \in Nat : n = F - 1
      BY <3>1
    <3>3. files' \in [1..n -> Seq(Units)]
      BY <3>1, <3>2, <1>5
    <3>4. files' \in Seq(Seq(Units)) /\ DOMAIN files' = 1..n
      BY <3>3, MakesSeq
    <3>5. \A k \in 1..F : k \in 1..n \/ k = F
      BY <3>2, <1>5
    <3>6. \A k \in 1..n : k \in 1..F /\ files'[k] = files[k]
      BY <3>1, <3>2, <1>5
    <3>. QED BY <3>4, <3>5, <3>6, <2>1
  <2>2. CASE files[F] # <<>>
    BY <2>2, <1>2, <1>4, <1>5
  <2>. QED BY <2>1, <2>2
<1>7. BridgeDone'
  <2>1. Sorted(bridge)' /\ IsInjective(bridge') /\ bridge' = bridge
    BY <1>2, <1>3, <1>4 DEF BridgeDone, Sorted
  <2>2. \A v \in Range(bridge') : Depends(v)' \subseteq Range(bridge')
    BY <2>1, <1>3, <1>4 DEF BridgeDone
  <2>3. \A b \in DOMAIN bridge, k \in DOMAIN files' : \A i \in DOMAIN files'[k] : bridge[b] # files'[k][i]
    BY <1>4, <1>5, <1>6 DEF BridgeDone
  <2>. QED BY <2>1, <2>2, <2>3 DEF BridgeDone
<1>8. FilesSorted'
  <2>. SUFFICES ASSUME NEW k \in DOMAIN files', NEW l \in DOMAIN files', NEW i \in DOMAIN files'[k],
                       NEW j \in DOMAIN files'[l], k < l \/ (k = l /\ i < j)
                PROVE  order[files'[k][i]] <= order[files'[l][j]] /\ files'[k][i] # files'[l][j]
    BY <1>3 DEF FilesSorted
  <2>1. /\ k \in DOMAIN files /\ l \in DOMAIN files /\ files'[k] = files[k] /\ files'[l] = files[l]
        /\ i \in DOMAIN files[k] /\ j \in DOMAIN files[l]
    BY <1>5, <1>6
  <2>. QED BY ONLY <2>1, <1>4, k < l \/ (k = l /\ i < j) DEF FilesSorted
<1>9. \A v \in Units : v \in Range(bridge) \/ Placed(v)'
  <2>1. ASSUME NEW v \in Units, Placed(v) PROVE Placed(v)'
    <3>1. PICK k \in 1..F : \E i \in DOMAIN files[k] : files[k][i] = v
      BY <2>1, <1>5 DEF Placed
    <3>2. k \in DOMAIN files' /\ files'[k] = files[k]
      BY <3>1, <1>6
    <3>. QED BY <3>1, <3>2 DEF Placed
  <2>. QED BY <2>1, <1>4
<1>10. MergedInv'
  BY <1>2, <1>3, <1>7, <1>8, <1>9 DEF MergedInv
<1>11. Types'
  <2>1. changed' \in BOOLEAN
    BY ONLY IInv, <1>2 DEF IInv, Types
  <2>2. pos' \in Nat /\ pos' >= 1
    BY <1>2 DEF IInv, Types
  <2>. QED BY <2>1, <2>2, <1>2, <1>3, <1>6 DEF IInv, Types
<1>12. SortInv' /\ CollectInv' /\ PlaceInv'
  BY <1>2 DEF SortInv, CollectInv, PlaceInv
<1>. QED BY <1>3, <1>10, <1>11, <1>12 DEF IInv

LEMMA Invariance == MergeSpec => []IInv
<1>1. IInv /\ [MergeNext]_mergeVars => IInv'
  <2>. SUFFICES ASSUME IInv, [MergeNext]_mergeVars PROVE IInv'
    OBVIOUS
  <2>1. ASSUME NEW u \in Units, CompareUnit(u) PROVE IInv'
    BY <2>1, CompareUnitInv
  <2>2. ASSUME NEW d \in Units, AddOrder(d) PROVE IInv'
    BY <2>2, AddOrderInv
  <2>3. CASE ReturnOrder
    BY <2>3, ReturnOrderInv
  <2>4. CASE Sort
    BY <2>4, SortPhaseInv
  <2>5. CASE CollectUnit
    BY <2>5, CollectUnitInv
  <2>6. CASE EndPass
    BY <2>6, EndPassInv
  <2>7. CASE PlaceUnit
    BY <2>7, PlaceUnitInv
  <2>8. CASE Finish
    BY <2>8, FinishInv
  <2>9. CASE UNCHANGED mergeVars
    <3>1. UNCHANGED <<program, ordering, merging>>
      BY <2>9 DEF mergeVars
    <3>2. /\ decl' = decl /\ order' = order /\ calls' = calls /\ stackUnitNames' = stackUnitNames
          /\ phase' = phase /\ sorted' = sorted /\ pos' = pos /\ remain' = remain /\ changed' = changed
          /\ bridge' = bridge /\ bridgeNames' = bridgeNames /\ files' = files
      BY <3>1 DEF program, ordering, merging
    <3>3. Units' = Units /\ Calls' = Calls /\ \A u : Depends(u)' = Depends(u) /\ Below(u)' = Below(u)
      BY <3>2, SameProgram
    <3>4. Types' /\ OrderInv' /\ CallsInv'
      BY <3>2, <3>3 DEF IInv, Types, OrderInv, After, CallsInv
    <3>5. BridgeDone' = BridgeDone /\ FilesSorted' = FilesSorted /\ \A u : Placed(u)' = Placed(u)
      BY <3>2, <3>3 DEF BridgeDone, Sorted, FilesSorted, Placed
    <3>6. SortInv' /\ CollectInv'
      BY <3>2, <3>3 DEF IInv, SortInv, CollectInv, Sorted
    <3>7. PlaceInv' /\ MergedInv'
      BY <3>2, <3>3, <3>5 DEF IInv, PlaceInv, MergedInv, Sorted
    <3>. QED BY <3>4, <3>6, <3>7 DEF IInv
  <2>. QED BY <2>1, <2>2, <2>3, <2>4, <2>5, <2>6, <2>7, <2>8, <2>9 DEF MergeNext
<1>. QED BY <1>1, MergeInitInv, PTL DEF MergeSpec

-----------------------------------------------------------------------------
(* The merged files.                                                       *)

LEMMA PlaceIs ==
  ASSUME Types, NEW p \in Places
  PROVE  /\ p = <<p[1], p[2]>> /\ p[1] \in Nat /\ p[2] \in Nat
         /\ \/ p[1] = 0 /\ p[2] \in DOMAIN bridge /\ UnitAt(p) = bridge[p[2]]
            \/ p[1] # 0 /\ p[1] \in DOMAIN files /\ p[2] \in DOMAIN files[p[1]] /\ UnitAt(p) = files[p[1]][p[2]]
         /\ UnitAt(p) \in Units
<1>1. CASE p \in {<<0, i>> : i \in DOMAIN bridge}
  <2>1. PICK i \in DOMAIN bridge : p = <<0, i>>
    BY <1>1
  <2>2. i \in Nat /\ bridge[i] \in Units
    BY DEF Types
  <2>. QED BY <2>1, <2>2 DEF UnitAt
<1>2. CASE p \in UNION {{<<k, i>> : i \in DOMAIN files[k]} : k \in DOMAIN files}
  <2>1. PICK k \in DOMAIN files : p \in {<<k, i>> : i \in DOMAIN files[k]}
    BY <1>2
  <2>2. PICK i \in DOMAIN files[k] : p = <<k, i>>
    BY <2>1
  <2>3. k \in Nat /\ k # 0 /\ files[k] \in Seq(Units)
    BY DEF Types
  <2>4. i \in Nat /\ files[k][i] \in Units
    BY <2>3
  <2>. QED BY <2>2, <2>3, <2>4 DEF UnitAt
<1>. QED BY <1>1, <1>2 DEF Places

\* Each unit is in one file, at one place, after all that its declaration
\* needs, unless this needs the unit itself; the bridge needs no other file.
THEOREM NeedsComeFirst == MergeSpec => []DeclaredFirst
<1>1. IInv => DeclaredFirst
  <2>. SUFFICES ASSUME IInv, phase = "merged" PROVE DeclaredFirst
    BY DEF DeclaredFirst
  <2>1. /\ Types /\ BridgeDone /\ FilesSorted
        /\ \A u \in Units : u \in Range(bridge) \/ Placed(u)
        /\ \A u \in Units : order[u] # 0 /\ order[u] \in Nat /\ After(u)
    BY DEF IInv, Types, OrderInv, MergedInv
  <2>2. ASSUME NEW p \in Places, NEW q \in Places
        PROVE  \/ p = q
               \/ /\ UnitAt(p) # UnitAt(q)
                  /\ Precedes(p, q) \/ Precedes(q, p)
                  /\ p[1] = q[1] \/ (p[1] # 0 /\ q[1] # 0) =>
                       /\ Precedes(p, q) => order[UnitAt(p)] <= order[UnitAt(q)]
                       /\ Precedes(q, p) => order[UnitAt(q)] <= order[UnitAt(p)]
    <3>1. /\ p = <<p[1], p[2]>> /\ p[1] \in Nat /\ p[2] \in Nat
          /\ q = <<q[1], q[2]>> /\ q[1] \in Nat /\ q[2] \in Nat
          /\ p[1] = 0 => p[2] \in DOMAIN bridge /\ UnitAt(p) = bridge[p[2]]
          /\ q[1] = 0 => q[2] \in DOMAIN bridge /\ UnitAt(q) = bridge[q[2]]
          /\ p[1] # 0 => p[1] \in DOMAIN files /\ p[2] \in DOMAIN files[p[1]] /\ UnitAt(p) = files[p[1]][p[2]]
          /\ q[1] # 0 => q[1] \in DOMAIN files /\ q[2] \in DOMAIN files[q[1]] /\ UnitAt(q) = files[q[1]][q[2]]
      BY <2>1, PlaceIs
    <3>2. PICK k, i, l, j \in Nat : p[1] = k /\ p[2] = i /\ q[1] = l /\ q[2] = j
      BY <3>1
    <3>3. p = <<k, i>> /\ q = <<l, j>>
      BY <3>1, <3>2
    <3>4. /\ Precedes(p, q) <=> k < l \/ (k = l /\ i < j)
          /\ Precedes(q, p) <=> l < k \/ (l = k /\ j < i)
          /\ p = q \/ Precedes(p, q) \/ Precedes(q, p)
          /\ ~(Precedes(p, q) /\ Precedes(q, p))
      BY <3>2, <3>3 DEF Precedes
    <3>5. CASE k = 0 /\ l = 0
      <4>1. i \in DOMAIN bridge /\ j \in DOMAIN bridge /\ UnitAt(p) = bridge[i] /\ UnitAt(q) = bridge[j]
        BY <3>1, <3>2, <3>5
      <4>2. /\ i < j => order[UnitAt(p)] <= order[UnitAt(q)]
            /\ j < i => order[UnitAt(q)] <= order[UnitAt(p)]
            /\ i # j => UnitAt(p) # UnitAt(q)
        BY <4>1, <2>1 DEF BridgeDone, Sorted, IsInjective
      <4>. QED BY <4>2, <3>3, <3>4, <3>5
    <3>6. CASE k # 0 /\ l # 0
      <4>1. /\ k \in DOMAIN files /\ i \in DOMAIN files[k] /\ UnitAt(p) = files[k][i]
            /\ l \in DOMAIN files /\ j \in DOMAIN files[l] /\ UnitAt(q) = files[l][j]
        BY <3>1, <3>2, <3>6
      <4>2. Precedes(p, q) => order[UnitAt(p)] <= order[UnitAt(q)] /\ UnitAt(p) # UnitAt(q)
        BY <4>1, <3>4, <2>1 DEF FilesSorted
      <4>3. Precedes(q, p) => order[UnitAt(q)] <= order[UnitAt(p)] /\ UnitAt(q) # UnitAt(p)
        BY <4>1, <3>4, <2>1 DEF FilesSorted
      <4>. QED BY <4>2, <4>3, <3>4
    <3>7. CASE (k = 0) # (l = 0)
      <4>1. UnitAt(p) # UnitAt(q)
        <5>1. CASE k = 0
          <6>1. /\ i \in DOMAIN bridge /\ UnitAt(p) = bridge[i]
                /\ l \in DOMAIN files /\ j \in DOMAIN files[l] /\ UnitAt(q) = files[l][j]
            BY <5>1, <3>1, <3>2, <3>7
          <6>. QED BY <6>1, <2>1 DEF BridgeDone
        <5>2. CASE l = 0
          <6>1. /\ j \in DOMAIN bridge /\ UnitAt(q) = bridge[j]
                /\ k \in DOMAIN files /\ i \in DOMAIN files[k] /\ UnitAt(p) = files[k][i]
            BY <5>2, <3>1, <3>2, <3>7
          <6>. QED BY <6>1, <2>1 DEF BridgeDone
        <5>. QED BY <5>1, <5>2, <3>7
      <4>. QED BY <4>1, <3>2, <3>4, <3>7
    <3>. QED BY <3>5, <3>6, <3>7
  <2>3. ASSUME NEW u \in Units PROVE \E p \in Places : UnitAt(p) = u
    <3>1. CASE u \in Range(bridge)
      <4>1. PICK i \in DOMAIN bridge : bridge[i] = u
        BY <3>1 DEF Range
      <4>2. <<0, i>> \in Places /\ UnitAt(<<0, i>>) = u
        BY <4>1 DEF Places, UnitAt
      <4>. QED BY <4>2
    <3>2. CASE Placed(u)
      <4>1. PICK k \in DOMAIN files : \E i \in DOMAIN files[k] : files[k][i] = u
        BY <3>2 DEF Placed
      <4>2. PICK i \in DOMAIN files[k] : files[k][i] = u
        BY <4>1
      <4>3. k # 0
        BY <2>1 DEF Types
      <4>4. <<k, i>> \in Places
        BY DEF Places
      <4>5. UnitAt(<<k, i>>) = u
        BY <4>2, <4>3 DEF UnitAt
      <4>. QED BY <4>4, <4>5
    <3>. QED BY <3>1, <3>2, <2>1
  <2>4. ASSUME NEW p \in Places, NEW q \in Places, UnitAt(p) \in Depends(UnitAt(q)), ~Precedes(p, q)
        PROVE  UnitAt(q) \in Below(UnitAt(p))
    <3>1. /\ UnitAt(p) \in Units /\ UnitAt(q) \in Units
          /\ UnitAt(q) \in Below(UnitAt(p)) \/ order[UnitAt(p)] < order[UnitAt(q)]
      BY <2>1, <2>4, PlaceIs DEF After
    <3>2. ~(p[1] = 0 /\ q[1] # 0)
      <4>1. p[1] \in Nat /\ q[1] \in Nat
        BY <2>1, PlaceIs
      <4>. QED BY <4>1, <2>4 DEF Precedes
    <3>3. ~(q[1] = 0 /\ p[1] # 0)
      <4>. SUFFICES ASSUME q[1] = 0, p[1] # 0 PROVE FALSE
        OBVIOUS
      <4>1. /\ q[2] \in DOMAIN bridge /\ UnitAt(q) = bridge[q[2]]
            /\ p[1] \in DOMAIN files /\ p[2] \in DOMAIN files[p[1]] /\ UnitAt(p) = files[p[1]][p[2]]
        BY <2>1, PlaceIs
      <4>2. UnitAt(q) \in Range(bridge)
        BY <4>1 DEF Range
      <4>3. PICK b \in DOMAIN bridge : bridge[b] = UnitAt(p)
        BY <4>2, <2>1, <2>4 DEF BridgeDone, Range
      <4>. QED BY <4>1, <4>3, <2>1 DEF BridgeDone
    <3>4. p = q \/ order[UnitAt(q)] <= order[UnitAt(p)]
      BY <3>2, <3>3, <2>2, <2>4
    <3>5. p # q
      BY <2>4 DEF Depends
    <3>. QED BY <3>1, <3>4, <3>5, <2>1
  <2>. QED BY <2>1, <2>2, <2>3, <2>4 DEF DeclaredFirst, BridgeDone
<1>. QED BY <1>1, Invariance, PTL
-----------------------------------------------------------------------------
(* Tables. A table is good for the methods it was made from (Good): each   *)
(* slot knows the method that opened it, holds the methods that have that  *)
(* slot, and the entry map leads each of them to the last override. What   *)
(* opens a slot, and who is the last, is said of a set of methods, so that *)
(* one method more is a step of the proof.  Entries of interfaces are said *)
(* to be where the classes so far bind them (Claim): bound to a slot, left *)
(* to a derived class, or in no slot at all.                               *)

Kinds == {"new", "reuse"}

AreMethods(M) == \A m \in M :
  /\ m = [owner |-> m.owner, sig |-> m.sig, kind |-> m.kind]
  /\ m.owner \in Nat \ {0} /\ m.kind \in Kinds

Under(M, n) == {m \in M : m.owner < n}

\* m opens a slot in the chain of the methods M
OpensIn(M, m) == m.kind = "new" \/ \A p \in M : ~(p.sig = m.sig /\ p.owner < m.owner)

\* o is the last of M that opened a slot for the signature
Current(M, sig, o) ==
  /\ o \in M /\ o.sig = sig /\ OpensIn(M, o)
  /\ \A p \in M : p.sig = sig /\ OpensIn(M, p) =>
       p.owner < o.owner \/ p = o \/ (p.owner = o.owner /\ o.kind = "new")

\* o opened the slot of m
SlotIs(M, m, o) ==
  IF OpensIn(M, m) THEN o = m ELSE Current(Under(M, m.owner), m.sig, o)

\* x is the last override of the slot that o opened
LastIs(M, o, x) ==
  /\ x \in M /\ SlotIs(M, x, o)
  /\ \A y \in M : SlotIs(M, y, o) => y.owner <= x.owner

Fields == DOMAIN EmptyTable

\* What SlotMap holds for signature g.
SlotOK(M, g, s) ==
  /\ DOMAIN s = {"entries", "first", "impl"}
  /\ Current(M, g, s.first)
  /\ LastIs(M, s.first, s.impl)
  /\ s.entries \subseteq M \cup Entries /\ IsFiniteSet(s.entries)
  /\ \A m \in M : m \in s.entries <=> SlotIs(M, m, s.first)

\* A table is right for the methods M of a chain: there is a slot for each
\* signature, opened by the current opener, with all that share it; each method
\* leads to the last override of its slot; only methods that reuse a slot are
\* redirected, and to its opener.
Good(T, M) ==
  /\ DOMAIN T = Fields
  /\ DOMAIN T.slots = {m.sig : m \in M}
  /\ \A g \in DOMAIN T.slots : SlotOK(M, g, T.slots[g])
  /\ M \subseteq DOMAIN T.impl /\ DOMAIN T.impl \subseteq M \cup Entries
  /\ IsFiniteSet(DOMAIN T.impl)
  /\ \A e \in DOMAIN T.impl : T.impl[e] \in M \cup {None}
  /\ \A m \in M, o \in M : SlotIs(M, m, o) => LastIs(M, o, T.impl[m])
  /\ DOMAIN T.replace = {}
  /\ \A m \in DOMAIN T.newSlot :
       m \in M /\ ~OpensIn(M, m) /\ SlotIs(M, m, T.newSlot[m])
  /\ \A g \in DOMAIN T.pending : T.pending[g] \subseteq Entries /\ IsFiniteSet(T.pending[g])
  /\ \A m \in M : m.kind = "reuse" => (m \in T.promoted <=> OpensIn(M, m))
  /\ T.promoted \subseteq M

-----------------------------------------------------------------------------
\* Methods of classes are not entries of interfaces.
LEMMA EntriesApart == ASSUME NEW M, AreMethods(M) PROVE M \cap Entries = {}
BY DeclarationAssumption DEF AreMethods

\* There is one current opener of a signature,
LEMMA CurrentOnce ==
  ASSUME NEW M, AreMethods(M), NEW g, NEW o, NEW p, Current(M, g, o), Current(M, g, p)
  PROVE  o = p
BY DEF AreMethods, Current

LEMMA UnderMethods == ASSUME NEW M, AreMethods(M), NEW n PROVE AreMethods(Under(M, n)) /\ Under(M, n) \subseteq M
BY DEF AreMethods, Under

\* and one opener of the slot of a method.
LEMMA SlotOnce ==
  ASSUME NEW M, AreMethods(M), NEW m, NEW o, NEW p, SlotIs(M, m, o), SlotIs(M, m, p)
  PROVE  o = p
<1>1. CASE OpensIn(M, m) BY <1>1 DEF SlotIs
<1>2. CASE ~OpensIn(M, m)
  BY <1>2, UnderMethods, CurrentOnce DEF SlotIs
<1> QED BY <1>1, <1>2

\* Whether a method opens a slot depends on the classes before it.
LEMMA UnderOpens ==
  ASSUME NEW M, AreMethods(M), NEW n \in Nat, NEW m \in M, m.owner <= n
  PROVE  OpensIn(Under(M, n), m) <=> OpensIn(M, m)
BY DEF AreMethods, Under, OpensIn

\* The opener of a slot has the signature of its methods and comes before those
\* that reuse it.
LEMMA SlotFacts ==
  ASSUME NEW M, AreMethods(M), NEW m \in M, NEW o, SlotIs(M, m, o)
  PROVE  o \in M /\ o.sig = m.sig /\ OpensIn(M, o) /\ o.owner <= m.owner
         /\ (OpensIn(M, m) => o = m) /\ (~OpensIn(M, m) => o.owner < m.owner)
<1>1. m.owner \in Nat BY DEF AreMethods
<1>2. CASE OpensIn(M, m) BY <1>1, <1>2 DEF SlotIs
<1>3. CASE ~OpensIn(M, m)
  <2>1. Current(Under(M, m.owner), m.sig, o) BY <1>3 DEF SlotIs
  <2>2. o \in M /\ o.sig = m.sig /\ o.owner < m.owner /\ OpensIn(Under(M, m.owner), o)
    BY <2>1 DEF Current, Under
  <2>3. o.owner <= m.owner BY <2>2, <1>1 DEF AreMethods
  <2> QED BY <1>1, <1>3, <2>2, <2>3, UnderOpens
<1> QED BY <1>2, <1>3

LEMMA OwnSlot ==
  ASSUME NEW M, NEW m \in M, NEW o, SlotIs(M, m, o), OpensIn(M, o)
  PROVE  SlotIs(M, o, o)
BY DEF SlotIs

\* N has one method more, of no earlier class.
Grows(M, N, x) == x \notin M /\ N = M \cup {x} /\ AreMethods(N) /\ \A p \in M : p.owner <= x.owner

\* The new method changes nothing about the slots of the others (GrowOpens,
\* GrowSlot), is the last of its own slot (GrowLastNew), and openers of other
\* signatures and last overrides of other slots stay (GrowCurrent, GrowLast).
LEMMA GrowOpens ==
  ASSUME NEW M, NEW N, NEW x, Grows(M, N, x), NEW m \in M
  PROVE  OpensIn(N, m) <=> OpensIn(M, m)
BY DEF Grows, AreMethods, OpensIn

LEMMA GrowSlot ==
  ASSUME NEW M, NEW N, NEW x, Grows(M, N, x), NEW m \in M, NEW o
  PROVE  SlotIs(N, m, o) <=> SlotIs(M, m, o)
<1>1. Under(N, m.owner) = Under(M, m.owner) BY DEF Grows, AreMethods, Under
<1>2. OpensIn(N, m) <=> OpensIn(M, m) BY GrowOpens
<1> QED BY <1>1, <1>2 DEF SlotIs

LEMMA GrowSlotNew ==
  ASSUME NEW M, NEW N, NEW x, Grows(M, N, x), NEW o, SlotIs(N, x, o)
  PROVE  o.sig = x.sig /\ (~OpensIn(N, x) => o \in Under(M, x.owner)) /\ (OpensIn(N, x) => o = x)
<1>1. Under(N, x.owner) = Under(M, x.owner) BY DEF Grows, AreMethods, Under
<1> QED BY <1>1 DEF SlotIs, Current

LEMMA GrowLast ==
  ASSUME NEW M, NEW N, NEW x, Grows(M, N, x), NEW o, NEW l, LastIs(M, o, l), ~SlotIs(N, x, o)
  PROVE  LastIs(N, o, l)
BY GrowSlot DEF LastIs, Grows

LEMMA GrowLastNew ==
  ASSUME NEW M, NEW N, NEW x, Grows(M, N, x), NEW o, SlotIs(N, x, o)
  PROVE  LastIs(N, o, x)
<1>1. x \in N /\ \A y \in N : y.owner <= x.owner BY DEF Grows, AreMethods
<1> QED BY <1>1 DEF LastIs

LEMMA GrowCurrent ==
  ASSUME NEW M, NEW N, NEW x, Grows(M, N, x), NEW g, g # x.sig, NEW o, Current(M, g, o)
  PROVE  Current(N, g, o)
BY GrowOpens DEF Current, Grows

LEMMA FieldsAre ==
  Fields = {"slots", "impl", "replace", "newSlot", "pending", "promoted", "targets", "error"}
BY DEF Fields, EmptyTable

LEMMA WithSlotIs ==
  ASSUME NEW T, DOMAIN T = Fields, NEW g, NEW s
  PROVE  LET W == WithSlot(T, g, s)
         IN  /\ DOMAIN W = Fields
             /\ W.slots = Put(T.slots, g, s)
             /\ W.impl = [e \in DOMAIN T.impl \cup s.entries |-> IF e \in s.entries THEN s.impl ELSE T.impl[e]]
             /\ W.replace = T.replace /\ W.newSlot = T.newSlot
             /\ W.pending = T.pending /\ W.promoted = T.promoted /\ W.targets = T.targets
<1> DEFINE U == [T EXCEPT !.slots = Put(@, g, s)]
<1>1. /\ DOMAIN U = Fields /\ U.slots = Put(T.slots, g, s) /\ U.impl = T.impl
      /\ U.replace = T.replace /\ U.newSlot = T.newSlot /\ U.pending = T.pending
      /\ U.promoted = T.promoted /\ U.targets = T.targets
  BY FieldsAre
<1>2. U.slots[g] = s BY <1>1 DEF Put
<1>3. WithSlot(T, g, s) = ApplyVirtualSlot(U, g) BY DEF WithSlot
<1> HIDE DEF U
<1>4. WithSlot(T, g, s) = [U EXCEPT !.impl = [e \in DOMAIN @ \cup s.entries |-> IF e \in s.entries THEN s.impl ELSE @[e]]]
  BY <1>2, <1>3 DEF ApplyVirtualSlot
<1> QED BY <1>1, <1>4, FieldsAre

\* Interface entries that join a slot follow its methods.
LEMMA AddEntriesGood ==
  ASSUME NEW M, AreMethods(M), NEW T, Good(T, M), NEW g \in DOMAIN T.slots,
         NEW E, E \subseteq Entries, IsFiniteSet(E)
  PROVE  LET W == AddEntries(T, g, E)
         IN  /\ Good(W, M)
             /\ DOMAIN W.slots = DOMAIN T.slots /\ W.pending = T.pending
<1> DEFINE s == [T.slots[g] EXCEPT !.entries = @ \cup E]
           W == WithSlot(T, g, s)
<1>1. AddEntries(T, g, E) = W BY DEF AddEntries
<1>2. SlotOK(M, g, T.slots[g]) /\ DOMAIN T = Fields BY DEF Good
<1>3. /\ DOMAIN s = {"entries", "first", "impl"} /\ s.entries = T.slots[g].entries \cup E
      /\ s.first = T.slots[g].first /\ s.impl = T.slots[g].impl
  BY <1>2 DEF SlotOK
<1> HIDE DEF s
<1>4. /\ DOMAIN W = Fields
      /\ W.slots = Put(T.slots, g, s)
      /\ W.impl = [e \in DOMAIN T.impl \cup s.entries |-> IF e \in s.entries THEN s.impl ELSE T.impl[e]]
      /\ W.replace = T.replace /\ W.newSlot = T.newSlot
      /\ W.pending = T.pending /\ W.promoted = T.promoted
  BY <1>2, WithSlotIs
<1> HIDE DEF W
<1>5. M \cap Entries = {} BY EntriesApart
<1>6. SlotOK(M, g, s)
  <2>1. IsFiniteSet(T.slots[g].entries) BY <1>2 DEF SlotOK
  <2>2. IsFiniteSet(s.entries) BY <2>1, <1>3, FS_Union
  <2> QED BY <1>2, <1>3, <1>5, <2>2 DEF SlotOK
<1>7. DOMAIN W.slots = DOMAIN T.slots /\ \A h \in DOMAIN W.slots : W.slots[h] = IF h = g THEN s ELSE T.slots[h]
  BY <1>4 DEF Put
<1>8. \A h \in DOMAIN W.slots : SlotOK(M, h, W.slots[h])
  BY <1>6, <1>7 DEF Good
<1>9. /\ DOMAIN W.impl = DOMAIN T.impl \cup s.entries
      /\ \A e \in DOMAIN W.impl : W.impl[e] = IF e \in s.entries THEN s.impl ELSE T.impl[e]
  BY <1>4
<1>10. IsFiniteSet(DOMAIN W.impl)
  <2>1. IsFiniteSet(DOMAIN T.impl) /\ IsFiniteSet(s.entries) BY <1>6 DEF SlotOK, Good
  <2>2. IsFiniteSet(DOMAIN T.impl \cup s.entries) BY <2>1, FS_Union
  <2> QED BY <2>2, <1>9
<1>11. s.impl \in M BY <1>6 DEF SlotOK, LastIs
<1>12. ASSUME NEW m \in M, NEW o \in M, SlotIs(M, m, o) PROVE LastIs(M, o, W.impl[m])
  <2>1. m \in DOMAIN W.impl BY <1>9 DEF Good
  <2>2. CASE m \in s.entries
    <3>1. o = s.first BY <2>2, <1>6, <1>12, SlotOnce DEF SlotOK
    <3> QED BY <3>1, <2>1, <2>2, <1>9, <1>6 DEF SlotOK
  <2>3. CASE m \notin s.entries BY <2>1, <2>3, <1>9, <1>12 DEF Good
  <2> QED BY <2>2, <2>3
<1>13. DOMAIN W.impl \subseteq M \cup Entries /\ M \subseteq DOMAIN W.impl
  BY <1>9, <1>6 DEF Good, SlotOK
<1>14. \A e \in DOMAIN W.impl : W.impl[e] \in M \cup {None}
  BY <1>9, <1>11 DEF Good
<1>15. DOMAIN W.slots = {m.sig : m \in M} BY <1>7 DEF Good
<1>16. /\ DOMAIN W.replace = {}
       /\ \A m \in DOMAIN W.newSlot : m \in M /\ ~OpensIn(M, m) /\ SlotIs(M, m, W.newSlot[m])
       /\ \A h \in DOMAIN W.pending : W.pending[h] \subseteq Entries /\ IsFiniteSet(W.pending[h])
       /\ \A m \in M : m.kind = "reuse" => (m \in W.promoted <=> OpensIn(M, m))
       /\ W.promoted \subseteq M
  BY <1>4 DEF Good
<1>17. Good(W, M) BY <1>4, <1>8, <1>10, <1>12, <1>13, <1>14, <1>15, <1>16 DEF Good
<1> QED BY <1>1, <1>17, <1>7, <1>4

\* ProcessMethod makes a good table one for the method more, if methods of a
\* class that reuse a slot come before those that hide it.
LEMMA ProcessGood ==
  ASSUME NEW M, NEW N, NEW n, NEW d, NEW B, NEW T,
         Grows(M, N, Method(n, d)), Good(T, M), Good(B, Under(M, n)),
         d.kind = "reuse" => \A p \in M : ~(p.sig = d.sig /\ p.owner = n)
  PROVE  LET W == ProcessMethod(T, B, n, d) IN Good(W, N)
<1> DEFINE m == Method(n, d)
           W == ProcessMethod(T, B, n, d)
           reuses == d.kind = "reuse" /\ d.sig \in DOMAIN B.slots
           opened == d.kind = "reuse" /\ ~reuses
           s == IF reuses THEN [B.slots[d.sig] EXCEPT !.entries = @ \cup {m}, !.impl = m]
                ELSE [entries |-> {m}, first |-> m, impl |-> m]
           U == IF opened THEN [T EXCEPT !.promoted = @ \cup {m}] ELSE T
           V == Under(M, n)
<1>0. Grows(M, N, m) OBVIOUS
<1>1. W = WithSlot(U, d.sig, s) BY DEF ProcessMethod
<1>2. m.owner = n /\ m.sig = d.sig /\ m.kind = d.kind BY DEF Method
<1>3. /\ m \notin M /\ N = M \cup {m} /\ AreMethods(N) /\ AreMethods(M) /\ n \in Nat \ {0}
      /\ \A p \in M : p.owner <= n
      /\ m.kind \in Kinds
  BY <1>2 DEF Grows, AreMethods
<1> HIDE DEF m
<1>4. /\ DOMAIN U = Fields /\ U.slots = T.slots /\ U.impl = T.impl /\ U.replace = T.replace
      /\ U.newSlot = T.newSlot /\ U.pending = T.pending
      /\ U.promoted = IF opened THEN T.promoted \cup {m} ELSE T.promoted
  <2>1. DOMAIN T = Fields BY DEF Good
  <2> QED BY <2>1, FieldsAre
<1>5. AreMethods(V) /\ V \subseteq M BY <1>3, UnderMethods
<1>6. DOMAIN B.slots = {p.sig : p \in V} BY DEF Good
<1>7. OpensIn(N, m) <=> ~reuses
  <2>1. \A p \in N : p.owner < n <=> p \in V BY <1>2, <1>3 DEF Under, AreMethods
  <2>2. OpensIn(N, m) <=> d.kind = "new" \/ \A p \in V : p.sig # d.sig
    BY <1>2, <1>3, <2>1, <1>5 DEF OpensIn
  <2> QED BY <2>2, <1>2, <1>3, <1>6 DEF Kinds
<1>8. \A p \in N : p.sig = d.sig /\ p.owner = n /\ d.kind = "reuse" => p = m
  BY <1>3
<1>9. SlotOK(N, d.sig, s)
  <2>1. CASE reuses
    <3>1. SlotOK(V, d.sig, B.slots[d.sig]) BY <2>1 DEF Good
    <3> DEFINE b == B.slots[d.sig]
    <3>2. /\ DOMAIN s = {"entries", "first", "impl"} /\ s.entries = b.entries \cup {m}
          /\ s.first = b.first /\ s.impl = m
      BY <2>1, <3>1 DEF SlotOK
    <3> HIDE DEF s, b
    <3>3. Current(V, d.sig, s.first) BY <3>1, <3>2 DEF SlotOK, b
    <3>4. SlotIs(N, m, s.first)
      <4>1. Under(N, n) = V BY <1>2, <1>3 DEF Under
      <4> QED BY <4>1, <1>2, <3>3, <1>7, <2>1 DEF SlotIs
    <3>5. Current(N, d.sig, s.first)
      <4>1. s.first \in N /\ s.first.sig = d.sig /\ OpensIn(N, s.first)
        BY <3>4, <1>2, <1>3, SlotFacts
      <4>2. ASSUME NEW p \in N, p.sig = d.sig, OpensIn(N, p)
            PROVE  p \in V /\ OpensIn(V, p)
        <5>1. p # m BY <4>2, <1>7, <2>1
        <5>2. p \in M /\ p.owner < n BY <5>1, <4>2, <1>3, <1>8, <2>1 DEF AreMethods
        <5>3. OpensIn(M, p) BY <4>2, <5>2, GrowOpens, <1>3
        <5> QED BY <5>2, <5>3, <1>3, UnderOpens DEF Under
      <4> QED BY <4>1, <4>2, <3>3 DEF Current
    <3>6. LastIs(N, s.first, s.impl) BY <3>2, <3>4, GrowLastNew, <1>0
    <3>7. s.entries \subseteq N \cup Entries /\ IsFiniteSet(s.entries)
      <4>1. b.entries \subseteq V \cup Entries /\ IsFiniteSet(b.entries) BY <3>1 DEF SlotOK, b
      <4> QED BY <4>1, <3>2, <1>3, <1>5, FS_AddElement
    <3>8. ASSUME NEW p \in N PROVE p \in s.entries <=> SlotIs(N, p, s.first)
      <4>1. CASE p = m BY <4>1, <3>2, <3>4
      <4>2. CASE p \in V
        <5>1. p # m BY <4>2, <1>3, <1>5
        <5>2. p \in s.entries <=> SlotIs(V, p, s.first) BY <5>1, <4>2, <3>1, <3>2 DEF SlotOK, b
        <5>3. p \in M /\ p.owner < n BY <4>2 DEF Under
        <5>4. Under(V, p.owner) = Under(M, p.owner) BY <5>3, <1>3 DEF Under, AreMethods
        <5>5. OpensIn(V, p) <=> OpensIn(M, p)
          <6>1. p.owner <= n BY <5>3, <1>3 DEF AreMethods
          <6> QED BY <6>1, <5>3, <1>3, UnderOpens
        <5>6. SlotIs(V, p, s.first) <=> SlotIs(M, p, s.first) BY <5>4, <5>5 DEF SlotIs
        <5> QED BY <5>2, <5>6, <5>3, GrowSlot
      <4>3. CASE p \in M \ V
        <5>1. p.owner = n BY <4>3, <1>3 DEF Under, AreMethods
        <5>2. p.sig # d.sig BY <5>1, <1>8, <4>3, <1>3, <2>1
        <5>3. p \notin s.entries
          <6>1. b.entries \subseteq V \cup Entries BY <3>1 DEF SlotOK, b
          <6> QED BY <6>1, <3>2, <4>3, <1>3, EntriesApart
        <5>4. ~SlotIs(N, p, s.first) BY <5>2, <1>3, <3>3, SlotFacts DEF Current
        <5> QED BY <5>3, <5>4
      <4> QED BY <4>1, <4>2, <4>3, <1>3
    <3> QED BY <3>2, <3>5, <3>6, <3>7, <3>8 DEF SlotOK
  <2>2. CASE ~reuses
    <3>1. s = [entries |-> {m}, first |-> m, impl |-> m] BY <2>2
    <3> HIDE DEF s
    <3>2. OpensIn(N, m) /\ SlotIs(N, m, m) BY <1>7, <2>2 DEF SlotIs
    <3>3. Current(N, d.sig, m)
      <4>1. ASSUME NEW p \in N, p.sig = d.sig PROVE p.owner < n \/ p = m \/ (p.owner = n /\ m.kind = "new")
        BY <4>1, <1>2, <1>3, <1>8 DEF AreMethods, Kinds
      <4> QED BY <4>1, <3>2, <1>2, <1>3 DEF Current
    <3>4. LastIs(N, m, m) BY <3>2, GrowLastNew, <1>0
    <3>5. ASSUME NEW p \in M PROVE ~SlotIs(N, p, m)
      <4>1. SUFFICES ASSUME SlotIs(N, p, m) PROVE FALSE OBVIOUS
      <4>2. SlotIs(M, p, m) BY <4>1, GrowSlot, <1>3
      <4> QED BY <4>2, <1>3, SlotFacts
    <3>6. IsFiniteSet({m}) BY FS_Singleton
    <3> QED BY <3>1, <3>2, <3>3, <3>4, <3>5, <3>6, <1>3 DEF SlotOK
  <2> QED BY <2>1, <2>2
<1> HIDE DEF s, U, W, V, opened, reuses
<1>10. /\ DOMAIN W = Fields
       /\ W.slots = Put(T.slots, d.sig, s)
       /\ W.impl = [e \in DOMAIN T.impl \cup s.entries |-> IF e \in s.entries THEN s.impl ELSE T.impl[e]]
       /\ W.replace = T.replace /\ W.newSlot = T.newSlot
       /\ W.pending = T.pending /\ W.promoted = U.promoted
  BY <1>1, <1>4, WithSlotIs
<1>11. M \cap Entries = {} /\ N \cap Entries = {} BY <1>3, EntriesApart
<1>12. DOMAIN W.slots = {p.sig : p \in N}
  <2>1. DOMAIN W.slots = DOMAIN T.slots \cup {d.sig} BY <1>10 DEF Put
  <2>2. DOMAIN T.slots = {p.sig : p \in M} BY DEF Good
  <2> QED BY <2>1, <2>2, <1>2, <1>3
<1>13. ASSUME NEW g \in DOMAIN W.slots PROVE SlotOK(N, g, W.slots[g])
  <2>1. CASE g = d.sig BY <2>1, <1>9, <1>10 DEF Put
  <2>2. CASE g # d.sig
    <3>1. g \in DOMAIN T.slots /\ W.slots[g] = T.slots[g] BY <2>2, <1>10, <1>13 DEF Put
    <3> DEFINE t == T.slots[g]
    <3>2. SlotOK(M, g, t) BY <3>1 DEF Good
    <3> HIDE DEF t
    <3>3. Current(N, g, t.first) BY <3>2, <2>2, <1>0, <1>2, GrowCurrent DEF SlotOK
    <3>4. ~SlotIs(N, m, t.first) BY <3>2, <2>2, <1>0, <1>2, GrowSlotNew DEF SlotOK, Current
    <3>5. LastIs(N, t.first, t.impl) BY <3>2, <3>4, <1>0, GrowLast DEF SlotOK
    <3>6. m \notin t.entries BY <3>2, <1>3, <1>11 DEF SlotOK
    <3>7. \A p \in N : p \in t.entries <=> SlotIs(N, p, t.first)
      BY <3>2, <3>4, <3>6, <1>0, <1>3, GrowSlot DEF SlotOK
    <3>8. SlotOK(N, g, t) BY <3>2, <3>3, <3>5, <3>7, <1>3 DEF SlotOK
    <3> QED BY <3>1, <3>8 DEF t
  <2> QED BY <2>1, <2>2
<1>14. /\ DOMAIN W.impl = DOMAIN T.impl \cup s.entries
       /\ \A e \in DOMAIN W.impl : W.impl[e] = IF e \in s.entries THEN s.impl ELSE T.impl[e]
  BY <1>10
<1>15. m \in s.entries /\ s.impl = m /\ s.entries \subseteq N \cup Entries /\ IsFiniteSet(s.entries)
  <2>1. s.entries \subseteq N \cup Entries /\ IsFiniteSet(s.entries) BY <1>9 DEF SlotOK
  <2>2. s.impl = m /\ m \in s.entries
    <3>1. CASE reuses
      <4>1. SlotOK(V, d.sig, B.slots[d.sig]) BY <3>1 DEF Good, V, reuses
      <4> QED BY <3>1, <4>1 DEF s, SlotOK
    <3>2. CASE ~reuses BY <3>2 DEF s
    <3> QED BY <3>1, <3>2
  <2> QED BY <2>1, <2>2
<1>16. /\ N \subseteq DOMAIN W.impl /\ DOMAIN W.impl \subseteq N \cup Entries
       /\ \A e \in DOMAIN W.impl : W.impl[e] \in N \cup {None}
  BY <1>3, <1>14, <1>15 DEF Good
<1>17. IsFiniteSet(DOMAIN W.impl)
  <2>1. IsFiniteSet(DOMAIN T.impl) BY DEF Good
  <2>2. IsFiniteSet(DOMAIN T.impl \cup s.entries) BY <2>1, <1>15, FS_Union
  <2> QED BY <2>2, <1>14
<1>18. ASSUME NEW p \in N, NEW o \in N, SlotIs(N, p, o) PROVE LastIs(N, o, W.impl[p])
  <2>1. p \in DOMAIN W.impl BY <1>16
  <2>2. CASE p \in s.entries
    <3>1. SlotIs(N, p, s.first) /\ LastIs(N, s.first, s.impl) BY <2>2, <1>9 DEF SlotOK
    <3>2. o = s.first BY <3>1, <1>3, <1>18, SlotOnce
    <3> QED BY <3>1, <3>2, <2>1, <2>2, <1>14
  <2>3. CASE p \notin s.entries
    <3>1. p \in M /\ W.impl[p] = T.impl[p] BY <2>1, <2>3, <1>3, <1>14, <1>15
    <3>2. SlotIs(M, p, o) BY <3>1, <1>0, <1>18, GrowSlot
    <3>3. o \in M BY <3>1, <3>2, <1>3, SlotFacts
    <3>4. LastIs(M, o, T.impl[p]) BY <3>1, <3>2, <3>3 DEF Good
    <3>5. ~SlotIs(N, m, o)
      <4>1. SUFFICES ASSUME SlotIs(N, m, o) PROVE FALSE OBVIOUS
      <4>2. SlotIs(N, m, s.first) BY <1>3, <1>9, <1>15 DEF SlotOK
      <4>3. o = s.first BY <4>1, <4>2, <1>3, SlotOnce
      <4> QED BY <4>3, <2>3, <1>9, <1>18 DEF SlotOK
    <3> QED BY <3>1, <3>4, <3>5, <1>0, GrowLast
  <2> QED BY <2>2, <2>3
<1>19. \A p \in DOMAIN W.newSlot : p \in N /\ ~OpensIn(N, p) /\ SlotIs(N, p, W.newSlot[p])
  BY <1>0, <1>3, <1>10, GrowOpens, GrowSlot DEF Good
<1>20. /\ \A p \in N : p.kind = "reuse" => (p \in W.promoted <=> OpensIn(N, p))
       /\ W.promoted \subseteq N
  <2>1. \A p \in M : OpensIn(N, p) <=> OpensIn(M, p) BY <1>0, GrowOpens
  <2>2. W.promoted = IF opened THEN T.promoted \cup {m} ELSE T.promoted BY <1>4, <1>10
  <2>3. T.promoted \subseteq M /\ \A p \in M : p.kind = "reuse" => (p \in T.promoted <=> OpensIn(M, p))
    BY DEF Good
  <2>4. m.kind = "reuse" => (m \in W.promoted <=> OpensIn(N, m))
    BY <1>2, <1>3, <1>7, <2>2, <2>3 DEF opened
  <2> QED BY <2>1, <2>2, <2>3, <2>4, <1>3
<1>21. /\ DOMAIN W.replace = {}
       /\ \A g \in DOMAIN W.pending : W.pending[g] \subseteq Entries /\ IsFiniteSet(W.pending[g])
  BY <1>10 DEF Good
<1>22. Good(W, N) BY <1>10, <1>12, <1>13, <1>16, <1>17, <1>18, <1>19, <1>20, <1>21 DEF Good
<1> QED BY <1>22 DEF W

\* Good says nothing of pending interfaces but what they are.
LEMMA SameGood ==
  ASSUME NEW M, NEW T, Good(T, M), NEW W, DOMAIN W = Fields,
         W.slots = T.slots, W.impl = T.impl, W.replace = T.replace,
         W.newSlot = T.newSlot, W.promoted = T.promoted,
         \A g \in DOMAIN W.pending : W.pending[g] \subseteq Entries /\ IsFiniteSet(W.pending[g])
  PROVE  Good(W, M)
BY DEF Good

\* The opener never leaves its slot, so no slot becomes empty.
LEMMA FirstIn ==
  ASSUME NEW M, NEW g, NEW s, SlotOK(M, g, s)
  PROVE  s.first \in M /\ s.first \in s.entries
<1>1. s.first \in M /\ SlotIs(M, s.first, s.first) BY DEF SlotOK, Current, SlotIs
<1> QED BY <1>1 DEF SlotOK

\* Removing an interface entry keeps all the methods.
LEMMA RemoveGood ==
  ASSUME NEW M, AreMethods(M), NEW T, Good(T, M), NEW x \in Entries
  PROVE  LET W == RemoveSlotEntry(T, x) IN Good(W, M) /\ DOMAIN W.slots = DOMAIN T.slots
<1> DEFINE W == RemoveSlotEntry(T, x)
           cut(s) == [s EXCEPT !.entries = @ \ {x}]
           slots == [g \in {g \in DOMAIN T.slots : cut(T.slots[g]).entries # {}} |-> cut(T.slots[g])]
           pending == [g \in {g \in DOMAIN T.pending : T.pending[g] # {x}} |-> T.pending[g] \ {x}]
<1>1. DOMAIN T = Fields BY DEF Good
<1>2. W = [T EXCEPT !.slots = slots, !.pending = pending]
  BY <1>1, FieldsAre DEF RemoveSlotEntry
<1>3. x \notin M BY EntriesApart
<1>4. ASSUME NEW g \in DOMAIN T.slots
      PROVE  SlotOK(M, g, cut(T.slots[g])) /\ cut(T.slots[g]).entries # {}
  <2> DEFINE s == T.slots[g]
             c == cut(s)
  <2>1. SlotOK(M, g, s) BY <1>4 DEF Good
  <2>2. DOMAIN c = DOMAIN s /\ c.entries = s.entries \ {x} /\ c.first = s.first /\ c.impl = s.impl
    BY <2>1 DEF SlotOK
  <2> HIDE DEF c, s
  <2>3. s.first \in c.entries BY <2>1, <2>2, <1>3, FirstIn
  <2>4. IsFiniteSet(c.entries) BY <2>1, <2>2, FS_Subset DEF SlotOK
  <2>5. SlotOK(M, g, c) BY <2>1, <2>2, <2>4, <1>3 DEF SlotOK
  <2> QED BY <2>3, <2>5 DEF c, s
<1> HIDE DEF cut
<1>5. DOMAIN slots = DOMAIN T.slots /\ \A g \in DOMAIN slots : SlotOK(M, g, slots[g])
  BY <1>4
<1>6. \A g \in DOMAIN pending : pending[g] \subseteq Entries /\ IsFiniteSet(pending[g])
  BY FS_Subset DEF Good
<1> HIDE DEF slots, pending
<1>7. /\ DOMAIN W = Fields /\ W.slots = slots /\ W.pending = pending /\ W.impl = T.impl
      /\ W.replace = T.replace /\ W.newSlot = T.newSlot /\ W.promoted = T.promoted
  BY <1>1, <1>2, FieldsAre
<1> HIDE DEF W
<1>8. Good(W, M) BY <1>5, <1>6, <1>7 DEF Good
<1> QED BY <1>5, <1>7, <1>8 DEF W

\* The loops that bind interfaces keep a table good: an explicit override of an
\* entry, a pending binding, and an inherited one.
LEMMA OverrideGood ==
  ASSUME NEW M, AreMethods(M), NEW T, Good(T, M), NEW n, NEW d, d.sig \in DOMAIN T.slots, NEW x \in Entries
  PROVE  LET W == Override(T, n, d, x) IN Good(W, M) /\ DOMAIN W.slots = DOMAIN T.slots
<1> DEFINE U == [T EXCEPT !.targets = @ \cup {x}]
           V == RemoveSlotEntry(U, x)
<1>1. DOMAIN T = Fields BY DEF Good
<1>2. /\ DOMAIN U = Fields /\ U.slots = T.slots /\ U.impl = T.impl /\ U.replace = T.replace
      /\ U.newSlot = T.newSlot /\ U.promoted = T.promoted /\ U.pending = T.pending
  BY <1>1, FieldsAre
<1> HIDE DEF U
<1>3. Good(U, M)
  <2>1. \A g \in DOMAIN U.pending : U.pending[g] \subseteq Entries /\ IsFiniteSet(U.pending[g])
    BY <1>2 DEF Good
  <2> QED BY <1>2, <2>1, SameGood
<1>4. Good(V, M) /\ DOMAIN V.slots = DOMAIN T.slots BY <1>2, <1>3, RemoveGood
<1> HIDE DEF V
<1>5. x.owner \in DOMAIN InterfaceSlots BY DeclarationAssumption
<1>6. Override(T, n, d, x) = AddEntries(V, d.sig, {x}) BY <1>5 DEF Override, U, V
<1>7. IsFiniteSet({x}) /\ {x} \subseteq Entries BY FS_Singleton
<1>8. Good(AddEntries(V, d.sig, {x}), M) /\ DOMAIN AddEntries(V, d.sig, {x}).slots = DOMAIN V.slots
  BY <1>4, <1>7, AddEntriesGood
<1> QED BY <1>4, <1>6, <1>8

LEMMA BindPendingGood ==
  ASSUME NEW M, AreMethods(M), NEW T, Good(T, M), NEW g \in DOMAIN T.slots, g \in DOMAIN T.pending
  PROVE  LET W == [AddEntries(T, g, T.pending[g]) EXCEPT !.pending = Without(@, {g})]
         IN  /\ Good(W, M) /\ DOMAIN W.slots = DOMAIN T.slots
             /\ DOMAIN W.pending = DOMAIN T.pending \ {g}
<1> DEFINE V == AddEntries(T, g, T.pending[g])
           W == [V EXCEPT !.pending = Without(@, {g})]
<1>1. T.pending[g] \subseteq Entries /\ IsFiniteSet(T.pending[g]) BY DEF Good
<1>2. Good(V, M) /\ DOMAIN V.slots = DOMAIN T.slots /\ V.pending = T.pending BY <1>1, AddEntriesGood
<1> HIDE DEF V
<1>3. DOMAIN V = Fields BY <1>2 DEF Good
<1>4. /\ DOMAIN W = Fields /\ W.slots = V.slots /\ W.impl = V.impl /\ W.replace = V.replace
      /\ W.newSlot = V.newSlot /\ W.promoted = V.promoted /\ W.pending = Without(V.pending, {g})
  BY <1>3, FieldsAre
<1> HIDE DEF W
<1>5. \A h \in DOMAIN W.pending : W.pending[h] \subseteq Entries /\ IsFiniteSet(W.pending[h])
  BY <1>2, <1>4 DEF Good, Without
<1>6. Good(W, M) BY <1>2, <1>4, <1>5, SameGood
<1> QED BY <1>2, <1>4, <1>6 DEF W, V, Without

LEMMA BindInheritedGood ==
  ASSUME NEW M, AreMethods(M), NEW T, Good(T, M), NEW g, NEW E, E \subseteq Entries, IsFiniteSet(E),
         E \cap DOMAIN T.impl = {}
  PROVE  Good(BindInherited(T, g, E), M)
<1>1. DOMAIN T = Fields BY DEF Good
<1>2. CASE E = {} BY <1>2 DEF BindInherited
<1>3. CASE E # {} /\ g \in DOMAIN T.slots BY <1>3, AddEntriesGood DEF BindInherited
<1>4. CASE E # {} /\ g \notin DOMAIN T.slots /\ Class.abstract
  <2> DEFINE more == E \cup (IF g \in DOMAIN T.pending THEN T.pending[g] ELSE {})
             W == [T EXCEPT !.pending = Put(@, g, more)]
  <2>1. more \subseteq Entries /\ IsFiniteSet(more)
    <3>1. CASE g \in DOMAIN T.pending
      <4>1. T.pending[g] \subseteq Entries /\ IsFiniteSet(T.pending[g]) BY <3>1 DEF Good
      <4> QED BY <3>1, <4>1, FS_Union
    <3>2. CASE g \notin DOMAIN T.pending BY <3>2
    <3> QED BY <3>1, <3>2
  <2>2. [T EXCEPT !.pending = Put(@, g, E \cup (IF g \in DOMAIN @ THEN @[g] ELSE {}))] = W
    BY <1>1, FieldsAre
  <2> HIDE DEF more
  <2>3. /\ DOMAIN W = Fields /\ W.slots = T.slots /\ W.impl = T.impl /\ W.replace = T.replace
        /\ W.newSlot = T.newSlot /\ W.promoted = T.promoted /\ W.pending = Put(T.pending, g, more)
    BY <1>1, FieldsAre
  <2> HIDE DEF W
  <2>4. \A h \in DOMAIN W.pending : W.pending[h] \subseteq Entries /\ IsFiniteSet(W.pending[h])
    BY <2>1, <2>3 DEF Good, Put
  <2>5. Good(W, M) BY <2>3, <2>4, SameGood
  <2> QED BY <1>4, <2>2, <2>5 DEF BindInherited
<1>5. CASE E # {} /\ g \notin DOMAIN T.slots /\ ~Class.abstract
  <2> DEFINE W == [T EXCEPT !.impl = [e \in DOMAIN @ \cup E |-> IF e \in E THEN None ELSE @[e]]]
  <2>1. /\ DOMAIN W = Fields /\ W.slots = T.slots /\ W.pending = T.pending /\ W.replace = T.replace
        /\ W.newSlot = T.newSlot /\ W.promoted = T.promoted
        /\ W.impl = [e \in DOMAIN T.impl \cup E |-> IF e \in E THEN None ELSE T.impl[e]]
    BY <1>1, FieldsAre
  <2> HIDE DEF W
  <2>2. DOMAIN W.impl = DOMAIN T.impl \cup E /\ \A e \in DOMAIN W.impl : W.impl[e] = IF e \in E THEN None ELSE T.impl[e]
    BY <2>1
  <2>3. IsFiniteSet(DOMAIN W.impl)
    <3>1. IsFiniteSet(DOMAIN T.impl) BY DEF Good
    <3>2. IsFiniteSet(DOMAIN T.impl \cup E) BY <3>1, FS_Union
    <3> QED BY <3>2, <2>2
  <2>4. M \cap E = {} BY EntriesApart
  <2>5. \A m \in M : W.impl[m] = T.impl[m] BY <2>2, <2>4 DEF Good
  <2>6. Good(W, M) BY <2>1, <2>2, <2>3, <2>5 DEF Good
  <2> QED BY <1>5, <2>6 DEF W, BindInherited
<1> QED BY <1>2, <1>3, <1>4, <1>5

\* ExpandNewSlots redirects methods that reuse a slot, to its opener.
LEMMA ExpandGood ==
  ASSUME NEW M, AreMethods(M), NEW T, Good(T, M)
  PROVE  Good(ExpandNewSlots(T), M)
<1> DEFINE reusing(s) == {e \in T.slots[s].entries : ReusesSlot(T, e) /\ e # T.slots[s].first}
           all == UNION {reusing(s) : s \in DOMAIN T.slots}
           of(e) == T.slots[CHOOSE s \in DOMAIN T.slots : e \in reusing(s)].first
           W == ExpandNewSlots(T)
<1>1. DOMAIN T = Fields BY DEF Good
<1>2. W = [T EXCEPT !.newSlot = [e \in DOMAIN @ \cup all |-> IF e \in all THEN of(e) ELSE @[e]]]
  BY DEF ExpandNewSlots
<1>3. ASSUME NEW e \in all PROVE e \in M /\ ~OpensIn(M, e) /\ SlotIs(M, e, of(e))
  <2> DEFINE s == CHOOSE s \in DOMAIN T.slots : e \in reusing(s)
  <2>1. s \in DOMAIN T.slots /\ e \in reusing(s) BY <1>3
  <2>2. e \in T.slots[s].entries /\ ReusesSlot(T, e) /\ of(e) = T.slots[s].first BY <2>1
  <2> HIDE DEF s, of
  <2>3. SlotOK(M, s, T.slots[s]) BY <2>1 DEF Good
  <2>4. e.kind = "reuse" /\ e \notin T.promoted BY <2>2 DEF ReusesSlot
  <2>5. e \in M BY <2>2, <2>3, <2>4, DeclarationAssumption DEF SlotOK
  <2> QED BY <2>2, <2>3, <2>4, <2>5 DEF Good, SlotOK
<1> HIDE DEF all, of
<1>4. /\ DOMAIN W = Fields /\ W.slots = T.slots /\ W.pending = T.pending /\ W.replace = T.replace
      /\ W.impl = T.impl /\ W.promoted = T.promoted
      /\ W.newSlot = [e \in DOMAIN T.newSlot \cup all |-> IF e \in all THEN of(e) ELSE T.newSlot[e]]
  BY <1>1, <1>2, FieldsAre
<1> HIDE DEF W
<1>5. \A m \in DOMAIN W.newSlot : m \in M /\ ~OpensIn(M, m) /\ SlotIs(M, m, W.newSlot[m])
  BY <1>3, <1>4 DEF Good
<1>6. Good(W, M) BY <1>4, <1>5 DEF Good
<1> QED BY <1>6 DEF W

\* Sets of numbers have a least element, and a greatest if they are bounded.
LEMMA Least ==
  ASSUME NEW S, S \subseteq Nat, S # {}
  PROVE  \E n \in S : \A m \in S : n <= m
<1> DEFINE R == OpToRel(<, Nat)
<1>1. \A m, n \in Nat : m < n => <<m, n>> \in R
  BY DEF OpToRel
<1>2. \E n \in S : \A m \in S : ~(<<m, n>> \in R)
  <2>1. IsWellFoundedOn(R, Nat)
    BY NatLessThanWellFounded
  <2>. HIDE DEF R
  <2>. QED BY <2>1, WFMin
<1>. HIDE DEF R
<1>3. PICK n \in S : \A m \in S : ~(<<m, n>> \in R)
  BY <1>2
<1>4. ASSUME NEW m \in S PROVE n <= m
  <2>1. m \in Nat /\ n \in Nat BY <1>3
  <2>2. ~(m < n) BY <1>1, <1>3, <2>1
  <2> QED BY <2>1, <2>2
<1> QED BY <1>4

LEMMA Greatest ==
  ASSUME NEW S, S \subseteq Nat, S # {}, NEW b \in Nat, \A n \in S : n <= b
  PROVE  \E n \in S : \A m \in S : m <= n
<1> DEFINE Q == {b - n : n \in S}
<1>1. Q \subseteq Nat /\ Q # {}
  <2>1. \A n \in S : n \in Nat /\ b - n \in Nat OBVIOUS
  <2> QED BY <2>1
<1>2. PICK q \in Q : \A r \in Q : q <= r BY <1>1, Least
<1>3. PICK n \in S : q = b - n BY <1>2
<1>4. ASSUME NEW m \in S PROVE m <= n
  <2>1. b - n <= b - m BY <1>2, <1>3
  <2> QED BY <2>1
<1> QED BY <1>4

\* A signature that is declared has a current opener; a method has a slot.
LEMMA SomeCurrent ==
  ASSUME NEW M, AreMethods(M), NEW p \in M, NEW b \in Nat, \A m \in M : m.owner <= b
  PROVE  \E o : Current(M, p.sig, o)
<1> DEFINE owners(P) == {m.owner : m \in P}
           Same == {m \in M : m.sig = p.sig}
           Openers == {m \in Same : OpensIn(M, m)}
<1>1. owners(Same) \subseteq Nat /\ owners(Same) # {} BY DEF AreMethods
<1>2. PICK l \in owners(Same) : \A k \in owners(Same) : l <= k BY <1>1, Least
<1>3. PICK q \in Same : q.owner = l BY <1>2
<1>4. q \in Openers BY <1>2, <1>3, <1>1 DEF OpensIn, AreMethods
<1>5. owners(Openers) \subseteq Nat /\ owners(Openers) # {} /\ \A k \in owners(Openers) : k <= b
  BY <1>4 DEF AreMethods
<1>6. PICK h \in owners(Openers) : \A k \in owners(Openers) : k <= h
  <2> HIDE DEF owners, Openers
  <2> QED BY <1>5, Greatest
<1> DEFINE Top_ == {m \in Openers : m.owner = h}
<1>7. PICK o \in Top_ : o.kind = "new" \/ \A m \in Top_ : m.kind # "new"
  BY <1>6
<1>8. \A m \in Top_ : m.kind = o.kind => m = o
  BY DEF AreMethods
<1>9. Current(M, p.sig, o)
  <2>1. \A m \in Openers : m.owner <= h BY <1>6
  <2>2. ASSUME NEW m \in M, m.sig = p.sig, OpensIn(M, m)
        PROVE  m.owner < o.owner \/ m = o \/ (m.owner = o.owner /\ o.kind = "new")
    <3>1. m \in Openers /\ m.owner <= h /\ m.owner \in Nat /\ h \in Nat /\ o.owner = h
      BY <2>1, <2>2, <1>5, <1>6, <1>7 DEF AreMethods
    <3>2. CASE m.owner < h BY <3>1, <3>2
    <3>3. CASE m.owner = h
      <4>1. m \in Top_ BY <3>1, <3>3
      <4>2. m.kind \in Kinds /\ o.kind \in Kinds BY <1>7 DEF AreMethods
      <4> QED BY <4>1, <4>2, <3>1, <3>3, <1>7, <1>8 DEF Kinds
    <3> QED BY <3>1, <3>2, <3>3
  <2> QED BY <2>2, <1>7 DEF Current
<1> QED BY <1>9

LEMMA SomeSlot ==
  ASSUME NEW M, AreMethods(M), NEW m \in M
  PROVE  \E o \in M : SlotIs(M, m, o)
<1>1. CASE OpensIn(M, m) BY <1>1 DEF SlotIs
<1>2. CASE ~OpensIn(M, m)
  <2>1. PICK p \in M : p.sig = m.sig /\ p.owner < m.owner BY <1>2 DEF OpensIn
  <2> DEFINE U == Under(M, m.owner)
  <2>2. AreMethods(U) /\ U \subseteq M /\ p \in U BY <2>1, UnderMethods DEF Under
  <2>3. m.owner \in Nat /\ \A q \in U : q.owner <= m.owner BY DEF AreMethods, Under
  <2> HIDE DEF U
  <2>4. PICK o : Current(U, m.sig, o) BY <2>1, <2>2, <2>3, SomeCurrent
  <2> QED BY <1>2, <2>2, <2>4 DEF SlotIs, Current, U
<1> QED BY <1>1, <1>2

-----------------------------------------------------------------------------
\* A query that is answered in one turn or two gives that answer.
LEMMA QueryTwo ==
  ASSUME NEW T, NEW e \in DOMAIN T.impl, IsFiniteSet(DOMAIN T.impl),
         Turn(T, e).done \/ Turn(T, Turn(T, e).at).done
  PROVE  Query(T, e) = IF Turn(T, e).done THEN Turn(T, e) ELSE Turn(T, Turn(T, e).at)
<1> DEFINE limit == Cardinality(DOMAIN T.impl) + 1
           one == Turn(T, e)
           two == Turn(T, one.at)
           end == IF one.done THEN one ELSE two
           zero == [done |-> FALSE, at |-> e]
           is(f) == f = [k \in 0..limit |->
                           IF k = 0 THEN zero ELSE IF f[k - 1].done THEN f[k - 1] ELSE Turn(T, f[k - 1].at)]
           g == [k \in 0..limit |-> IF k = 0 THEN zero ELSE IF k = 1 THEN one ELSE end]
           run == CHOOSE f : is(f)
<1>1. limit \in Nat /\ limit >= 2
  <2>1. Cardinality(DOMAIN T.impl) \in Nat /\ Cardinality(DOMAIN T.impl) # 0
    BY FS_CardinalityType, FS_EmptySet
  <2> QED BY <2>1
<1>2. end.done OBVIOUS
<1>3. ~zero.done /\ zero.at = e OBVIOUS
<1> HIDE DEF one, end, zero
<1>4. is(g)
  <2>1. ASSUME NEW k \in 0..limit
        PROVE  g[k] = IF k = 0 THEN zero ELSE IF g[k - 1].done THEN g[k - 1] ELSE Turn(T, g[k - 1].at)
    <3>1. CASE k = 0 BY <3>1
    <3>2. CASE k = 1
      <4>1. g[k - 1] = zero /\ g[k] = one BY <3>2, <1>1
      <4> QED BY <4>1, <3>2, <1>3 DEF one
    <3>3. CASE k = 2
      <4>1. g[k - 1] = one /\ g[k] = end BY <3>3, <1>1
      <4> QED BY <4>1, <3>3 DEF end
    <3>4. CASE k > 2
      <4>1. k - 1 \in 0..limit /\ k - 1 # 0 /\ k - 1 # 1 BY <3>4, <1>1
      <4>2. g[k - 1] = end /\ g[k] = end BY <4>1, <3>4, <1>1
      <4> QED BY <4>2, <3>4, <1>2
    <3> QED BY <3>1, <3>2, <3>3, <3>4, <1>1
  <2> DEFINE h == [k \in 0..limit |-> IF k = 0 THEN zero ELSE IF g[k - 1].done THEN g[k - 1] ELSE Turn(T, g[k - 1].at)]
  <2>2. \A k \in 0..limit : g[k] = h[k] BY <2>1
  <2>3. g = h
    <3>1. g = [k \in 0..limit |-> g[k]] OBVIOUS
    <3>2. h = [k \in 0..limit |-> h[k]] OBVIOUS
    <3> HIDE DEF g, h
    <3> QED BY <2>2, <3>1, <3>2
  <2> QED BY <2>3
<1> HIDE DEF g, limit
<1>5. is(run) BY <1>4
<1>6. Query(T, e) = run[limit] BY DEF Query, limit, zero
<1> HIDE DEF run
<1>7. \A k \in 0..limit : run[k] = IF k = 0 THEN zero ELSE IF run[k - 1].done THEN run[k - 1] ELSE Turn(T, run[k - 1].at)
  BY <1>5
<1> HIDE DEF is
<1>8. run[0] = zero BY <1>7, <1>1
<1>9. run[1] = one
  <2>1. 1 \in 0..limit /\ 1 - 1 = 0 BY <1>1
  <2>2. run[1] = IF run[0].done THEN run[0] ELSE Turn(T, run[0].at) BY <2>1, <1>7
  <2> QED BY <2>2, <1>8, <1>3 DEF one
<1>10. run[2] = end
  <2>1. 2 \in 0..limit /\ 2 - 1 = 1 BY <1>1
  <2>2. run[2] = IF run[1].done THEN run[1] ELSE Turn(T, run[1].at) BY <2>1, <1>7
  <2> QED BY <2>2, <1>9 DEF end
<1> DEFINE Bad == {k \in 2..limit : run[k] # end}
<1>11. Bad = {}
  <2>1. SUFFICES ASSUME Bad # {} PROVE FALSE OBVIOUS
  <2>2. PICK k \in Bad : \A j \in Bad : k <= j
    <3>1. Bad \subseteq Nat BY <1>1
    <3> HIDE DEF Bad
    <3> QED BY <2>1, <3>1, Least
  <2>3. k \in 0..limit /\ k > 2 /\ k - 1 \in 2..limit BY <2>2, <1>10, <1>1
  <2>4. run[k - 1] = end BY <2>2, <2>3, <1>1
  <2>5. run[k] = end BY <2>3, <2>4, <1>7, <1>2
  <2> QED BY <2>2, <2>5
<1>12. run[limit] = end BY <1>11, <1>1
<1> QED BY <1>6, <1>12 DEF end, one

LEMMA TurnIs ==
  ASSUME NEW T, NEW e, DOMAIN T.replace = {},
         NEW o, o = IF e \in DOMAIN T.newSlot THEN T.newSlot[e] ELSE e, o \in DOMAIN T.impl,
         NEW x, x = T.impl[o]
  PROVE  Turn(T, e) = IF x \in DOMAIN T.newSlot /\ o # T.newSlot[x]
                      THEN [done |-> FALSE, at |-> T.newSlot[x]] ELSE [done |-> TRUE, at |-> x]
BY DEF Turn, Opener

\* The opener of a slot is not redirected, and its query ends with its first turn.
LEMMA TurnOpener ==
  ASSUME NEW M, AreMethods(M), NEW T, Good(T, M), NEW o \in M, SlotIs(M, o, o)
  PROVE  /\ Turn(T, o) = [done |-> TRUE, at |-> T.impl[o]]
         /\ o \notin DOMAIN T.newSlot
         /\ T.impl[o] \in DOMAIN T.newSlot => T.newSlot[T.impl[o]] = o
<1>1. OpensIn(M, o) BY SlotFacts
<1>2. o \notin DOMAIN T.newSlot BY <1>1 DEF Good
<1>3. o \in DOMAIN T.impl /\ DOMAIN T.replace = {} BY DEF Good
<1> DEFINE x == T.impl[o]
<1>4. SlotIs(M, x, o) BY DEF Good, LastIs
<1>5. x \in DOMAIN T.newSlot => T.newSlot[x] = o BY <1>4, SlotOnce DEF Good
<1> QED BY <1>2, <1>3, <1>5, TurnIs

\* Every query of a good table ends; that of a method is answered with what the
\* entry map says of the opener of its slot.
LEMMA QueryGood ==
  ASSUME NEW M, AreMethods(M), NEW T, Good(T, M)
  PROVE  /\ \A e \in DOMAIN T.impl : Query(T, e).done
         /\ \A m \in M, o \in M : SlotIs(M, m, o) => Query(T, m) = [done |-> TRUE, at |-> T.impl[o]]
<1>1. ASSUME NEW o \in M, SlotIs(M, o, o)
      PROVE  Turn(T, o) = [done |-> TRUE, at |-> T.impl[o]]
  BY <1>1, TurnOpener
<1>2. ASSUME NEW m \in M, NEW o \in M, SlotIs(M, m, o)
      PROVE  Query(T, m) = [done |-> TRUE, at |-> T.impl[o]] /\ Query(T, m).done
  <2>1. SlotIs(M, o, o) /\ OpensIn(M, o) BY <1>2, SlotFacts, OwnSlot
  <2>2. m \in DOMAIN T.impl /\ o \in DOMAIN T.impl /\ DOMAIN T.replace = {} /\ IsFiniteSet(DOMAIN T.impl) BY DEF Good
  <2> DEFINE end == [done |-> TRUE, at |-> T.impl[o]]
  <2>3. CASE m \in DOMAIN T.newSlot
    <3>1. T.newSlot[m] = o BY <2>3, <1>2, SlotOnce DEF Good
    <3>2. Turn(T, m) = end BY <3>1, <2>1, <2>2, <2>3, TurnOpener, TurnIs
    <3> QED BY <3>2, <2>2, QueryTwo
  <2>4. CASE m \notin DOMAIN T.newSlot
    <3> DEFINE x == T.impl[m]
    <3>1. LastIs(M, o, x) /\ LastIs(M, o, T.impl[o]) BY <1>2, <2>1 DEF Good
    <3>2. x = T.impl[o]
      <4>1. x \in M /\ SlotIs(M, x, o) /\ T.impl[o] \in M /\ SlotIs(M, T.impl[o], o) /\ x.owner = T.impl[o].owner
        BY <3>1 DEF LastIs, AreMethods
      <4> QED BY <4>1, SlotFacts DEF AreMethods, Kinds, OpensIn
    <3>3. CASE x \in DOMAIN T.newSlot /\ m # T.newSlot[x]
      <4>1. T.newSlot[x] = o BY <3>1, <3>3, SlotOnce DEF Good, LastIs
      <4>2. Turn(T, m) = [done |-> FALSE, at |-> o] BY <4>1, <2>2, <2>4, <3>3, TurnIs
      <4>3. Turn(T, o) = end BY <2>1, <1>1
      <4> QED BY <4>2, <4>3, <2>2, QueryTwo
    <3>4. CASE ~(x \in DOMAIN T.newSlot /\ m # T.newSlot[x])
      <4>1. Turn(T, m) = end BY <3>2, <3>4, <2>2, <2>4, TurnIs
      <4> QED BY <4>1, <2>2, QueryTwo
    <3> QED BY <3>3, <3>4
  <2> QED BY <2>3, <2>4
<1>3. ASSUME NEW e \in DOMAIN T.impl PROVE Query(T, e).done
  <2>1. CASE e \in M
    <3>1. PICK o \in M : SlotIs(M, e, o) BY <2>1, SomeSlot
    <3> QED BY <3>1, <2>1, <1>2
  <2>2. CASE e \notin M
    <3>1. e \notin DOMAIN T.newSlot /\ DOMAIN T.replace = {} /\ IsFiniteSet(DOMAIN T.impl) BY <2>2 DEF Good
    <3> DEFINE x == T.impl[e]
    <3>2. CASE x \in DOMAIN T.newSlot /\ e # T.newSlot[x]
      <4>1. x \in M BY <3>2 DEF Good
      <4> DEFINE o == T.newSlot[x]
      <4>2. SlotIs(M, x, o) BY <3>2 DEF Good
      <4>3. o \in M /\ SlotIs(M, o, o) BY <4>1, <4>2, SlotFacts, OwnSlot
      <4>4. Turn(T, e) = [done |-> FALSE, at |-> o] BY <3>1, <3>2, TurnIs
      <4>5. Turn(T, o) = [done |-> TRUE, at |-> T.impl[o]] BY <4>3, <1>1
      <4> QED BY <4>4, <4>5, <3>1, QueryTwo
    <3>3. CASE ~(x \in DOMAIN T.newSlot /\ e # T.newSlot[x])
      <4>1. Turn(T, e) = [done |-> TRUE, at |-> x] BY <3>1, <3>3, TurnIs
      <4> QED BY <4>1, <3>1, QueryTwo
    <3> QED BY <3>2, <3>3
  <2> QED BY <2>1, <2>2
<1> QED BY <1>2, <1>3

\* The methods that are in the table: all but those the first loop has left.
Known == {m \in Methods : ~(step = "methods" /\ \E k \in left : m = Method(Len(classes), Class.methods[k]))}

Chain == classes \in Seq(Declarations)

\* Between classes the table of the last one is good for all methods; while a
\* class is resolved its base's is good for those below, and the one in the
\* making for the methods processed so far. A method left that reuses a slot
\* shares its signature with none that is processed.
TableInv ==
  /\ Chain /\ tables \in Seq(Range(tables))
  /\ step \in {"idle", "methods", "pending", "interfaces", "overrides"}
  /\ refused => step = "idle"
  /\ step = "idle" /\ ~refused => Len(tables) = Len(classes) /\ Good(Base, Methods)
  /\ step # "idle" =>
       /\ Len(classes) = Len(tables) + 1
       /\ Good(Base, Under(Methods, Len(classes)))
       /\ Good(table, Known)
  /\ step = "methods" =>
       /\ left \subseteq DOMAIN Class.methods
       /\ \A k \in left : Class.methods[k].kind = "reuse" =>
            \A j \in DOMAIN Class.methods \ left : Class.methods[j].sig # Class.methods[k].sig
  /\ step = "pending" => left \subseteq DOMAIN table.slots \cap DOMAIN table.pending

LEMMA MethodIs ==
  ASSUME NEW n, NEW d
  PROVE  Method(n, d).owner = n /\ Method(n, d).sig = d.sig /\ Method(n, d).kind = d.kind
BY DEF Method

\* Methods belong to one class, and are its declarations with their owner.
LEMMA MethodFacts ==
  ASSUME Chain, NEW m \in Methods
  PROVE  /\ m.owner \in DOMAIN classes /\ m \in MethodsOf(m.owner)
         /\ m.owner \in Nat \ {0} /\ m.owner <= Len(classes)
         /\ \E k \in DOMAIN classes[m.owner].methods : m = Method(m.owner, classes[m.owner].methods[k])
<1>1. PICK n \in DOMAIN classes : m \in MethodsOf(n) BY DEF Methods
<1>2. PICK d \in Range(classes[n].methods) : m = Method(n, d) BY <1>1 DEF MethodsOf
<1>3. m.owner = n BY <1>2, MethodIs
<1>4. n \in Nat \ {0} /\ n <= Len(classes) BY <1>1 DEF Chain
<1> QED BY <1>1, <1>2, <1>3, <1>4 DEF Range

LEMMA ClassFacts ==
  ASSUME Chain, NEW n \in DOMAIN classes
  PROVE  /\ classes[n] \in Declarations
         /\ \A k \in DOMAIN classes[n].methods : Method(n, classes[n].methods[k]) \in Methods
         /\ \A k, l \in DOMAIN classes[n].methods :
              Method(n, classes[n].methods[k]) = Method(n, classes[n].methods[l]) => k = l
         /\ \A k \in DOMAIN classes[n].methods : classes[n].methods[k].kind \in Kinds
<1>1. classes[n] \in Declarations BY DEF Chain
<1>2. \A k \in DOMAIN classes[n].methods : Method(n, classes[n].methods[k]) \in Methods
  BY DEF Methods, MethodsOf, Range
<1>3. \A k, l \in DOMAIN classes[n].methods :
        /\ classes[n].methods[k].kind \in Kinds
        /\ classes[n].methods[k].sig = classes[n].methods[l].sig /\ classes[n].methods[k].kind = classes[n].methods[l].kind => k = l
  BY <1>1, DeclarationAssumption DEF Kinds
<1> QED BY <1>1, <1>2, <1>3, MethodIs

LEMMA MethodsAre == ASSUME Chain PROVE AreMethods(Methods)
<1>1. ASSUME NEW m \in Methods
      PROVE  /\ m = [owner |-> m.owner, sig |-> m.sig, kind |-> m.kind]
             /\ m.owner \in Nat \ {0} /\ m.kind \in Kinds
  <2>1. PICK k \in DOMAIN classes[m.owner].methods : m = Method(m.owner, classes[m.owner].methods[k])
    BY MethodFacts
  <2>2. m.kind = classes[m.owner].methods[k].kind BY <2>1, MethodIs
  <2>3. m = [owner |-> m.owner, sig |-> m.sig, kind |-> m.kind] BY <2>1 DEF Method
  <2> QED BY <2>2, <2>3, MethodFacts, ClassFacts
<1> QED BY <1>1 DEF AreMethods

LEMMA InitTable == Init => TableInv
<1> SUFFICES ASSUME Init PROVE TableInv OBVIOUS
<1>1. Chain /\ tables \in Seq(Range(tables)) /\ step = "idle" /\ ~refused /\ Len(tables) = Len(classes)
  BY DEF Init, Chain, Range
<1>2. Methods = {} BY DEF Init, Methods
<1>3. Base = EmptyTable BY DEF Init, Base
<1>4. Good(EmptyTable, {})
  <2>1. /\ DOMAIN EmptyTable = Fields /\ DOMAIN EmptyTable.slots = {} /\ DOMAIN EmptyTable.impl = {}
        /\ DOMAIN EmptyTable.replace = {} /\ DOMAIN EmptyTable.newSlot = {} /\ DOMAIN EmptyTable.pending = {}
        /\ EmptyTable.promoted = {}
    BY DEF EmptyTable, Empty, Fields
  <2> QED BY <2>1, FS_EmptySet DEF Good
<1> QED BY <1>1, <1>2, <1>3, <1>4 DEF TableInv

LEMMA LastOf ==
  ASSUME NEW s, s \in Seq(Range(s)), NEW x
  PROVE  /\ Append(s, x) \in Seq(Range(Append(s, x)))
         /\ Len(Append(s, x)) = Len(s) + 1 /\ Last(Append(s, x)) = x /\ Append(s, x) # <<>>
         /\ DOMAIN Append(s, x) = 1..Len(s) + 1
         /\ \A k \in 1..Len(s) : Append(s, x)[k] = s[k]
         /\ Append(s, x)[Len(s) + 1] = x
<1> DEFINE R == Range(s) \cup {x}
           t == Append(s, x)
<1>1. s \in Seq(R)
  <2> HIDE DEF R
  <2>1. Range(s) \subseteq R BY DEF R
  <2> QED BY <2>1
<1>2. /\ t \in Seq(R) /\ Len(t) = Len(s) + 1 /\ DOMAIN t = 1..Len(s) + 1
      /\ \A k \in 1..Len(s) : t[k] = s[k]
      /\ t[Len(s) + 1] = x
  <2> HIDE DEF R
  <2>1. x \in R BY DEF R
  <2> QED BY <1>1, <2>1
<1> HIDE DEF t, R
<1>3. Len(s) \in Nat OBVIOUS
<1>4. t # <<>> BY <1>2, <1>3
<1>5. Last(t) = x BY <1>2, <1>3 DEF Last
<1>6. t \in Seq(Range(t))
  <2>1. \A k \in 1..Len(t) : t[k] \in Range(t) BY <1>2 DEF Range
  <2>2. Len(t) \in Nat BY <1>2, <1>3
  <2>3. t = [k \in 1..Len(t) |-> t[k]] BY <1>2
  <2> QED BY <2>1, <2>2, <2>3
<1> QED BY <1>2, <1>4, <1>5, <1>6 DEF t

\* One lemma for each action: it keeps the invariant.
LEMMA StartInv == ASSUME TableInv, NEW class \in Declarations, Start(class) PROVE TableInv'
<1>0. Len(classes) \in Nat BY DEF TableInv, Chain
<1> SUFFICES ASSUME NEW n \in Nat, n = Len(classes) + 1 PROVE TableInv'
  BY <1>0
<1>1. /\ classes' = Append(classes, class) /\ table' = Derived(Base) /\ step' = "methods"
      /\ left' = DOMAIN class.methods /\ tables' = tables /\ refused' = refused
      /\ step = "idle" /\ ~refused
  BY DEF Start
<1>2. Chain /\ Len(tables) = Len(classes) /\ Good(Base, Methods) /\ tables \in Seq(Range(tables))
  BY <1>1 DEF TableInv
<1>3. Len(classes) \in Nat BY <1>2 DEF Chain
<1>4. /\ classes' \in Seq(Declarations) /\ Len(classes') = n /\ DOMAIN classes' = 1..n
      /\ \A k \in 1..Len(classes) : classes'[k] = classes[k]
      /\ classes'[n] = class
  BY <1>1, <1>2 DEF Chain
<1>5. Class' = class BY <1>3, <1>4 DEF Class, Last
<1>6. Methods' = Methods \cup MethodsOf(n)'
  <2>1. DOMAIN classes' = DOMAIN classes \cup {n} BY <1>2, <1>3, <1>4 DEF Chain
  <2>2. \A k \in DOMAIN classes : MethodsOf(k)' = MethodsOf(k) BY <1>2, <1>4 DEF MethodsOf, Chain
  <2> QED BY <2>1, <2>2 DEF Methods
<1>7. MethodsOf(n)' = {Method(n, d) : d \in Range(class.methods)} BY <1>4 DEF MethodsOf
<1>8. \A m \in MethodsOf(n)' : m.owner = n /\ \E k \in DOMAIN class.methods : m = Method(n, class.methods[k])
  BY <1>7, MethodIs DEF Range
<1>9. \A m \in Methods : m.owner <= Len(classes) /\ m.owner \in Nat BY <1>2, MethodFacts
<1>10. Known' = Methods
  <2>1. ASSUME NEW m \in Methods PROVE ~\E k \in DOMAIN class.methods : m = Method(n, class.methods[k])
    BY <1>9, <1>3, MethodIs
  <2> QED BY <1>1, <1>4, <1>5, <1>6, <1>8, <2>1 DEF Known
<1>11. Under(Methods', n) = Methods
  BY <1>3, <1>6, <1>8, <1>9 DEF Under
<1>12. Base' = Base BY <1>1 DEF Base
<1>13. Good(table', Methods)
  <2>1. DOMAIN Base = Fields BY <1>2 DEF Good
  <2> DEFINE W == Derived(Base)
  <2>2. /\ DOMAIN W = Fields /\ W.slots = Base.slots /\ W.impl = Base.impl /\ W.replace = Base.replace
        /\ W.newSlot = Base.newSlot /\ W.promoted = Base.promoted /\ W.pending = Base.pending
    BY <2>1, FieldsAre DEF Derived
  <2> HIDE DEF W
  <2>3. \A g \in DOMAIN W.pending : W.pending[g] \subseteq Entries /\ IsFiniteSet(W.pending[g])
    BY <1>2, <2>2 DEF Good
  <2>4. Good(W, Methods) BY <1>2, <2>2, <2>3, SameGood
  <2> QED BY <2>4, <1>1 DEF W
<1>14. Chain' BY <1>4 DEF Chain
<1>15. Good(Base', Under(Methods', Len(classes'))) /\ Good(table', Known')
  BY <1>2, <1>4, <1>10, <1>11, <1>12, <1>13
<1>16. left' \subseteq DOMAIN Class'.methods /\ DOMAIN Class'.methods \ left' = {} BY <1>1, <1>5
<1>17. Len(classes') = Len(tables') + 1 /\ tables' \in Seq(Range(tables')) BY <1>1, <1>2, <1>4
<1> QED BY <1>1, <1>14, <1>15, <1>16, <1>17 DEF TableInv

\* A class is being resolved, and stays so.
LEMMA Resolving ==
  ASSUME TableInv, step # "idle"
  PROVE  /\ Chain /\ Len(tables) \in Nat /\ Len(classes) = Len(tables) + 1
         /\ Len(classes) \in DOMAIN classes /\ Class = classes[Len(classes)]
         /\ Class \in Declarations /\ AreMethods(Methods)
         /\ ~refused /\ Good(table, Known) /\ Good(Base, Under(Methods, Len(classes)))
         /\ step # "methods" => Known = Methods
<1>1. Chain /\ Len(classes) = Len(tables) + 1 /\ tables \in Seq(Range(tables)) BY DEF TableInv
<1>2. Len(tables) \in Nat /\ Len(classes) \in DOMAIN classes BY <1>1 DEF Chain
<1>3. Class = classes[Len(classes)] BY DEF Class, Last
<1> QED BY <1>1, <1>2, <1>3, ClassFacts, MethodsAre DEF TableInv, Known

LEMMA SameChain ==
  ASSUME classes' = classes
  PROVE  Methods' = Methods /\ Class' = Class /\ (Chain => Chain')
BY DEF Methods, MethodsOf, Class, Chain

\* The steps after the first loop change the table only.
LEMMA StaysGood ==
  ASSUME TableInv, step # "idle", classes' = classes, tables' = tables, refused' = refused,
         step' \in {"pending", "interfaces", "overrides"},
         step' = "pending" => left' \subseteq DOMAIN table'.slots \cap DOMAIN table'.pending,
         Good(table', Methods)
  PROVE  TableInv'
<1>1. /\ Methods' = Methods /\ Chain' BY Resolving, SameChain
<1>2. Known' = Methods' BY DEF Known
<1>3. Base' = Base BY DEF Base
<1>4. Good(Base', Under(Methods', Len(classes'))) /\ Good(table', Known') BY <1>1, <1>2, <1>3, Resolving
<1>5. Len(classes') = Len(tables') + 1 /\ tables' \in Seq(Range(tables')) /\ ~refused' BY Resolving DEF TableInv
<1> QED BY <1>1, <1>4, <1>5 DEF TableInv

\* The method processed is the one more; it is of the last class.
LEMMA ImplicitStep ==
  ASSUME TableInv, OverrideImplicitly, NEW n \in Nat, n = Len(classes), NEW C, C = Class
  PROVE  /\ left \subseteq DOMAIN C.methods
         /\ \E k \in left :
              /\ \A l \in left : l # k => InOrder(C.methods, k, l)
              /\ table' = ProcessMethod(table, Base, n, C.methods[k])
              /\ left' = left \ {k}
              /\ Known' = Known \cup {Method(n, C.methods[k])}
              /\ Grows(Known, Known', Method(n, C.methods[k])) /\ Method(n, C.methods[k]) \in Methods
              /\ C.methods[k].kind = "reuse" => \A p \in Known : ~(p.sig = C.methods[k].sig /\ p.owner = n)
         /\ Under(Known, n) = Under(Methods, n) /\ Known \subseteq Methods
         /\ UNCHANGED <<classes, tables, refused, step>>
<1>1. step = "methods" BY DEF OverrideImplicitly
<1>2. PICK k \in left :
        /\ \A l \in left : l # k => InOrder(C.methods, k, l)
        /\ table' = ProcessMethod(table, Base, n, C.methods[k])
        /\ left' = left \ {k}
        /\ UNCHANGED <<classes, tables, refused, step>>
  BY DEF OverrideImplicitly
<1>3. /\ Chain /\ n \in DOMAIN classes /\ C = classes[n] /\ C \in Declarations
      /\ AreMethods(Methods) /\ Good(table, Known) /\ Good(Base, Under(Methods, n))
      /\ Len(classes) = Len(tables) + 1 /\ ~refused
  BY <1>1, Resolving
<1>4. /\ left \subseteq DOMAIN C.methods
      /\ \A l \in left : C.methods[l].kind = "reuse" =>
           \A j \in DOMAIN C.methods \ left : C.methods[j].sig # C.methods[l].sig
  BY <1>1 DEF TableInv
<1> DEFINE d == C.methods[k]
           m == Method(n, d)
           N == Known \cup {m}
<1>5. m \in Methods /\ m.owner = n /\ m.sig = d.sig /\ m.kind = d.kind
  BY <1>3, <1>4, ClassFacts, MethodIs
<1>6. Known = {p \in Methods : ~\E l \in left : p = Method(n, C.methods[l])}
  BY <1>1 DEF Known
<1>7. Methods' = Methods /\ Class' = C
  BY <1>2, <1>3, SameChain
<1>8. Known' = {p \in Methods : ~\E l \in left \ {k} : p = Method(n, C.methods[l])}
  BY <1>1, <1>2, <1>7 DEF Known
<1>9. Known' = N
  <2>1. \A l \in left : Method(n, C.methods[l]) = m => l = k BY <1>3, <1>4, ClassFacts
  <2> QED BY <2>1, <1>5, <1>6, <1>8
<1>10. m \notin Known BY <1>6
<1>11. Grows(Known, N, m)
  <2>1. AreMethods(N) BY <1>3, <1>5, <1>6 DEF AreMethods
  <2>2. \A p \in Known : p.owner <= n BY <1>3, <1>6, MethodFacts
  <2> QED BY <2>1, <2>2, <1>5, <1>10 DEF Grows
<1>12. \A p \in Methods : p.owner = n => \E j \in DOMAIN C.methods : p = Method(n, C.methods[j])
  BY <1>3, MethodFacts
<1>13. Under(Known, n) = Under(Methods, n)
  <2>1. ASSUME NEW p \in Methods, p.owner < n PROVE p \in Known
    BY <2>1, <1>6, MethodIs
  <2> QED BY <2>1, <1>6 DEF Under
<1>14. d.kind = "reuse" => \A p \in Known : ~(p.sig = d.sig /\ p.owner = n)
  <2> SUFFICES ASSUME d.kind = "reuse", NEW p \in Known, p.sig = d.sig, p.owner = n PROVE FALSE
    OBVIOUS
  <2>1. PICK j \in DOMAIN C.methods : p = Method(n, C.methods[j]) BY <1>6, <1>12
  <2>2. j \notin left BY <2>1, <1>6
  <2>3. C.methods[j].sig = d.sig BY <2>1, MethodIs
  <2> QED BY <2>2, <2>3, <1>4
<1> QED BY <1>2, <1>4, <1>5, <1>6, <1>9, <1>11, <1>13, <1>14

LEMMA OverrideImplicitlyInv == ASSUME TableInv, OverrideImplicitly PROVE TableInv'
<1>1. step = "methods" BY DEF OverrideImplicitly
<1> SUFFICES ASSUME NEW n \in Nat, n = Len(classes), NEW C, C = Class PROVE TableInv'
  <2>1. Len(classes) \in Nat BY <1>1, Resolving
  <2> QED BY <2>1
<1>2. PICK k \in left :
        /\ \A l \in left : l # k => InOrder(C.methods, k, l)
        /\ table' = ProcessMethod(table, Base, n, C.methods[k])
        /\ left' = left \ {k}
        /\ Known' = Known \cup {Method(n, C.methods[k])}
        /\ Grows(Known, Known', Method(n, C.methods[k])) /\ Method(n, C.methods[k]) \in Methods
        /\ C.methods[k].kind = "reuse" => \A p \in Known : ~(p.sig = C.methods[k].sig /\ p.owner = n)
  BY ImplicitStep
<1>3. /\ Chain /\ n \in DOMAIN classes /\ C = classes[n] /\ C \in Declarations
      /\ Good(table, Known) /\ Good(Base, Under(Methods, n))
      /\ Len(classes) = Len(tables) + 1 /\ ~refused
  BY <1>1, Resolving
<1>4. /\ left \subseteq DOMAIN C.methods
      /\ \A l \in left : C.methods[l].kind = "reuse" =>
           \A j \in DOMAIN C.methods \ left : C.methods[j].sig # C.methods[l].sig
  BY <1>1 DEF TableInv
<1>5. Under(Known, n) = Under(Methods, n) /\ UNCHANGED <<classes, tables, refused, step>> BY ImplicitStep
<1>7. /\ Methods' = Methods /\ Class' = C /\ Chain' /\ Base' = Base
  BY <1>3, <1>5, SameChain DEF Base
<1>15. Good(table', Known')
  <2> DEFINE d == C.methods[k]
  <2>1. Good(Base, Under(Known, n)) BY <1>3, <1>5
  <2>2. Grows(Known, Known', Method(n, d)) /\ (d.kind = "reuse" => \A p \in Known : ~(p.sig = d.sig /\ p.owner = n)) BY <1>2
  <2>3. table' = ProcessMethod(table, Base, n, d) BY <1>2
  <2> HIDE DEF d
  <2> QED BY <2>1, <2>2, <2>3, <1>3, ProcessGood
<1>16. left' \subseteq DOMAIN C.methods BY <1>2, <1>4
<1>17. ASSUME NEW l \in left', C.methods[l].kind = "reuse", NEW j \in DOMAIN C.methods \ left',
              C.methods[j].sig = C.methods[l].sig
       PROVE  FALSE
  <2>1. CASE j \notin left BY <2>1, <1>2, <1>4, <1>17
  <2>2. CASE j \in left
    <3>1. j = k /\ l \in left /\ l # k BY <2>2, <1>2, <1>17
    <3>2. InOrder(C.methods, k, l) BY <3>1, <1>2
    <3> DEFINE first(q) == CHOOSE i \in DOMAIN C.methods :
                    /\ C.methods[i].sig = C.methods[q].sig
                    /\ \A h \in DOMAIN C.methods : C.methods[h].sig = C.methods[q].sig => i <= h
    <3>3. first(k) = first(l) BY <3>1, <1>17
    <3>4. first(k) \in Nat
      <4> DEFINE S == {i \in DOMAIN C.methods : C.methods[i].sig = C.methods[k].sig}
      <4>1. S \subseteq Nat /\ k \in S
        <5>1. C.methods \in Seq(Range(C.methods)) BY <1>3, DeclarationAssumption
        <5> QED BY <5>1, <1>4
      <4>2. \E i \in S : \A h \in S : i <= h
        <5> HIDE DEF S
        <5> QED BY <4>1, Least
      <4>3. first(k) \in DOMAIN C.methods BY <4>2
      <4>4. C.methods[first(k)].sig = C.methods[k].sig BY <4>2
      <4> HIDE DEF first
      <4> QED BY <4>1, <4>3, <4>4
    <3>5. first(k) < first(l) \/ C.methods[l].kind = "new" BY <3>2 DEF InOrder
    <3> HIDE DEF first
    <3> QED BY <3>3, <3>4, <3>5, <1>17
  <2> QED BY <2>1, <2>2
<1>18. Good(Base', Under(Methods', Len(classes'))) BY <1>3, <1>5, <1>7
<1>19. Len(classes') = Len(tables') + 1 /\ tables' \in Seq(Range(tables')) /\ step' = "methods" /\ ~refused'
  BY <1>1, <1>3, <1>5 DEF TableInv
<1> QED BY <1>7, <1>15, <1>16, <1>17, <1>18, <1>19 DEF TableInv

LEMMA StartPendingInv == ASSUME TableInv, StartPending PROVE TableInv'
<1>1. /\ step = "methods" /\ left = {} /\ step' = "pending" /\ left' = Pending
      /\ classes' = classes /\ tables' = tables /\ refused' = refused /\ table' = table
  BY DEF StartPending
<1>2. Known = Methods BY <1>1 DEF Known
<1>3. left' \subseteq DOMAIN table'.slots \cap DOMAIN table'.pending BY <1>1 DEF Pending
<1>4. Good(table', Methods) BY <1>1, <1>2, Resolving
<1> QED BY <1>1, <1>3, <1>4, StaysGood

LEMMA BindPendingInv == ASSUME TableInv, BindPending PROVE TableInv'
<1>1. step = "pending" BY DEF BindPending
<1>2. PICK s \in left :
       /\ table' = [AddEntries(table, s, table.pending[s]) EXCEPT !.pending = Without(@, {s})]
       /\ left' = left \ {s}
       /\ UNCHANGED <<classes, tables, refused, step>>
  BY DEF BindPending
<1>3. left \subseteq DOMAIN table.slots \cap DOMAIN table.pending BY <1>1 DEF TableInv
<1>4. AreMethods(Methods) /\ Good(table, Methods) BY <1>1, Resolving
<1>5. Good(table', Methods) /\ DOMAIN table'.slots = DOMAIN table.slots
      /\ DOMAIN table'.pending = DOMAIN table.pending \ {s}
  BY <1>2, <1>3, <1>4, BindPendingGood
<1> QED BY <1>1, <1>2, <1>3, <1>5, StaysGood

LEMMA StartInterfacesInv == ASSUME TableInv, StartInterfaces PROVE TableInv'
<1>1. /\ step = "pending" /\ step' = "interfaces"
      /\ classes' = classes /\ tables' = tables /\ refused' = refused /\ table' = table
  BY DEF StartInterfaces
<1> QED BY <1>1, Resolving, StaysGood

LEMMA BindInterfaceInv == ASSUME TableInv, BindInterface PROVE TableInv'
<1>1. step = "interfaces" BY DEF BindInterface
<1>2. PICK p \in DOMAIN Class.lists : \E s \in DOMAIN InterfaceSlots[Class.lists[p]] :
        table' = BindSignature(table, s, InterfaceSlots[Class.lists[p]][s])
  BY DEF BindInterface
<1>3. PICK s \in DOMAIN InterfaceSlots[Class.lists[p]] :
        table' = BindSignature(table, s, InterfaceSlots[Class.lists[p]][s])
  BY <1>2
<1>4. classes' = classes /\ tables' = tables /\ refused' = refused /\ step' = step BY DEF BindInterface
<1>5. AreMethods(Methods) /\ Good(table, Methods) /\ Class \in Declarations /\ Chain
      /\ Len(classes) \in DOMAIN classes /\ Class = classes[Len(classes)] BY <1>1, Resolving
<1> DEFINE i == Class.lists[p]
           E == InterfaceSlots[i][s]
<1>6. i \in DOMAIN InterfaceSlots
  <2>1. Class.lists \in Seq(DOMAIN InterfaceSlots) BY <1>5, DeclarationAssumption
  <2> QED BY <2>1
<1>7. E \subseteq Entries /\ IsFiniteSet(E) BY <1>6, DeclarationAssumption DEF Entries
<1> HIDE DEF i
<1>8. table' = BindSignature(table, s, E) BY <1>3 DEF i
<1> HIDE DEF E
<1>9. CASE DeclaresSig(Class, s)
  <2>1. s \in DOMAIN table.slots
    <3>1. PICK k \in DOMAIN Class.methods : Class.methods[k].sig = s BY <1>9 DEF DeclaresSig
    <3>2. Method(Len(classes), Class.methods[k]) \in Methods BY <1>5, <3>1, ClassFacts
    <3> QED BY <3>1, <3>2, <1>5, MethodIs DEF Good
  <2>2. table' = AddEntries(table, s, E) BY <1>8, <1>9 DEF BindSignature
  <2>3. Good(table', Methods) BY <2>1, <2>2, <1>5, <1>7, AddEntriesGood
  <2> QED BY <2>3, <1>1, <1>4, StaysGood
<1>10. CASE ~DeclaresSig(Class, s)
  <2> DEFINE F == E \ DOMAIN table.impl
  <2>1. F \subseteq Entries /\ IsFiniteSet(F) /\ F \cap DOMAIN table.impl = {} BY <1>7, FS_Subset
  <2>2. table' = BindInherited(table, s, F) BY <1>8, <1>10 DEF BindSignature
  <2> HIDE DEF F
  <2>3. Good(BindInherited(table, s, F), Methods)
    BY <2>1, <1>5, BindInheritedGood DEF BindInherited
  <2> QED BY <2>2, <2>3, <1>1, <1>4, StaysGood
<1> QED BY <1>9, <1>10

LEMMA StartOverridesInv == ASSUME TableInv, StartOverrides PROVE TableInv'
<1>1. /\ step = "interfaces" /\ step' = "overrides"
      /\ classes' = classes /\ tables' = tables /\ refused' = refused /\ table' = table
  BY DEF StartOverrides
<1> QED BY <1>1, Resolving, StaysGood

LEMMA RefuseInv == ASSUME TableInv, Refuse PROVE TableInv'
<1>1. refused' = TRUE /\ step' = "idle" /\ classes' = classes /\ tables' = tables BY DEF Refuse
<1> QED BY <1>1, SameChain DEF TableInv

\* Every explicit override of the chain is one of an interface method.
InterfaceOverrides ==
  \A n \in DOMAIN classes : \A k \in DOMAIN classes[n].methods : classes[n].methods[k].overrides \subseteq Entries

\* Explicit overrides are refused or move an interface entry to another slot.
LEMMA OverrideExplicitlyInv == ASSUME InterfaceOverrides, TableInv, OverrideExplicitly PROVE TableInv'
<1>1. step = "overrides" BY DEF OverrideExplicitly
<1>2. PICK k \in DOMAIN Class.methods : \E t \in Class.methods[k].overrides :
        IF Conflicts(t) THEN Refuse
        ELSE /\ table' = Override(table, Len(classes), Class.methods[k], t)
             /\ UNCHANGED <<classes, tables, refused, step>>
  BY DEF OverrideExplicitly
<1>3. PICK t \in Class.methods[k].overrides :
        IF Conflicts(t) THEN Refuse
        ELSE /\ table' = Override(table, Len(classes), Class.methods[k], t)
             /\ UNCHANGED <<classes, tables, refused, step>>
  BY <1>2
<1>4. CASE Conflicts(t) BY <1>3, <1>4, RefuseInv
<1>5. CASE ~Conflicts(t)
  <2>1. AreMethods(Methods) /\ Good(table, Methods) /\ Class \in Declarations /\ Chain
        /\ Len(classes) \in DOMAIN classes /\ Class = classes[Len(classes)] BY <1>1, Resolving
  <2>2. t \in Entries BY <2>1 DEF InterfaceOverrides
  <2>3. Class.methods[k].sig \in DOMAIN table.slots
    <3>1. Method(Len(classes), Class.methods[k]) \in Methods BY <2>1, ClassFacts
    <3> QED BY <3>1, <2>1, MethodIs DEF Good
  <2>4. Good(table', Methods) BY <1>3, <1>5, <2>1, <2>2, <2>3, OverrideGood
  <2> QED BY <2>4, <1>1, <1>3, <1>5, StaysGood
<1> QED BY <1>4, <1>5

LEMMA FinishTableInv == ASSUME TableInv, FinishTable PROVE TableInv'
<1> DEFINE T == ExpandNewSlots(table)
<1>1. step = "overrides" BY DEF FinishTable
<1>2. CASE Unimplemented(T) BY <1>2, RefuseInv DEF FinishTable
<1>3. CASE ~Unimplemented(T)
  <2>1. tables' = Append(tables, T) /\ step' = "idle" /\ classes' = classes /\ refused' = refused
    BY <1>3 DEF FinishTable
  <2>2. AreMethods(Methods) /\ Good(table, Methods) /\ Chain /\ Len(classes) = Len(tables) + 1 BY <1>1, Resolving
  <2>3. Good(T, Methods) BY <2>2, ExpandGood
  <2> HIDE DEF T
  <2>4. /\ tables' \in Seq(Range(tables')) /\ Len(tables') = Len(tables) + 1 /\ Last(tables') = T /\ tables' # <<>>
    BY <2>1, LastOf DEF TableInv
  <2>5. Base' = T BY <2>4 DEF Base
  <2>6. Good(Base', Methods') /\ Chain' /\ Len(tables') = Len(classes')
    BY <2>1, <2>2, <2>3, <2>4, <2>5, SameChain
  <2> QED BY <2>1, <2>4, <2>6 DEF TableInv
<1> QED BY <1>2, <1>3

LEMMA StutterInv == ASSUME TableInv, UNCHANGED vars PROVE TableInv'
<1>1. /\ classes' = classes /\ tables' = tables /\ refused' = refused /\ table' = table /\ step' = step /\ left' = left
  BY DEF vars
<1>2. Methods' = Methods /\ Class' = Class /\ Base' = Base /\ Chain' BY <1>1, SameChain DEF Base, TableInv
<1>3. Known' = Known BY <1>1, <1>2 DEF Known
<1> QED BY <1>1, <1>2, <1>3 DEF TableInv

\* A chain only grows, so what is true of all its classes was true before.
LEMMA OverridesBefore ==
  ASSUME Chain, [Next]_vars
  PROVE  Chain' /\ (InterfaceOverrides' => InterfaceOverrides)
<1>1. CASE \E class \in Declarations : Start(class)
  <2>1. PICK class \in Declarations : classes' = Append(classes, class) BY <1>1 DEF Start
  <2>2. /\ DOMAIN classes \subseteq DOMAIN classes' /\ \A n \in DOMAIN classes : classes'[n] = classes[n]
        /\ classes' \in Seq(Declarations)
    BY <2>1 DEF Chain
  <2> QED BY <2>2 DEF Chain, InterfaceOverrides
<1>2. CASE classes' = classes BY <1>2 DEF Chain, InterfaceOverrides
<1> QED BY <1>1, <1>2 DEF Next, vars, OverrideImplicitly, StartPending, BindPending, StartInterfaces,
        BindInterface, StartOverrides, OverrideExplicitly, FinishTable, Refuse

\* The invariant holds in every reachable state whose chain has only such overrides.
LEMMA TableInvariance == Spec => [](Chain /\ (InterfaceOverrides => TableInv))
<1>1. TableInv /\ InterfaceOverrides /\ [Next]_vars => TableInv'
  BY StartInv, OverrideImplicitlyInv, StartPendingInv, BindPendingInv, StartInterfacesInv, BindInterfaceInv,
     StartOverridesInv, OverrideExplicitlyInv, FinishTableInv, StutterInv DEF Next
<1>2. Init => Chain /\ TableInv BY InitTable DEF TableInv
<1> QED BY <1>1, <1>2, OverridesBefore, PTL DEF Spec

LEMMA OfLevel ==
  ASSUME Chain, NEW k \in DOMAIN classes
  PROVE  \A m : m \in MethodsOf(k) <=> m \in Methods /\ m.owner = k
<1>1. \A m \in MethodsOf(k) : m \in Methods /\ m.owner = k BY MethodIs DEF Methods, MethodsOf
<1>2. \A m \in Methods : m.owner = k => m \in MethodsOf(k) BY MethodFacts
<1> QED BY <1>1, <1>2

\* b is the method of the nearest class up to k with signature g
Near(M, k, g, b) ==
  /\ b \in M /\ b.sig = g /\ b.owner <= k
  /\ \A p \in M : p.sig = g /\ p.owner <= k =>
       p.owner < b.owner \/ p = b \/ (p.owner = b.owner /\ b.kind = "new")

\* What the specification says of slots by looking for the nearest class
\* (Nearest, Opens, Slot) is what OpensIn and SlotIs say of the set of methods.
LEMMA NearestIs ==
  ASSUME Chain, NEW k \in Nat, k <= Len(classes), NEW g
  PROVE  IF \A p \in Methods : ~(p.sig = g /\ p.owner <= k) THEN Nearest(k, g) = None
         ELSE /\ Nearest(k, g) # None
              /\ IsFiniteSet(Methods) => Near(Methods, k, g, Nearest(k, g))
<1> DEFINE owners == {j \in 1..k : \E m \in MethodsOf(j) : m.sig = g}
           j == CHOOSE j \in owners : \A i \in owners : i <= j
           here == {m \in MethodsOf(j) : m.sig = g}
           near == CHOOSE m \in here : m.kind = "new" \/ Cardinality(here) = 1
<1>1. Nearest(k, g) = IF owners = {} THEN None ELSE near BY DEF Nearest
<1>2. Len(classes) \in Nat /\ DOMAIN classes = 1..Len(classes) BY DEF Chain
<1>3. AreMethods(Methods) BY MethodsAre
<1>4. ASSUME NEW p \in Methods, p.sig = g, p.owner <= k PROVE p.owner \in owners
  <2>1. p.owner \in 1..k BY <1>3, <1>4 DEF AreMethods
  <2> QED BY <2>1, <1>4, MethodFacts
<1>5. owners = {} <=> \A p \in Methods : ~(p.sig = g /\ p.owner <= k)
  <2>1. ASSUME NEW i \in owners PROVE \E p \in Methods : p.sig = g /\ p.owner <= k
    <3>1. i \in DOMAIN classes BY <1>2
    <3> QED BY <3>1, OfLevel
  <2> QED BY <2>1, <1>4
<1>6. ASSUME owners # {} PROVE near # None /\ (IsFiniteSet(Methods) => Near(Methods, k, g, near))
  <2>1. owners \subseteq Nat /\ \A i \in owners : i <= k OBVIOUS
  <2>2. \E i \in owners : \A h \in owners : h <= i
    <3> HIDE DEF owners
    <3> QED BY <1>6, <2>1, Greatest
  <2>3. j \in owners /\ \A i \in owners : i <= j BY <2>2
  <2>4. j \in DOMAIN classes /\ j >= 1 /\ j <= k /\ j \in Nat BY <2>3, <1>2
  <2>5. here # {} BY <2>3
  <2>6. ASSUME NEW p \in Methods, p.sig = g, p.owner <= k PROVE p.owner <= j BY <2>3, <2>6, <1>4
  <2> HIDE DEF j, owners
  <2>7. \A m : m \in here <=> m \in Methods /\ m.owner = j /\ m.sig = g BY <2>4, OfLevel
  <2> HIDE DEF here
  <2>8. \E m \in here : m.kind = "new" \/ Cardinality(here) = 1
    <3> SUFFICES ASSUME \A m \in here : m.kind # "new" PROVE Cardinality(here) = 1
      BY <2>5
    <3>1. PICK m \in here : TRUE BY <2>5
    <3>2. \A q \in here : q = m BY <2>7, <1>3, <3>1 DEF AreMethods, Kinds
    <3>3. here = {m} BY <3>1, <3>2
    <3> QED BY <3>3, FS_Singleton
  <2>9. near \in here /\ (near.kind = "new" \/ Cardinality(here) = 1) BY <2>8
  <2>10. near.owner = j /\ near \in Methods /\ near.sig = g BY <2>7, <2>9
  <2>11. None.owner = 0 BY DEF None
  <2> HIDE DEF near
  <2>12. ASSUME IsFiniteSet(Methods), NEW p \in Methods, p.sig = g, p.owner <= k
         PROVE  p.owner < near.owner \/ p = near \/ (p.owner = near.owner /\ near.kind = "new")
    <3>1. p.owner <= j /\ p.owner \in Nat BY <2>6, <2>12, <1>3 DEF AreMethods
    <3>2. CASE p.owner < j BY <3>2, <2>10
    <3>3. CASE p.owner = j /\ Cardinality(here) = 1
      <4>1. here \subseteq Methods BY <2>7
      <4>2. IsFiniteSet(here) BY <4>1, <2>12, FS_Subset
      <4>3. \E x : here = {x} BY <4>2, <3>3, FS_Singleton
      <4>4. p \in here BY <3>3, <2>7, <2>12
      <4> QED BY <4>3, <4>4, <2>9
    <3> QED BY <3>1, <3>2, <3>3, <2>4, <2>9, <2>10
  <2> QED BY <2>4, <2>10, <2>11, <2>12 DEF Near
<1> QED BY <1>1, <1>5, <1>6

LEMMA NearestNone ==
  ASSUME Chain, NEW k \in Nat, k <= Len(classes), NEW g
  PROVE  Nearest(k, g) = None <=> \A p \in Methods : ~(p.sig = g /\ p.owner <= k)
BY NearestIs

LEMMA OpensLink ==
  ASSUME Chain, NEW m \in Methods
  PROVE  Opens(m) <=> OpensIn(Methods, m)
<1>1. m.owner \in Nat \ {0} /\ m.owner <= Len(classes) BY MethodFacts
<1>2. m.owner - 1 \in Nat /\ m.owner - 1 <= Len(classes) BY <1>1 DEF Chain
<1>3. Nearest(m.owner - 1, m.sig) = None <=> \A p \in Methods : ~(p.sig = m.sig /\ p.owner <= m.owner - 1)
  BY <1>2, NearestNone
<1>4. \A p \in Methods : p.owner <= m.owner - 1 <=> p.owner < m.owner
  BY <1>1, MethodsAre DEF AreMethods
<1> QED BY <1>3, <1>4 DEF Opens, OpensIn

LEMMA SlotLink ==
  ASSUME Chain, IsFiniteSet(Methods), NEW m \in Methods
  PROVE  SlotIs(Methods, m, Slot(m)) /\ Slot(m) \in Slots
<1> DEFINE before == {o \in Methods : o.sig = m.sig /\ o.owner < m.owner /\ Opens(o)}
           last == {o \in before : \A p \in before : p.owner <= o.owner}
           slot == CHOOSE o \in last : o.kind = "new" \/ Cardinality(last) = 1
<1>1. AreMethods(Methods) BY MethodsAre
<1>2. PICK o \in Methods : SlotIs(Methods, m, o) BY <1>1, SomeSlot
<1>3. Slot(m) = o
  <2>1. CASE OpensIn(Methods, m)
    <3>1. Slot(m) = m BY <2>1, OpensLink DEF Slot
    <3> QED BY <3>1, <2>1, <1>2 DEF SlotIs
  <2>2. CASE ~OpensIn(Methods, m)
    <3>1. Slot(m) = slot BY <2>2, OpensLink DEF Slot
    <3>2. Current(Under(Methods, m.owner), m.sig, o) BY <1>2, <2>2 DEF SlotIs
    <3>3. m.owner \in Nat BY <1>1 DEF AreMethods
    <3>4. \A p : p \in before <=> p \in Under(Methods, m.owner) /\ p.sig = m.sig /\ OpensIn(Under(Methods, m.owner), p)
      <4>1. ASSUME NEW p \in Methods, p.owner < m.owner
            PROVE  OpensIn(Under(Methods, m.owner), p) <=> Opens(p)
        <5>1. p.owner <= m.owner BY <4>1, <3>3, <1>1 DEF AreMethods
        <5> QED BY <5>1, <3>3, <1>1, UnderOpens, OpensLink
      <4> QED BY <4>1 DEF Under
    <3>5. o \in before /\ \A p \in before : p.owner < o.owner \/ p = o \/ (p.owner = o.owner /\ o.kind = "new")
      BY <3>2, <3>4 DEF Current
    <3>6. \A p \in before : p \in Methods /\ p.owner \in Nat /\ p.kind \in Kinds /\ p.sig = m.sig
      BY <1>1 DEF AreMethods
    <3> HIDE DEF before
    <3>7. o \in last BY <3>5, <3>6
    <3>8. \A p \in last : p \in before /\ p.owner = o.owner BY <3>5, <3>6, <3>7
    <3>9. IsFiniteSet(last)
      <4>1. last \subseteq Methods BY <3>6
      <4> QED BY <4>1, FS_Subset
    <3> HIDE DEF last
    <3>10. o.kind = "new" \/ Cardinality(last) = 1
      <4> SUFFICES ASSUME o.kind # "new" PROVE Cardinality(last) = 1 OBVIOUS
      <4>1. \A p \in last : p = o BY <3>5, <3>6, <3>8
      <4>2. last = {o} BY <4>1, <3>7
      <4> QED BY <4>2, FS_Singleton
    <3>11. slot \in last /\ (slot.kind = "new" \/ Cardinality(last) = 1) BY <3>7, <3>10
    <3> HIDE DEF slot
    <3>12. slot = o
      <4>1. CASE Cardinality(last) = 1
        <5>1. \E x : last = {x} BY <4>1, <3>9, FS_Singleton
        <5> QED BY <5>1, <3>7, <3>11
      <4>2. CASE slot.kind = "new"
        <5>1. slot \in Methods /\ slot.owner = o.owner /\ slot.sig = o.sig /\ (slot = o \/ o.kind = "new")
          BY <3>5, <3>6, <3>8, <3>11
        <5> QED BY <5>1, <4>2, <1>1, <1>2 DEF AreMethods
      <4> QED BY <4>1, <4>2, <3>11
    <3> QED BY <3>1, <3>12
  <2> QED BY <2>1, <2>2
<1>4. OpensIn(Methods, o) BY <1>1, <1>2, SlotFacts
<1> QED BY <1>2, <1>3, <1>4, OpensLink DEF Slots

\* A class has one method for a slot.
LEMMA SlotSame ==
  ASSUME NEW M, AreMethods(M), NEW x \in M, NEW y \in M, x.owner = y.owner,
         NEW o, SlotIs(M, x, o), SlotIs(M, y, o)
  PROVE  x = y
<1>1. x.sig = y.sig BY SlotFacts
<1>2. CASE x.kind = y.kind BY <1>1, <1>2 DEF AreMethods
<1>3. CASE x.kind # y.kind
  <2>1. x.kind = "new" \/ y.kind = "new" BY <1>3 DEF AreMethods, Kinds
  <2>2. OpensIn(M, x) \/ OpensIn(M, y) BY <2>1 DEF OpensIn
  <2>3. x.owner \in Nat /\ ~(x.owner < x.owner) BY DEF AreMethods
  <2>4. o.owner \in Nat BY SlotFacts DEF AreMethods
  <2>5. OpensIn(M, x) => o = x BY SlotFacts
  <2>6. OpensIn(M, y) => o = y BY SlotFacts
  <2>7. ~OpensIn(M, x) => o.owner < x.owner BY SlotFacts
  <2>8. ~OpensIn(M, y) => o.owner < y.owner BY SlotFacts
  <2> QED BY <2>2, <2>3, <2>5, <2>6, <2>7, <2>8
<1> QED BY <1>2, <1>3

\* A slot that no explicit override redirects is its own end.
LEMMA FollowIs ==
  ASSUME NEW n, NEW s \in Slots, IsFiniteSet(Slots), \A t \in Slots : Redirect(n, t) = t
  PROVE  Follow(n, s) = s
<1> DEFINE to == [t \in Slots |-> Redirect(n, t)]
           limit == Cardinality(Slots)
           is(f) == f = [k \in 0..limit |-> IF k = 0 THEN s ELSE to[f[k - 1]]]
           g == [k \in 0..limit |-> s]
           walk == CHOOSE f : is(f)
<1>1. limit \in Nat BY FS_CardinalityType
<1>2. to[s] = s OBVIOUS
<1>3. Follow(n, s) = walk[limit] BY DEF Follow
<1> HIDE DEF to, limit
<1>4. is(g)
  <2>1. \A k \in 0..limit : k # 0 => k - 1 \in 0..limit BY <1>1
  <2>2. \A k \in 0..limit : s = IF k = 0 THEN s ELSE to[g[k - 1]] BY <2>1, <1>2
  <2> QED BY <2>2
<1>5. is(walk) BY <1>4
<1> HIDE DEF walk
<1>6. \A k \in 0..limit : walk[k] = IF k = 0 THEN s ELSE to[walk[k - 1]] BY <1>5
<1> HIDE DEF is
<1> DEFINE Bad == {k \in 0..limit : walk[k] # s}
<1>7. Bad = {}
  <2>1. SUFFICES ASSUME Bad # {} PROVE FALSE OBVIOUS
  <2>2. Bad \subseteq Nat OBVIOUS
  <2>3. PICK k \in Bad : \A j \in Bad : k <= j
    <3> HIDE DEF Bad
    <3> QED BY <2>1, <2>2, Least
  <2>4. k \in 0..limit /\ k # 0 BY <2>3, <1>6, <1>1
  <2>5. k - 1 \in 0..limit /\ k - 1 \notin Bad BY <2>3, <2>4, <1>1
  <2>6. walk[k - 1] = s BY <2>5
  <2>7. walk[k] = s BY <2>4, <2>6, <1>6, <1>2
  <2> QED BY <2>3, <2>7
<1> QED BY <1>1, <1>3, <1>7

\* Entries of interfaces are not methods, so no slot is redirected,
LEMMA NoExplicit ==
  ASSUME InterfaceOverrides, Chain, NEW k \in DOMAIN classes, NEW s
  PROVE  Explicit(k, s) = {}
<1>1. ASSUME NEW m \in Methods PROVE Overrides(k, m) = {}
  <2>1. \A d \in Range(classes[k].methods) : d.overrides \subseteq Entries
    BY DEF InterfaceOverrides, Range
  <2>2. m \notin Entries BY MethodsAre, EntriesApart
  <2> QED BY <2>1, <2>2 DEF Overrides
<1> QED BY <1>1 DEF Explicit

\* and what a call should run is the last override of its slot.
LEMMA RunsLast ==
  ASSUME InterfaceOverrides, Chain, IsFiniteSet(Methods), NEW n, n = Len(classes),
         NEW s \in Slots, NEW l, LastIs(Methods, s, l)
  PROVE  Runs(n, s) = l
<1>1. n \in Nat /\ DOMAIN classes = 1..n BY DEF Chain
<1>2. AreMethods(Methods) BY MethodsAre
<1>3. ASSUME NEW k \in 1..n, NEW t
      PROVE  /\ SaysOf(k, t) = Implicit(k, t) /\ Explicit(k, t) = {}
             /\ \A m : m \in Implicit(k, t) <=> m \in Methods /\ m.owner = k /\ SlotIs(Methods, m, t)
  <2>1. Explicit(k, t) = {} BY <1>1, NoExplicit
  <2>2. \A m : m \in Implicit(k, t) <=> m \in Methods /\ m.owner = k /\ Slot(m) = t
    BY <1>1, OfLevel DEF Implicit
  <2>3. \A m \in Methods : Slot(m) = t <=> SlotIs(Methods, m, t)
    BY <1>2, SlotLink, SlotOnce
  <2> QED BY <2>1, <2>2, <2>3 DEF SaysOf
<1>4. ASSUME NEW t \in Slots, NEW x, LastIs(Methods, t, x)
      PROVE  LastWord(n, t) = x.owner
  <2> DEFINE Word(k) == SaysOf(k, t) # {} /\ \A j \in (k + 1)..n : SaysOf(j, t) = {}
  <2>1. x \in Methods /\ SlotIs(Methods, x, t) /\ \A y \in Methods : SlotIs(Methods, y, t) => y.owner <= x.owner
    BY <1>4 DEF LastIs
  <2>2. x.owner \in 1..n BY <2>1, <1>1, MethodFacts
  <2>3. Word(x.owner)
    <3>1. SaysOf(x.owner, t) # {} BY <2>1, <2>2, <1>3
    <3>2. ASSUME NEW j \in (x.owner + 1)..n PROVE SaysOf(j, t) = {}
      <4>1. j \in 1..n /\ ~(j <= x.owner) BY <2>2, <1>1
      <4> QED BY <4>1, <2>1, <1>3
    <3> QED BY <3>1, <3>2
  <2>4. ASSUME NEW k \in 1..n, Word(k) PROVE k = x.owner
    <3>1. PICK y \in Methods : y.owner = k /\ SlotIs(Methods, y, t) BY <2>4, <1>3
    <3>2. k <= x.owner BY <3>1, <2>1
    <3>3. x.owner \notin (k + 1)..n
      <4>1. SaysOf(x.owner, t) # {} BY <2>1, <2>2, <1>3
      <4> QED BY <4>1, <2>4
    <3> QED BY <3>2, <3>3, <2>2, <1>1
  <2>5. LastWord(n, t) = CHOOSE k \in 1..n : Word(k) BY DEF LastWord
  <2> HIDE DEF Word
  <2> QED BY <2>2, <2>3, <2>4, <2>5
<1>5. ASSUME NEW t \in Slots PROVE LastWord(n, t) \in 1..n
  <2>1. t \in Methods /\ OpensIn(Methods, t) BY OpensLink DEF Slots
  <2>2. SlotIs(Methods, t, t) BY <2>1 DEF SlotIs
  <2> DEFINE S == {y \in Methods : SlotIs(Methods, y, t)}
             O == {y.owner : y \in S}
  <2>3. O \subseteq Nat /\ O # {} /\ \A k \in O : k <= n BY <2>1, <2>2, MethodFacts
  <2>4. PICK k \in O : \A j \in O : j <= k
    <3> HIDE DEF O
    <3> QED BY <2>3, <1>1, Greatest
  <2>5. PICK x \in S : x.owner = k BY <2>4
  <2>6. LastIs(Methods, t, x) BY <2>4, <2>5 DEF LastIs
  <2>7. x.owner \in 1..n BY <2>5, <1>1, MethodFacts
  <2> QED BY <2>6, <2>7, <1>4
<1>6. \A t \in Slots : Redirect(n, t) = t BY <1>3, <1>5 DEF Redirect
<1>7. IsFiniteSet(Slots)
  <2>1. Slots \subseteq Methods BY DEF Slots
  <2> QED BY <2>1, FS_Subset
<1>8. Follow(n, s) = s BY <1>6, <1>7, FollowIs
<1>9. LastWord(n, s) = l.owner BY <1>4
<1>10. l \in Methods /\ SlotIs(Methods, l, s) /\ l.owner \in 1..n BY <1>1, MethodFacts DEF LastIs
<1>11. \A m \in Implicit(l.owner, s) : m = l BY <1>2, <1>3, <1>10, SlotSame
<1>12. l \in Implicit(l.owner, s) BY <1>3, <1>10
<1> QED BY <1>8, <1>9, <1>11, <1>12 DEF Runs

\* The table of a concrete class is good for all the methods of its chain.
LEMMA ConcreteTable ==
  ASSUME TableInv, Concrete
  PROVE  /\ Chain /\ Top = Len(classes) /\ AreMethods(Methods)
         /\ Good(tables[Top], Methods) /\ IsFiniteSet(Methods)
<1>1. Chain /\ Top = Len(classes) /\ Good(Base, Methods) /\ tables \in Seq(Range(tables))
  BY DEF TableInv, Concrete, Top
<1>2. Base = tables[Top] BY <1>1 DEF Base, Last, Top, Concrete
<1>3. IsFiniteSet(Methods) BY <1>1, FS_Subset DEF Good
<1> QED BY <1>1, <1>2, <1>3, MethodsAre

\* The loop of QueryCallVirtImpl ends for every entry of every table, for all
\* chains of classes of any length whose explicit overrides are those of
\* interface methods: a redirection leads to the opener of a slot, which is not
\* redirected, and its implementation leads back to it.
THEOREM EveryQueryEnds == Spec => [](InterfaceOverrides => QueriesEnd)
<1>1. TableInv => QueriesEnd BY ConcreteTable, QueryGood DEF QueriesEnd
<1> QED BY <1>1, TableInvariance, PTL

\* A virtual call of a class method runs the last override of its slot, for all
\* chains of classes whose explicit overrides are those of interface methods:
\* however they open, reuse and hide slots, in whatever order the methods of a
\* class are declared, and whatever interfaces are bound to the slots.
THEOREM CallsRunLastOverride == Spec => [](InterfaceOverrides => MostDerived)
<1>1. ASSUME InterfaceOverrides, TableInv, Concrete, NEW m \in Methods
      PROVE  Query(tables[Top], m) = [done |-> TRUE, at |-> Runs(Top, Slot(m))]
  <2> DEFINE T == tables[Top]
             s == Slot(m)
  <2>1. /\ Chain /\ Top = Len(classes) /\ AreMethods(Methods) /\ Good(T, Methods) /\ IsFiniteSet(Methods)
    BY <1>1, ConcreteTable
  <2>2. SlotIs(Methods, m, s) /\ s \in Slots /\ s \in Methods BY <2>1, SlotLink DEF Slots
  <2> HIDE DEF T, s
  <2>3. Query(T, m) = [done |-> TRUE, at |-> T.impl[s]] BY <2>1, <2>2, QueryGood
  <2>4. LastIs(Methods, s, T.impl[s])
    <3>1. SlotIs(Methods, s, s) BY <2>1, <2>2, SlotFacts, OwnSlot
    <3> QED BY <3>1, <2>1, <2>2 DEF Good
  <2>5. Runs(Top, s) = T.impl[s] BY <1>1, <2>1, <2>2, <2>4, RunsLast
  <2> QED BY <2>3, <2>5 DEF T, s
<1>2. InterfaceOverrides /\ TableInv => MostDerived BY <1>1 DEF MostDerived
<1> QED BY <1>2, TableInvariance, PTL

\* Interface entries. Entry e leads to the last override of the slot that o
\* opened, and is in this slot as long as the slot is there; every other slot it
\* is in was opened by a method of S.
Sits(T, M, e, o, S) ==
  /\ e \in DOMAIN T.impl /\ LastIs(M, o, T.impl[e])
  /\ \A g \in DOMAIN T.slots :
       /\ T.slots[g].first = o => e \in T.slots[g].entries
       /\ e \in T.slots[g].entries => T.slots[g].first \in S \cup {o}

\* e is in no slot,
Free(T, e) == \A g \in DOMAIN T.slots : e \notin T.slots[g].entries
\* and waits for none.
Absent(T, e) == \A g \in DOMAIN T.pending : e \notin T.pending[g]

\* The states of an entry: bound to the slot of o, never listed, left to a derived
\* class by an abstract one, or without implementation in a concrete class, which
\* is refused for it.
Bound(T, M, e, o, S) == Sits(T, M, e, o, S) /\ Absent(T, e)
Unbound(T, e) == e \notin DOMAIN T.impl /\ Free(T, e) /\ Absent(T, e)
Waits(T, e) == e \notin DOMAIN T.impl /\ Free(T, e) /\ e.sig \in DOMAIN T.pending /\ e \in T.pending[e.sig]
Doomed(T, e) == e \in DOMAIN T.impl /\ T.impl[e] = None /\ Free(T, e)

\* pending entries are by their signature
Sigs(T) == \A g \in DOMAIN T.pending : \A e \in T.pending[g] : e.sig = g
\* and a signature that has a slot has none
Apart(T) == DOMAIN T.pending \cap DOMAIN T.slots = {}

\* one of the first n classes lists an interface with e
Listed(n, e) == \E j \in 1..n : Lists(j, e)

\* what class k makes of a binding, and f[k] as the binding after class k
BindStep(k, e, prev, b) ==
  IF Overrides(k, e) # {} THEN b \in Overrides(k, e)
  ELSE IF Rebinds(k, e) THEN Near(Methods, k, e.sig, b)
  ELSE IF prev = None /\ Listed(k, e)
       THEN Near(Methods, k, e.sig, b) \/ (b = None /\ \A p \in Methods : ~(p.sig = e.sig /\ p.owner <= k))
  ELSE b = prev
BindingOf(f, e) == f[0] = None /\ \A k \in 1..Len(classes) : BindStep(k, e, f[k - 1], f[k])

\* class i neither overrides the slot of o nor binds an interface to it
Quiet(i, o) ==
  /\ \A y \in Methods : y.owner = i => ~SlotIs(Methods, y, o)
  /\ \A p \in DOMAIN classes[i].lists : o.sig \notin DOMAIN InterfaceSlots[classes[i].lists[p]]

\* what the property asks of an entry: no class that overrides it explicitly hides
\* a method it reuses, and a slot it is bound away from is left alone
Fair(e) ==
  /\ \A k \in DOMAIN classes : Hides(k) => Overrides(k, e) = {}
  /\ \A j \in DOMAIN classes : Rebinds(j, e) =>
       \A k \in 1..j : \A x \in Overrides(k, e) : \A o \in Methods :
         SlotIs(Methods, x, o) => \A i \in j..Len(classes) : Quiet(i, o)

\* the slots that keep an entry that was bound away
Stale(n, e) ==
  {o \in Methods : \E j \in 1..n : Rebinds(j, e) /\
     \E k \in 1..j : \E x \in Overrides(k, e) : SlotIs(Methods, x, o)}

\* e is bound to the slot of b, and to that of the current opener of its signature
Holds(T, M, e, b, n) ==
  /\ b \in M /\ (b.sig = e.sig \/ \E k \in 1..n : b \in Overrides(k, e))
  /\ \E o \in M : SlotIs(M, b, o) /\ Bound(T, M, e, o, Stale(n, e))
Joined(T, e, S) == \E o \in Methods : Current(Methods, e.sig, o) /\ Bound(T, Methods, e, o, S)

\* between two classes, the last of them n
Settled(T, M, e, b, n) ==
  /\ b # None => Holds(T, M, e, b, n)
  /\ b = None => IF Listed(n, e) THEN Waits(T, e) ELSE Unbound(T, e)

\* after the pending interfaces of class n + 1
Mid(T, e, prev, n) ==
  /\ prev # None => Holds(T, Methods, e, prev, n)
  /\ prev = None => IF Listed(n, e) THEN Waits(T, e) \/ Joined(T, e, {}) ELSE Unbound(T, e)

\* after the interfaces of class n
AfterInterfaces(T, e, prev, n) ==
  IF Rebinds(n, e) THEN Joined(T, e, Stale(n, e))
  ELSE /\ prev # None => Holds(T, Methods, e, prev, n - 1)
       /\ prev = None =>
            IF Listed(n, e) THEN Waits(T, e) \/ Joined(T, e, {}) \/ (~Class.abstract /\ Doomed(T, e))
            ELSE Unbound(T, e)

\* an interface of the class with e has had its turn
Turned(e) ==
  \E p \in DOMAIN Class.lists :
    /\ e.sig \in DOMAIN InterfaceSlots[Class.lists[p]] /\ e \in InterfaceSlots[Class.lists[p]][e.sig]
    /\ <<p, e.sig>> \notin left

\* the explicit overrides of e in class n so far
Claimed(e, n) ==
  \A k \in DOMAIN Class.methods : e \in Class.methods[k].overrides /\ <<k, e>> \notin left =>
    /\ e \in table.targets
    /\ \E o \in Methods : SlotIs(Methods, Method(n, Class.methods[k]), o) /\ Bound(table, Methods, e, o, {})
    /\ \A l \in DOMAIN Class.methods : l # k /\ e \in Class.methods[l].overrides => <<l, e>> \in left

\* how far class n = Len(classes) is with e, which class n - 1 has bound to prev
Progress(e, prev) ==
  LET n == Len(classes) IN
  /\ step = "methods" => Settled(table, Known, e, prev, n - 1)
  /\ step = "pending" => Mid(table, e, prev, n - 1)
  /\ step = "interfaces" /\ Overrides(n, e) = {} =>
       IF Turned(e) THEN AfterInterfaces(table, e, prev, n) ELSE Mid(table, e, prev, n - 1)
  /\ step = "overrides" =>
       IF Overrides(n, e) = {} THEN AfterInterfaces(table, e, prev, n) ELSE Claimed(e, n)

\* prev: what class n - 1 binds e to, b: what class n does
Claim(e, prev, b) ==
  IF step = "idle" THEN Settled(Base, Methods, e, b, Len(classes))
  ELSE Settled(Base, Under(Methods, Len(classes)), e, prev, Len(classes) - 1) /\ Progress(e, prev)

\* the part that is about no entry
Side ==
  /\ ~refused => Sigs(Base) /\ Apart(Base) /\ Sigs(table)
  /\ step = "methods" => table.pending = Base.pending
  /\ step = "pending" =>
       /\ left = DOMAIN table.pending \cap DOMAIN table.slots
       /\ DOMAIN table.pending \cap DOMAIN Base.slots = {}
  /\ step \in {"interfaces", "overrides"} => Apart(table)

\* The invariant: in each state the table says of an entry what the classes so far
\* bind it to, whichever function tells their binding.
BInv ==
  /\ Side
  /\ ~refused => \A e \in Entries : Fair(e) =>
       \A f, prev, b :
         BindingOf(f, e) /\ prev = f[Len(classes) - 1] /\ b = f[Len(classes)] => Claim(e, prev, b)

\* Two tables that say the same of an entry.
Alike(T, W, e) ==
  /\ e \in DOMAIN W.impl <=> e \in DOMAIN T.impl
  /\ e \in DOMAIN T.impl => W.impl[e] = T.impl[e]
  /\ DOMAIN W.slots = DOMAIN T.slots
  /\ \A g \in DOMAIN T.slots :
       /\ W.slots[g].first = T.slots[g].first
       /\ e \in W.slots[g].entries <=> e \in T.slots[g].entries
  /\ \A g : (g \in DOMAIN W.pending /\ e \in W.pending[g]) <=> (g \in DOMAIN T.pending /\ e \in T.pending[g])

\* They agree on its state.
LEMMA AlikeForms ==
  ASSUME NEW T, NEW W, NEW e, Alike(T, W, e)
  PROVE  /\ \A M, o, S : Bound(T, M, e, o, S) => Bound(W, M, e, o, S)
         /\ Unbound(T, e) => Unbound(W, e)
         /\ Waits(T, e) => Waits(W, e)
         /\ Doomed(T, e) => Doomed(W, e)
<1>1. Absent(T, e) => Absent(W, e) BY DEF Alike, Absent
<1>2. Free(T, e) => Free(W, e) BY DEF Alike, Free
<1>3. \A M, o, S : Sits(T, M, e, o, S) => Sits(W, M, e, o, S) BY DEF Alike, Sits
<1> QED BY <1>1, <1>2, <1>3 DEF Alike, Bound, Unbound, Waits, Doomed

\* What AddEntries does, field by field.
LEMMA AddEntriesIs ==
  ASSUME NEW M, NEW T, Good(T, M), NEW g \in DOMAIN T.slots, NEW E
  PROVE  LET W == AddEntries(T, g, E)
         IN  /\ DOMAIN W = Fields /\ DOMAIN W.slots = DOMAIN T.slots
             /\ \A h \in DOMAIN T.slots : h # g => W.slots[h] = T.slots[h]
             /\ W.slots[g].entries = T.slots[g].entries \cup E
             /\ W.slots[g].first = T.slots[g].first
             /\ DOMAIN W.impl = DOMAIN T.impl \cup (T.slots[g].entries \cup E)
             /\ \A e \in DOMAIN W.impl :
                  W.impl[e] = IF e \in T.slots[g].entries \cup E THEN T.slots[g].impl ELSE T.impl[e]
             /\ W.pending = T.pending /\ W.targets = T.targets
<1> DEFINE s == [T.slots[g] EXCEPT !.entries = @ \cup E]
           W == WithSlot(T, g, s)
<1>1. AddEntries(T, g, E) = W BY DEF AddEntries
<1>2. DOMAIN T.slots[g] = {"entries", "first", "impl"} /\ DOMAIN T = Fields BY DEF Good, SlotOK
<1>3. s.entries = T.slots[g].entries \cup E /\ s.first = T.slots[g].first /\ s.impl = T.slots[g].impl
  BY <1>2
<1> HIDE DEF s
<1>4. /\ DOMAIN W = Fields
      /\ W.slots = Put(T.slots, g, s)
      /\ W.impl = [e \in DOMAIN T.impl \cup s.entries |-> IF e \in s.entries THEN s.impl ELSE T.impl[e]]
      /\ W.pending = T.pending /\ W.targets = T.targets
  BY <1>2, WithSlotIs
<1> HIDE DEF W
<1>5. DOMAIN W.slots = DOMAIN T.slots /\ W.slots[g] = s /\ \A h \in DOMAIN T.slots : h # g => W.slots[h] = T.slots[h]
  BY <1>4 DEF Put
<1> QED BY <1>1, <1>3, <1>4, <1>5

\* An entry that is not added is where it was, and follows the methods of its slot.
LEMMA AddAlike ==
  ASSUME NEW M, NEW T, Good(T, M), NEW g \in DOMAIN T.slots, NEW E,
         NEW e, e \notin E, e \notin T.slots[g].entries
  PROVE  Alike(T, AddEntries(T, g, E), e)
<1> DEFINE W == AddEntries(T, g, E)
<1>1. /\ DOMAIN W.slots = DOMAIN T.slots
      /\ \A h \in DOMAIN T.slots : h # g => W.slots[h] = T.slots[h]
      /\ W.slots[g].entries = T.slots[g].entries \cup E
      /\ W.slots[g].first = T.slots[g].first
      /\ DOMAIN W.impl = DOMAIN T.impl \cup (T.slots[g].entries \cup E)
      /\ \A d \in DOMAIN W.impl :
           W.impl[d] = IF d \in T.slots[g].entries \cup E THEN T.slots[g].impl ELSE T.impl[d]
      /\ W.pending = T.pending
  BY AddEntriesIs
<1> HIDE DEF W
<1>2. \A h \in DOMAIN T.slots :
        W.slots[h].first = T.slots[h].first /\ (e \in W.slots[h].entries <=> e \in T.slots[h].entries)
  BY <1>1
<1>3. (e \in DOMAIN W.impl <=> e \in DOMAIN T.impl) /\ (e \in DOMAIN T.impl => W.impl[e] = T.impl[e])
  BY <1>1
<1> QED BY <1>1, <1>2, <1>3 DEF Alike, W

\* An entry that is bound stays so when others, or itself, join a slot.
LEMMA AddBound ==
  ASSUME NEW M, NEW T, Good(T, M), NEW g \in DOMAIN T.slots, NEW E, NEW e, e \notin E,
         NEW o, NEW S, Bound(T, M, e, o, S), T.slots[g].first \notin S
  PROVE  Bound(AddEntries(T, g, E), M, e, o, S)
<1>1. CASE e \notin T.slots[g].entries BY <1>1, AddAlike, AlikeForms
<1>2. CASE e \in T.slots[g].entries
  <2> DEFINE W == AddEntries(T, g, E)
  <2>1. /\ DOMAIN W.slots = DOMAIN T.slots
        /\ \A h \in DOMAIN T.slots : h # g => W.slots[h] = T.slots[h]
        /\ W.slots[g].entries = T.slots[g].entries \cup E
        /\ W.slots[g].first = T.slots[g].first
        /\ DOMAIN W.impl = DOMAIN T.impl \cup (T.slots[g].entries \cup E)
        /\ \A d \in DOMAIN W.impl :
             W.impl[d] = IF d \in T.slots[g].entries \cup E THEN T.slots[g].impl ELSE T.impl[d]
        /\ W.pending = T.pending
    BY AddEntriesIs
  <2> HIDE DEF W
  <2>2. T.slots[g].first = o BY <1>2 DEF Bound, Sits
  <2>3. e \in DOMAIN W.impl /\ W.impl[e] = T.slots[g].impl BY <1>2, <2>1
  <2>4. LastIs(M, o, W.impl[e]) BY <2>2, <2>3 DEF Good, SlotOK
  <2>5. \A h \in DOMAIN T.slots :
          W.slots[h].first = T.slots[h].first /\ (e \in W.slots[h].entries <=> e \in T.slots[h].entries)
    BY <1>2, <2>1
  <2>6. Sits(W, M, e, o, S) BY <2>1, <2>3, <2>4, <2>5 DEF Bound, Sits
  <2>7. Absent(W, e) BY <2>1 DEF Bound, Absent
  <2> QED BY <2>6, <2>7 DEF Bound, W
<1> QED BY <1>1, <1>2

\* An entry that is added leads to the last override of the slot.
LEMMA AddThis ==
  ASSUME NEW M, NEW T, Good(T, M), NEW g \in DOMAIN T.slots, NEW E, NEW e \in E,
         NEW S, \A h \in DOMAIN T.slots : e \in T.slots[h].entries => h = g \/ T.slots[h].first \in S
  PROVE  Sits(AddEntries(T, g, E), M, e, T.slots[g].first, S)
<1> DEFINE W == AddEntries(T, g, E)
           o == T.slots[g].first
<1>1. /\ DOMAIN W.slots = DOMAIN T.slots
      /\ \A h \in DOMAIN T.slots : h # g => W.slots[h] = T.slots[h]
      /\ W.slots[g].entries = T.slots[g].entries \cup E
      /\ W.slots[g].first = o
      /\ DOMAIN W.impl = DOMAIN T.impl \cup (T.slots[g].entries \cup E)
      /\ \A d \in DOMAIN W.impl :
           W.impl[d] = IF d \in T.slots[g].entries \cup E THEN T.slots[g].impl ELSE T.impl[d]
  BY AddEntriesIs
<1> HIDE DEF W
<1>2. e \in DOMAIN W.impl /\ W.impl[e] = T.slots[g].impl BY <1>1
<1>3. LastIs(M, o, W.impl[e]) BY <1>2 DEF Good, SlotOK
<1>4. \A h \in DOMAIN T.slots : T.slots[h].first.sig = h BY DEF Good, SlotOK, Current
<1>5. ASSUME NEW h \in DOMAIN W.slots
      PROVE  /\ W.slots[h].first = o => e \in W.slots[h].entries
             /\ e \in W.slots[h].entries => W.slots[h].first \in S \cup {o}
  <2>1. CASE h = g BY <2>1, <1>1
  <2>2. CASE h # g
    <3>1. W.slots[h] = T.slots[h] /\ h \in DOMAIN T.slots BY <2>2, <1>1
    <3>2. T.slots[h].first # o BY <3>1, <2>2, <1>4
    <3> QED BY <3>1, <3>2, <2>2
  <2> QED BY <2>1, <2>2
<1> QED BY <1>2, <1>3, <1>5 DEF Sits, W

-----------------------------------------------------------------------------
\* What RemoveSlotEntry does, and what it leaves of other entries and of its own.
LEMMA RemoveIs ==
  ASSUME NEW M, AreMethods(M), NEW T, Good(T, M), NEW x \in Entries
  PROVE  LET W == RemoveSlotEntry(T, x)
         IN  /\ DOMAIN W = Fields /\ DOMAIN W.slots = DOMAIN T.slots
             /\ \A g \in DOMAIN T.slots :
                  W.slots[g].first = T.slots[g].first /\ W.slots[g].entries = T.slots[g].entries \ {x}
             /\ W.impl = T.impl /\ W.targets = T.targets
             /\ DOMAIN W.pending = {g \in DOMAIN T.pending : T.pending[g] # {x}}
             /\ \A g \in DOMAIN W.pending : W.pending[g] = T.pending[g] \ {x}
<1> DEFINE W == RemoveSlotEntry(T, x)
           cut(s) == [s EXCEPT !.entries = @ \ {x}]
           slots == [g \in {g \in DOMAIN T.slots : cut(T.slots[g]).entries # {}} |-> cut(T.slots[g])]
           pending == [g \in {g \in DOMAIN T.pending : T.pending[g] # {x}} |-> T.pending[g] \ {x}]
<1>1. DOMAIN T = Fields BY DEF Good
<1>2. W = [T EXCEPT !.slots = slots, !.pending = pending]
  BY <1>1, FieldsAre DEF RemoveSlotEntry
<1>3. DOMAIN W.slots = DOMAIN T.slots BY RemoveGood
<1>4. \A g \in DOMAIN T.slots : cut(T.slots[g]).entries = T.slots[g].entries \ {x} /\ cut(T.slots[g]).first = T.slots[g].first
  BY DEF Good, SlotOK
<1> HIDE DEF cut
<1>5. /\ DOMAIN pending = {g \in DOMAIN T.pending : T.pending[g] # {x}}
      /\ \A g \in DOMAIN pending : pending[g] = T.pending[g] \ {x}
  OBVIOUS
<1>6. \A g \in DOMAIN slots : slots[g] = cut(T.slots[g]) OBVIOUS
<1> HIDE DEF slots, pending
<1>7. DOMAIN W = Fields /\ W.slots = slots /\ W.pending = pending /\ W.impl = T.impl /\ W.targets = T.targets
  BY <1>1, <1>2, FieldsAre
<1> HIDE DEF W
<1>8. \A g \in DOMAIN T.slots :
        W.slots[g].first = T.slots[g].first /\ W.slots[g].entries = T.slots[g].entries \ {x}
  BY <1>3, <1>4, <1>6, <1>7
<1> QED BY <1>3, <1>5, <1>7, <1>8 DEF W

LEMMA RemoveAlike ==
  ASSUME NEW M, AreMethods(M), NEW T, Good(T, M), NEW x \in Entries, NEW e, e # x
  PROVE  Alike(T, RemoveSlotEntry(T, x), e)
<1> DEFINE W == RemoveSlotEntry(T, x)
<1>1. /\ DOMAIN W.slots = DOMAIN T.slots
      /\ \A g \in DOMAIN T.slots :
           W.slots[g].first = T.slots[g].first /\ W.slots[g].entries = T.slots[g].entries \ {x}
      /\ W.impl = T.impl
      /\ DOMAIN W.pending = {g \in DOMAIN T.pending : T.pending[g] # {x}}
      /\ \A g \in DOMAIN W.pending : W.pending[g] = T.pending[g] \ {x}
  BY RemoveIs
<1> HIDE DEF W
<1>2. \A g \in DOMAIN T.pending : e \in T.pending[g] => T.pending[g] # {x} OBVIOUS
<1>3. \A g : (g \in DOMAIN W.pending /\ e \in W.pending[g]) <=> (g \in DOMAIN T.pending /\ e \in T.pending[g])
  BY <1>1, <1>2
<1> QED BY <1>1, <1>3 DEF Alike, W

LEMMA RemoveThis ==
  ASSUME NEW M, AreMethods(M), NEW T, Good(T, M), NEW x \in Entries
  PROVE  Free(RemoveSlotEntry(T, x), x) /\ Absent(RemoveSlotEntry(T, x), x)
BY RemoveIs DEF Free, Absent

-----------------------------------------------------------------------------
\* What BindInherited does, for the entries it is given and for others.
LEMMA BindInheritedIs ==
  ASSUME NEW M, NEW T, Good(T, M), NEW g, g \notin DOMAIN T.slots, NEW E, E # {}
  PROVE  LET W == BindInherited(T, g, E)
         IN  /\ W.slots = T.slots /\ W.targets = T.targets
             /\ Class.abstract =>
                  /\ W.impl = T.impl
                  /\ DOMAIN W.pending = DOMAIN T.pending \cup {g}
                  /\ \A h \in DOMAIN T.pending : h # g => W.pending[h] = T.pending[h]
                  /\ W.pending[g] = E \cup (IF g \in DOMAIN T.pending THEN T.pending[g] ELSE {})
             /\ ~Class.abstract =>
                  /\ W.pending = T.pending
                  /\ DOMAIN W.impl = DOMAIN T.impl \cup E
                  /\ \A e \in DOMAIN W.impl : W.impl[e] = IF e \in E THEN None ELSE T.impl[e]
<1>1. DOMAIN T = Fields BY DEF Good
<1>2. CASE Class.abstract
  <2> DEFINE more == E \cup (IF g \in DOMAIN T.pending THEN T.pending[g] ELSE {})
             W == [T EXCEPT !.pending = Put(@, g, more)]
  <2>1. BindInherited(T, g, E) = W BY <1>1, <1>2, FieldsAre DEF BindInherited
  <2> HIDE DEF more
  <2>2. W.slots = T.slots /\ W.targets = T.targets /\ W.impl = T.impl /\ W.pending = Put(T.pending, g, more)
    BY <1>1, FieldsAre
  <2> HIDE DEF W
  <2> QED BY <1>2, <2>1, <2>2 DEF Put, more
<1>3. CASE ~Class.abstract
  <2> DEFINE W == [T EXCEPT !.impl = [e \in DOMAIN @ \cup E |-> IF e \in E THEN None ELSE @[e]]]
  <2>1. BindInherited(T, g, E) = W BY <1>3 DEF BindInherited
  <2>2. /\ W.slots = T.slots /\ W.targets = T.targets /\ W.pending = T.pending
        /\ W.impl = [e \in DOMAIN T.impl \cup E |-> IF e \in E THEN None ELSE T.impl[e]]
    BY <1>1, FieldsAre
  <2> HIDE DEF W
  <2> QED BY <1>3, <2>1, <2>2
<1> QED BY <1>2, <1>3

\* Interfaces that find no slot leave alone the entries that are not theirs.
LEMMA InheritAlike ==
  ASSUME NEW M, NEW T, Good(T, M), NEW g, g \notin DOMAIN T.slots, NEW E, E # {}, NEW e, e \notin E
  PROVE  Alike(T, BindInherited(T, g, E), e)
BY BindInheritedIs DEF Alike

LEMMA InheritThis ==
  ASSUME NEW M, NEW T, Good(T, M), NEW g, g \notin DOMAIN T.slots, NEW E, NEW e \in E,
         Free(T, e), e \notin DOMAIN T.impl, e.sig = g
  PROVE  IF Class.abstract THEN Waits(BindInherited(T, g, E), e) ELSE Doomed(BindInherited(T, g, E), e)
BY BindInheritedIs DEF Waits, Doomed, Free

\* ExpandNewSlots is about methods.
LEMMA ExpandAlike ==
  ASSUME NEW M, NEW T, Good(T, M), NEW e
  PROVE  Alike(T, ExpandNewSlots(T), e) /\ ExpandNewSlots(T).pending = T.pending
         /\ ExpandNewSlots(T).slots = T.slots /\ ExpandNewSlots(T).impl = T.impl
<1>1. DOMAIN T = Fields BY DEF Good
<1>2. LET W == ExpandNewSlots(T) IN W.impl = T.impl /\ W.slots = T.slots /\ W.pending = T.pending
  BY <1>1, FieldsAre DEF ExpandNewSlots
<1> QED BY <1>2 DEF Alike

\* ProcessMethod changes one slot, which the new method has: what is in it, and
\* what opened it.
Reuses(B, d) == d.kind = "reuse" /\ d.sig \in DOMAIN B.slots
EntriesOf(B, n, d) == IF Reuses(B, d) THEN B.slots[d.sig].entries \cup {Method(n, d)} ELSE {Method(n, d)}
FirstOf(B, n, d) == IF Reuses(B, d) THEN B.slots[d.sig].first ELSE Method(n, d)

\* What ProcessMethod does, field by field.
LEMMA ProcessIs ==
  ASSUME NEW M, NEW N, NEW n, NEW d, NEW B, NEW T,
         Grows(M, N, Method(n, d)), Good(T, M), Good(B, Under(M, n))
  PROVE  LET W == ProcessMethod(T, B, n, d)
         IN  /\ DOMAIN W.slots = DOMAIN T.slots \cup {d.sig}
             /\ \A g \in DOMAIN T.slots : g # d.sig => W.slots[g] = T.slots[g]
             /\ W.slots[d.sig].entries = EntriesOf(B, n, d)
             /\ W.slots[d.sig].first = FirstOf(B, n, d)
             /\ DOMAIN W.impl = DOMAIN T.impl \cup EntriesOf(B, n, d)
             /\ \A e \in DOMAIN W.impl : W.impl[e] = IF e \in EntriesOf(B, n, d) THEN Method(n, d) ELSE T.impl[e]
             /\ W.pending = T.pending /\ W.targets = T.targets
             /\ SlotIs(N, Method(n, d), FirstOf(B, n, d))
<1> DEFINE m == Method(n, d)
           W == ProcessMethod(T, B, n, d)
           reuses == d.kind = "reuse" /\ d.sig \in DOMAIN B.slots
           opened == d.kind = "reuse" /\ ~reuses
           s == IF reuses THEN [B.slots[d.sig] EXCEPT !.entries = @ \cup {m}, !.impl = m]
                ELSE [entries |-> {m}, first |-> m, impl |-> m]
           U == IF opened THEN [T EXCEPT !.promoted = @ \cup {m}] ELSE T
           V == Under(M, n)
<1>1. W = WithSlot(U, d.sig, s) BY DEF ProcessMethod
<1>2. m.owner = n /\ m.sig = d.sig /\ m.kind = d.kind BY DEF Method
<1>3. /\ N = M \cup {m} /\ AreMethods(N) /\ AreMethods(M) /\ n \in Nat \ {0}
      /\ m.kind \in Kinds
  BY <1>2 DEF Grows, AreMethods
<1> HIDE DEF m
<1>4. /\ DOMAIN U = Fields /\ U.slots = T.slots /\ U.impl = T.impl
      /\ U.pending = T.pending /\ U.targets = T.targets
  <2>1. DOMAIN T = Fields BY DEF Good
  <2> QED BY <2>1, FieldsAre
<1>5. V \subseteq M BY <1>3, UnderMethods
<1>6. DOMAIN B.slots = {p.sig : p \in V} BY DEF Good
<1>7. OpensIn(N, m) <=> ~reuses
  <2>1. \A p \in N : p.owner < n <=> p \in V BY <1>2, <1>3 DEF Under, AreMethods
  <2>2. OpensIn(N, m) <=> d.kind = "new" \/ \A p \in V : p.sig # d.sig
    BY <1>2, <1>3, <2>1, <1>5 DEF OpensIn
  <2> QED BY <2>2, <1>2, <1>3, <1>6 DEF Kinds
<1>8. reuses => SlotOK(V, d.sig, B.slots[d.sig]) BY DEF Good
<1>9. /\ s.entries = IF reuses THEN B.slots[d.sig].entries \cup {m} ELSE {m}
      /\ s.first = IF reuses THEN B.slots[d.sig].first ELSE m
      /\ s.impl = m
  BY <1>8 DEF SlotOK
<1>10. SlotIs(N, m, s.first)
  <2>1. CASE reuses
    <3>1. Under(N, n) = V BY <1>2, <1>3 DEF Under
    <3>2. Current(V, d.sig, s.first) BY <2>1, <1>8, <1>9 DEF SlotOK
    <3> QED BY <2>1, <3>1, <3>2, <1>2, <1>7 DEF SlotIs
  <2>2. CASE ~reuses BY <2>2, <1>7, <1>9 DEF SlotIs
  <2> QED BY <2>1, <2>2
<1> HIDE DEF s, U, W
<1>11. /\ W.slots = Put(T.slots, d.sig, s)
       /\ W.impl = [e \in DOMAIN T.impl \cup s.entries |-> IF e \in s.entries THEN s.impl ELSE T.impl[e]]
       /\ W.pending = T.pending /\ W.targets = T.targets
  BY <1>1, <1>4, WithSlotIs
<1>12. /\ DOMAIN W.slots = DOMAIN T.slots \cup {d.sig} /\ W.slots[d.sig] = s
       /\ \A g \in DOMAIN T.slots : g # d.sig => W.slots[g] = T.slots[g]
  BY <1>11 DEF Put
<1>13. s.entries = EntriesOf(B, n, d) /\ s.first = FirstOf(B, n, d)
  BY <1>9 DEF EntriesOf, FirstOf, Reuses, m
<1>14. DOMAIN W.impl = DOMAIN T.impl \cup s.entries /\ \A e \in DOMAIN W.impl : W.impl[e] = IF e \in s.entries THEN m ELSE T.impl[e]
  BY <1>9, <1>11
<1> QED BY <1>10, <1>11, <1>12, <1>13, <1>14 DEF W, m

\* An entry follows its slot when a method overrides it, and stays with the last
\* override when one hides it.
LEMMA ProcessSits ==
  ASSUME NEW M, NEW N, NEW n, NEW d, NEW B, NEW T,
         Grows(M, N, Method(n, d)), Good(T, M), Good(B, Under(M, n)),
         NEW e \in Entries, NEW o, NEW S, Sits(T, M, e, o, S), Sits(B, Under(M, n), e, o, S),
         \A p \in S : ~SlotIs(N, Method(n, d), p)
  PROVE  Sits(ProcessMethod(T, B, n, d), N, e, o, S)
<1> DEFINE W == ProcessMethod(T, B, n, d)
           m == Method(n, d)
           E == EntriesOf(B, n, d)
           q == FirstOf(B, n, d)
<1>1. /\ DOMAIN W.slots = DOMAIN T.slots \cup {d.sig}
      /\ \A g \in DOMAIN T.slots : g # d.sig => W.slots[g] = T.slots[g]
      /\ W.slots[d.sig].entries = E
      /\ W.slots[d.sig].first = q
      /\ DOMAIN W.impl = DOMAIN T.impl \cup E
      /\ \A x \in DOMAIN W.impl : W.impl[x] = IF x \in E THEN m ELSE T.impl[x]
      /\ W.pending = T.pending
      /\ SlotIs(N, m, q)
  BY ProcessIs
<1>0. /\ E = IF Reuses(B, d) THEN B.slots[d.sig].entries \cup {m} ELSE {m}
      /\ q = IF Reuses(B, d) THEN B.slots[d.sig].first ELSE m
  BY DEF EntriesOf, FirstOf
<1> HIDE DEF W, E, q
<1>2. Grows(M, N, m) OBVIOUS
<1> HIDE DEF m
<1>3. AreMethods(N) /\ AreMethods(M) /\ m \in N /\ m \notin M BY <1>2 DEF Grows, AreMethods
<1>4. e # m BY <1>3, EntriesApart
<1>5. e \in DOMAIN T.impl /\ LastIs(M, o, T.impl[e]) BY DEF Sits
<1>6. o \in M BY <1>5, <1>3, SlotFacts DEF LastIs
<1>7. \A x : SlotIs(N, m, x) => x = q BY <1>1, <1>3, SlotOnce
<1>8. e \in E => d.sig \in DOMAIN B.slots /\ e \in B.slots[d.sig].entries /\ q = B.slots[d.sig].first
  BY <1>0, <1>4 DEF Reuses
<1>9. e \in E => q = o
  <2>1. SUFFICES ASSUME e \in E PROVE q = o OBVIOUS
  <2>2. q \in S \cup {o} BY <2>1, <1>8 DEF Sits
  <2>3. q \notin S BY <1>1 DEF m
  <2> QED BY <2>2, <2>3
<1>10. q = o => e \in E
  <2>1. SUFFICES ASSUME q = o PROVE e \in E OBVIOUS
  <2>2. d.sig \in DOMAIN B.slots /\ q = B.slots[d.sig].first /\ B.slots[d.sig].entries \subseteq E
    BY <2>1, <1>0, <1>6, <1>3 DEF Reuses
  <2> QED BY <2>1, <2>2 DEF Sits
<1>11. LastIs(N, o, W.impl[e])
  <2>1. CASE e \in E
    <3>1. W.impl[e] = m /\ q = o BY <2>1, <1>1, <1>9
    <3> QED BY <3>1, <1>1, <1>2, GrowLastNew
  <2>2. CASE e \notin E
    <3>1. W.impl[e] = T.impl[e] /\ ~SlotIs(N, m, o) BY <2>2, <1>1, <1>5, <1>7, <1>10
    <3> QED BY <3>1, <1>2, <1>5, GrowLast
  <2> QED BY <2>1, <2>2
<1>12. ASSUME NEW g \in DOMAIN W.slots
       PROVE  /\ W.slots[g].first = o => e \in W.slots[g].entries
              /\ e \in W.slots[g].entries => W.slots[g].first \in S \cup {o}
  <2>1. CASE g = d.sig
    <3> QED BY <2>1, <1>1, <1>9, <1>10
  <2>2. CASE g # d.sig
    <3>1. W.slots[g] = T.slots[g] /\ g \in DOMAIN T.slots BY <2>2, <1>1
    <3> QED BY <3>1 DEF Sits
  <2> QED BY <2>1, <2>2
<1>13. e \in DOMAIN W.impl BY <1>1, <1>5
<1> QED BY <1>11, <1>12, <1>13 DEF Sits, W

\* An entry that is in no slot stays out of that of a method.
LEMMA ProcessFree ==
  ASSUME NEW M, NEW N, NEW n, NEW d, NEW B, NEW T,
         Grows(M, N, Method(n, d)), Good(T, M), Good(B, Under(M, n)),
         NEW e \in Entries, Free(T, e), Free(B, e), e \notin DOMAIN T.impl
  PROVE  LET W == ProcessMethod(T, B, n, d) IN Free(W, e) /\ e \notin DOMAIN W.impl /\ W.pending = T.pending
<1> DEFINE W == ProcessMethod(T, B, n, d)
           m == Method(n, d)
           E == EntriesOf(B, n, d)
           q == FirstOf(B, n, d)
<1>1. /\ DOMAIN W.slots = DOMAIN T.slots \cup {d.sig}
      /\ \A g \in DOMAIN T.slots : g # d.sig => W.slots[g] = T.slots[g]
      /\ W.slots[d.sig].entries = E
      /\ W.slots[d.sig].first = q
      /\ DOMAIN W.impl = DOMAIN T.impl \cup E
      /\ \A x \in DOMAIN W.impl : W.impl[x] = IF x \in E THEN m ELSE T.impl[x]
      /\ W.pending = T.pending
      /\ SlotIs(N, m, q)
  BY ProcessIs
<1>0. /\ E = IF Reuses(B, d) THEN B.slots[d.sig].entries \cup {m} ELSE {m}
      /\ q = IF Reuses(B, d) THEN B.slots[d.sig].first ELSE m
  BY DEF EntriesOf, FirstOf
<1> HIDE DEF W, E, q
<1>2. AreMethods(N) /\ m \in N BY DEF Grows
<1>3. e # m BY <1>2, EntriesApart
<1>4. e \notin E BY <1>0, <1>3 DEF Free, Reuses
<1>5. \A g \in DOMAIN W.slots : e \notin W.slots[g].entries BY <1>1, <1>4 DEF Free
<1> QED BY <1>1, <1>4, <1>5 DEF Free, W

\* A method that is the nearest of its signature has the slot that is current,
\* and so has any method of the last class, unless the slot was opened there.
LEMMA NearSlot ==
  ASSUME NEW M, AreMethods(M), NEW n \in Nat, \A p \in M : p.owner <= n,
         NEW g, NEW b, Near(M, n, g, b), NEW o, Current(M, g, o)
  PROVE  SlotIs(M, b, o)
<1>1. b \in M /\ b.sig = g /\ b.owner \in Nat /\ o \in M /\ o.owner \in Nat /\ b.kind \in Kinds
  BY DEF AreMethods, Near, Current
<1>2. \A p \in M : p.sig = g => p.owner < b.owner \/ p = b \/ (p.owner = b.owner /\ b.kind = "new")
  BY DEF Near
<1>3. CASE OpensIn(M, b)
  <2>1. Current(M, g, b) BY <1>1, <1>2, <1>3 DEF Current
  <2>2. b = o BY <2>1, CurrentOnce
  <2> QED BY <2>2, <1>3 DEF SlotIs
<1>4. CASE ~OpensIn(M, b)
  <2>1. b.kind # "new" /\ o # b BY <1>4 DEF OpensIn, Current
  <2>2. o.owner < b.owner BY <1>1, <1>2, <2>1 DEF Current
  <2> DEFINE U == Under(M, b.owner)
  <2>3. o \in U BY <2>2, <1>1 DEF Under
  <2>4. \A p \in U : OpensIn(U, p) <=> OpensIn(M, p)
    <3> SUFFICES ASSUME NEW p \in U PROVE OpensIn(U, p) <=> OpensIn(M, p) OBVIOUS
    <3>1. p \in M /\ p.owner <= b.owner BY <1>1 DEF Under, AreMethods
    <3> QED BY <3>1, <1>1, UnderOpens
  <2>5. Current(U, g, o)
    <3>1. o.sig = g /\ OpensIn(U, o) BY <2>3, <2>4 DEF Current
    <3>2. \A p \in U : p.sig = g /\ OpensIn(U, p) =>
            p.owner < o.owner \/ p = o \/ (p.owner = o.owner /\ o.kind = "new")
      BY <2>4 DEF Current, Under
    <3> QED BY <2>3, <3>1, <3>2 DEF Current
  <2> QED BY <1>1, <1>4, <2>5 DEF SlotIs
<1> QED BY <1>3, <1>4

LEMMA CurrentSlot ==
  ASSUME NEW M, AreMethods(M), NEW m \in M, \A p \in M : p.owner <= m.owner,
         NEW o, Current(M, m.sig, o), o.owner # m.owner \/ o = m
  PROVE  SlotIs(M, m, o)
<1>1. CASE o = m BY <1>1 DEF Current, SlotIs
<1>2. CASE o # m
  <2>1. o \in M /\ o.owner < m.owner BY <1>2 DEF Current, AreMethods
  <2>2. ~OpensIn(M, m) BY <2>1, <1>2 DEF Current, AreMethods
  <2> DEFINE U == Under(M, m.owner)
  <2>3. o \in U BY <2>1 DEF Under
  <2>4. \A p \in U : OpensIn(U, p) <=> OpensIn(M, p)
    <3> SUFFICES ASSUME NEW p \in U PROVE OpensIn(U, p) <=> OpensIn(M, p) OBVIOUS
    <3>1. p \in M /\ p.owner <= m.owner /\ m.owner \in Nat BY DEF Under, AreMethods
    <3> QED BY <3>1, UnderOpens
  <2>5. Current(U, m.sig, o)
    <3>1. o.sig = m.sig /\ OpensIn(U, o) BY <2>3, <2>4 DEF Current
    <3>2. \A p \in U : p.sig = m.sig /\ OpensIn(U, p) =>
            p.owner < o.owner \/ p = o \/ (p.owner = o.owner /\ o.kind = "new")
      BY <2>4 DEF Current, Under
    <3> QED BY <2>3, <3>1, <3>2 DEF Current
  <2> QED BY <2>2, <2>5 DEF SlotIs
<1> QED BY <1>1, <1>2

\* Slots of methods do not depend on later classes.
LEMMA SlotUnder ==
  ASSUME NEW M, NEW N, M \subseteq N, NEW m \in M, m.owner \in Nat,
         Under(M, m.owner) = Under(N, m.owner), NEW o
  PROVE  SlotIs(M, m, o) <=> SlotIs(N, m, o)
<1>1. \A p : p \in M /\ p.owner < m.owner <=> p \in N /\ p.owner < m.owner BY DEF Under
<1>2. OpensIn(M, m) <=> OpensIn(N, m) BY <1>1 DEF OpensIn
<1> QED BY <1>2 DEF SlotIs

\* What overrides an entry explicitly is a method of its class.
LEMMA OverridesAre ==
  ASSUME Chain, NEW k \in DOMAIN classes, NEW t, NEW x \in Overrides(k, t)
  PROVE  /\ x \in Methods /\ x.owner = k
         /\ \E l \in DOMAIN classes[k].methods : x = Method(k, classes[k].methods[l]) /\ t \in classes[k].methods[l].overrides
<1>1. PICK d \in Range(classes[k].methods) : x = Method(k, d) /\ t \in d.overrides BY DEF Overrides
<1>2. x \in Methods BY <1>1 DEF Methods, MethodsOf
<1>3. x.owner = k BY <1>1, MethodIs
<1> QED BY <1>1, <1>2, <1>3 DEF Range

\* One class more: nothing changes for the classes before.
Longer(class) == Chain /\ classes' = Append(classes, class) /\ class \in Declarations

\* One class more changes nothing of what is said of those before:
LEMMA LongerFacts ==
  ASSUME NEW class, Longer(class)
  PROVE  /\ Len(classes) \in Nat /\ DOMAIN classes = 1..Len(classes)
         /\ Chain' /\ Len(classes') = Len(classes) + 1 /\ DOMAIN classes' = 1..(Len(classes) + 1)
         /\ classes'[Len(classes) + 1] = class
         /\ \A k \in DOMAIN classes :
              /\ k \in DOMAIN classes' /\ classes'[k] = classes[k] /\ MethodsOf(k)' = MethodsOf(k)
              /\ Hides(k)' = Hides(k)
              /\ \A t : Overrides(k, t)' = Overrides(k, t)
              /\ \A e : Lists(k, e)' = Lists(k, e) /\ Rebinds(k, e)' = Rebinds(k, e)
         /\ Methods \subseteq Methods' /\ \A m \in Methods' : m \in Methods <=> m.owner <= Len(classes)
<1>1. Len(classes) \in Nat /\ DOMAIN classes = 1..Len(classes) BY DEF Longer, Chain
<1>2. /\ classes' \in Seq(Declarations) /\ Len(classes') = Len(classes) + 1 /\ DOMAIN classes' = 1..(Len(classes) + 1)
      /\ \A k \in 1..Len(classes) : classes'[k] = classes[k]
      /\ classes'[Len(classes) + 1] = class
  BY <1>1 DEF Longer, Chain
<1>3. ASSUME NEW k \in DOMAIN classes
      PROVE  /\ k \in DOMAIN classes' /\ classes'[k] = classes[k] /\ MethodsOf(k)' = MethodsOf(k)
             /\ Hides(k)' = Hides(k)
             /\ \A t : Overrides(k, t)' = Overrides(k, t)
             /\ \A e : Lists(k, e)' = Lists(k, e) /\ Rebinds(k, e)' = Rebinds(k, e)
  <2>1. k \in DOMAIN classes' /\ classes'[k] = classes[k] BY <1>1, <1>2
  <2>2. MethodsOf(k)' = MethodsOf(k) BY <2>1 DEF MethodsOf
  <2>3. Hides(k)' = Hides(k) BY <2>1 DEF Hides
  <2>4. \A t : Overrides(k, t)' = Overrides(k, t) BY <2>1 DEF Overrides
  <2>5. \A e : Lists(k, e)' = Lists(k, e) BY <2>1 DEF Lists
  <2>6. \A g : Declares(k, g)' = Declares(k, g) BY <2>2 DEF Declares
  <2>7. \A e : Rebinds(k, e)' = Rebinds(k, e) BY <2>4, <2>5, <2>6 DEF Rebinds
  <2> QED BY <2>1, <2>2, <2>3, <2>4, <2>5, <2>7
<1>4. Methods \subseteq Methods' BY <1>3 DEF Methods
<1>5. ASSUME NEW m \in Methods' PROVE m \in Methods <=> m.owner <= Len(classes)
  <2>1. PICK k \in DOMAIN classes' : m \in MethodsOf(k)' BY DEF Methods
  <2>2. m.owner = k BY <2>1, MethodIs DEF MethodsOf
  <2>3. ASSUME m \in Methods PROVE m.owner <= Len(classes) BY <2>3, <1>1, MethodFacts DEF Longer
  <2>4. ASSUME m.owner <= Len(classes) PROVE m \in Methods
    <3>1. k \in DOMAIN classes BY <2>1, <2>2, <2>4, <1>1, <1>2
    <3> QED BY <3>1, <2>1, <1>3 DEF Methods
  <2> QED BY <2>3, <2>4
<1> QED BY <1>1, <1>2, <1>3, <1>4, <1>5 DEF Chain

\* of the slots of their methods,
LEMMA LongerSlots ==
  ASSUME NEW class, Longer(class)
  PROVE  /\ AreMethods(Methods) /\ AreMethods(Methods')
         /\ Under(Methods', Len(classes) + 1) = Methods
         /\ \A o : \A m \in Methods : SlotIs(Methods', m, o) <=> SlotIs(Methods, m, o)
<1>1. AreMethods(Methods) BY MethodsAre DEF Longer
<1>2. AreMethods(Methods')
  <2>1. \A m \in Methods' : m = [owner |-> m.owner, sig |-> m.sig, kind |-> m.kind] /\ m.owner \in Nat \ {0} /\ m.kind \in Kinds
    <3> SUFFICES ASSUME NEW m \in Methods'
                 PROVE  m = [owner |-> m.owner, sig |-> m.sig, kind |-> m.kind] /\ m.owner \in Nat \ {0} /\ m.kind \in Kinds
      OBVIOUS
    <3>1. PICK k \in DOMAIN classes' : m \in MethodsOf(k)' BY DEF Methods
    <3>2. k \in Nat \ {0} /\ classes'[k] \in Declarations BY LongerFacts DEF Chain
    <3>3. PICK l \in DOMAIN classes'[k].methods : m = Method(k, classes'[k].methods[l])
      BY <3>1 DEF MethodsOf, Range
    <3>4. classes'[k].methods[l].kind \in Kinds BY <3>2, <3>3, DeclarationAssumption DEF Kinds
    <3>5. m.owner = k /\ m.kind = classes'[k].methods[l].kind BY <3>3, MethodIs
    <3>6. m = [owner |-> m.owner, sig |-> m.sig, kind |-> m.kind] BY <3>3 DEF Method
    <3> QED BY <3>2, <3>4, <3>5, <3>6
  <2> QED BY <2>1 DEF AreMethods
<1>3. Under(Methods', Len(classes) + 1) = Methods
  <2>1. \A m \in Methods' : m.owner < Len(classes) + 1 <=> m \in Methods BY <1>2, LongerFacts DEF AreMethods
  <2> QED BY <2>1, LongerFacts DEF Under
<1>4. ASSUME NEW m \in Methods, NEW o PROVE SlotIs(Methods', m, o) <=> SlotIs(Methods, m, o)
  <2>1. m.owner \in Nat /\ m.owner <= Len(classes) BY <1>1, LongerFacts DEF AreMethods
  <2>2. Methods \subseteq Methods' BY LongerFacts
  <2>3. \A p \in Methods' : p.owner < m.owner => p \in Methods BY <2>1, <1>2, LongerFacts DEF AreMethods
  <2>4. Under(Methods, m.owner) = Under(Methods', m.owner) BY <2>2, <2>3 DEF Under
  <2> QED BY <2>1, <2>2, <2>4, SlotUnder
<1> QED BY <1>1, <1>2, <1>3, <1>4

\* of what they list,
LEMMA ListedStays ==
  ASSUME NEW class, Longer(class), NEW n \in Nat, n <= Len(classes), NEW e
  PROVE  Listed(n, e)' = Listed(n, e)
<1>1. \A j \in 1..n : j \in DOMAIN classes BY LongerFacts
<1>2. \A j \in 1..n : Lists(j, e)' = Lists(j, e) BY <1>1, LongerFacts
<1> QED BY <1>2 DEF Listed

\* of the slots that keep an entry,
LEMMA StaleStays ==
  ASSUME NEW class, Longer(class), NEW n \in Nat, n <= Len(classes), NEW e
  PROVE  Stale(n, e)' = Stale(n, e)
<1>1. ASSUME NEW j \in 1..n, NEW k \in 1..j
      PROVE  /\ Rebinds(j, e)' = Rebinds(j, e) /\ Overrides(k, e)' = Overrides(k, e)
             /\ \A o : \A x \in Overrides(k, e) : SlotIs(Methods', x, o) <=> SlotIs(Methods, x, o)
  <2>1. j \in DOMAIN classes /\ k \in DOMAIN classes BY LongerFacts
  <2>2. \A x \in Overrides(k, e) : x \in Methods BY <2>1, OverridesAre DEF Longer
  <2> QED BY <2>1, <2>2, LongerFacts, LongerSlots
<1>2. ASSUME NEW j \in 1..n, NEW k \in 1..j, NEW x \in Overrides(k, e), NEW o, SlotIs(Methods, x, o)
      PROVE  o \in Methods
  <2>1. k \in DOMAIN classes BY LongerFacts
  <2>2. x \in Methods BY <2>1, OverridesAre DEF Longer
  <2> QED BY <2>2, <1>2, LongerSlots, SlotFacts
<1>3. Methods \subseteq Methods' BY LongerFacts
<1> DEFINE P(o) == \E j \in 1..n : Rebinds(j, e) /\ \E k \in 1..j : \E x \in Overrides(k, e) : SlotIs(Methods, x, o)
           Q(o) == \E j \in 1..n : Rebinds(j, e)' /\ \E k \in 1..j : \E x \in Overrides(k, e)' : SlotIs(Methods', x, o)
<1>4. \A o : Q(o) <=> P(o) BY <1>1
<1>5. \A o : P(o) => o \in Methods BY <1>2
<1>6. Stale(n, e) = {o \in Methods : P(o)} BY DEF Stale
<1>7. Stale(n, e)' = {o \in Methods' : Q(o)} BY DEF Stale
<1> HIDE DEF P, Q
<1> QED BY <1>3, <1>4, <1>5, <1>6, <1>7

\* of what they bind;
LEMMA BindingShorter ==
  ASSUME NEW class, Longer(class), NEW e, NEW f, BindingOf(f, e)'
  PROVE  BindingOf(f, e)
<1>1. ASSUME NEW k \in 1..Len(classes) PROVE BindStep(k, e, f[k - 1], f[k])
  <2>1. k \in DOMAIN classes /\ k \in 1..Len(classes') /\ k \in Nat /\ k <= Len(classes) BY LongerFacts
  <2>2. BindStep(k, e, f[k - 1], f[k])' BY <2>1 DEF BindingOf
  <2>3. Overrides(k, e)' = Overrides(k, e) /\ Rebinds(k, e)' = Rebinds(k, e) /\ Listed(k, e)' = Listed(k, e)
    BY <2>1, LongerFacts, ListedStays
  <2>4. \A p : p \in Methods' /\ p.owner <= k <=> p \in Methods /\ p.owner <= k
    BY <2>1, LongerFacts, LongerSlots DEF AreMethods
  <2>5. \A g, b : Near(Methods', k, g, b) <=> Near(Methods, k, g, b) BY <2>4 DEF Near
  <2> QED BY <2>2, <2>3, <2>4, <2>5 DEF BindStep
<1> QED BY <1>1 DEF BindingOf

\* and what is asked of the longer chain holds of the shorter.
LEMMA FairShorter ==
  ASSUME NEW class, Longer(class), NEW e, Fair(e)'
  PROVE  Fair(e)
<1>1. \A k \in DOMAIN classes : Hides(k) => Overrides(k, e) = {} BY LongerFacts DEF Fair
<1>2. ASSUME NEW j \in DOMAIN classes, Rebinds(j, e), NEW k \in 1..j, NEW x \in Overrides(k, e),
             NEW o \in Methods, SlotIs(Methods, x, o), NEW i \in j..Len(classes)
      PROVE  Quiet(i, o)
  <2>1. j \in DOMAIN classes' /\ k \in DOMAIN classes /\ i \in DOMAIN classes /\ i \in j..Len(classes') BY LongerFacts
  <2>2. x \in Methods BY <2>1, OverridesAre DEF Longer
  <2>3. Rebinds(j, e)' /\ x \in Overrides(k, e)' /\ o \in Methods' /\ SlotIs(Methods', x, o)
    BY <2>1, <2>2, <1>2, LongerFacts, LongerSlots
  <2>4. Quiet(i, o)' BY <2>1, <2>3 DEF Fair
  <2>5. \A y \in Methods : y \in Methods' /\ (SlotIs(Methods', y, o) <=> SlotIs(Methods, y, o))
    BY LongerFacts, LongerSlots
  <2>6. classes'[i] = classes[i] BY <2>1, LongerFacts
  <2> QED BY <2>4, <2>5, <2>6 DEF Quiet
<1> QED BY <1>1, <1>2 DEF Fair

\* The classes that keep an entry that was bound away are before the one that
\* bound it, and nothing later touches their slots.
LEMMA StaleBelow ==
  ASSUME Chain, NEW n \in Nat, n <= Len(classes), NEW e, NEW o \in Stale(n, e)
  PROVE  o \in Methods /\ o.owner < n
<1>1. PICK j \in 1..n : Rebinds(j, e) /\ \E k \in 1..j : \E x \in Overrides(k, e) : SlotIs(Methods, x, o)
  BY DEF Stale
<1>2. PICK k \in 1..j : \E x \in Overrides(k, e) : SlotIs(Methods, x, o) BY <1>1
<1>3. PICK x \in Overrides(k, e) : SlotIs(Methods, x, o) BY <1>2
<1>4. Overrides(j, e) = {} BY <1>1 DEF Rebinds
<1>5. k # j BY <1>3, <1>4
<1>6. Len(classes) \in Nat /\ DOMAIN classes = 1..Len(classes) BY DEF Chain
<1>7. k \in DOMAIN classes BY <1>6
<1>8. x \in Methods /\ x.owner = k BY <1>7, OverridesAre
<1>9. o \in Methods /\ o.owner <= k BY <1>3, <1>8, MethodsAre, SlotFacts
<1>10. o.owner \in Nat BY <1>9, MethodsAre DEF AreMethods
<1> QED BY <1>5, <1>9, <1>10

\* Nothing touches them,
LEMMA StaleQuiet ==
  ASSUME Chain, NEW e, Fair(e), NEW n \in DOMAIN classes, NEW m \in Nat, m <= n, NEW o \in Stale(m, e)
  PROVE  Quiet(n, o)
<1>1. Len(classes) \in Nat /\ DOMAIN classes = 1..Len(classes) BY DEF Chain
<1>2. o \in Methods BY DEF Stale
<1>3. PICK j \in 1..m : Rebinds(j, e) /\ \E k \in 1..j : \E x \in Overrides(k, e) : SlotIs(Methods, x, o)
  BY DEF Stale
<1>4. j \in DOMAIN classes /\ n \in j..Len(classes) BY <1>1
<1> QED BY <1>2, <1>3, <1>4 DEF Fair

\* they stay stale,
LEMMA StaleGrows ==
  ASSUME NEW n \in Nat \ {0}, NEW e
  PROVE  /\ Stale(n - 1, e) \subseteq Stale(n, e)
         /\ ~Rebinds(n, e) => Stale(n, e) = Stale(n - 1, e)
<1>1. 1..n = 1..(n - 1) \cup {n} OBVIOUS
<1> QED BY <1>1 DEF Stale

\* and the slots an entry was bound to explicitly are stale once a class rebinds it.
LEMMA StaleOwn ==
  ASSUME NEW n \in Nat \ {0}, NEW e, Rebinds(n, e), NEW k \in 1..n, NEW x \in Overrides(k, e),
         NEW o \in Methods, SlotIs(Methods, x, o)
  PROVE  o \in Stale(n, e)
<1>1. n \in 1..n OBVIOUS
<1> QED BY <1>1 DEF Stale

\* The claims hold of more stale slots and of longer chains.
LEMMA BoundMore ==
  ASSUME NEW T, NEW M, NEW e, NEW o, NEW S, NEW R, S \subseteq R, Bound(T, M, e, o, S)
  PROVE  Bound(T, M, e, o, R)
BY DEF Bound, Sits

LEMMA HoldsMore ==
  ASSUME NEW T, NEW M, NEW e, NEW b, NEW n \in Nat \ {0}, Holds(T, M, e, b, n - 1)
  PROVE  Holds(T, M, e, b, n)
<1>1. PICK o \in M : SlotIs(M, b, o) /\ Bound(T, M, e, o, Stale(n - 1, e)) BY DEF Holds
<1>2. Bound(T, M, e, o, Stale(n, e)) BY <1>1, StaleGrows, BoundMore
<1>3. \A k : k \in 1..(n - 1) => k \in 1..n OBVIOUS
<1> QED BY <1>1, <1>2, <1>3 DEF Holds

\* An entry is listed by class n or by one before.
LEMMA ListedGrows ==
  ASSUME NEW n \in Nat \ {0}, NEW e
  PROVE  Listed(n, e) <=> Listed(n - 1, e) \/ Lists(n, e)
<1>1. 1..n = 1..(n - 1) \cup {n} OBVIOUS
<1> QED BY <1>1 DEF Listed

\* A class that lists an entry lists it by its signature.
LEMMA ListsBySig ==
  ASSUME NEW n, classes[n] \in Declarations, NEW e
  PROVE  Lists(n, e) <=> \E p \in DOMAIN classes[n].lists :
           /\ e.sig \in DOMAIN InterfaceSlots[classes[n].lists[p]]
           /\ e \in InterfaceSlots[classes[n].lists[p]][e.sig]
<1>1. classes[n].lists \in Seq(DOMAIN InterfaceSlots) BY DeclarationAssumption
<1>2. \A i \in DOMAIN InterfaceSlots : \A s \in DOMAIN InterfaceSlots[i] : e \in InterfaceSlots[i][s] => e.sig = s
  BY DeclarationAssumption
<1>3. \A p \in DOMAIN classes[n].lists : classes[n].lists[p] \in DOMAIN InterfaceSlots BY <1>1
<1> QED BY <1>2, <1>3 DEF Lists, Range

-----------------------------------------------------------------------------
\* Steps that leave the chain leave all that is said of the declarations alone.
LEMMA SameWorld ==
  ASSUME classes' = classes
  PROVE  /\ Methods' = Methods /\ Class' = Class
         /\ \A k, e : /\ Overrides(k, e)' = Overrides(k, e) /\ Rebinds(k, e)' = Rebinds(k, e)
                      /\ Listed(k, e)' = Listed(k, e) /\ Stale(k, e)' = Stale(k, e)
         /\ \A e : Fair(e)' = Fair(e)
         /\ \A e, f : BindingOf(f, e)' = BindingOf(f, e)
<1>1. Methods' = Methods /\ Class' = Class BY SameChain
<1>2. \A k, e : Overrides(k, e)' = Overrides(k, e) BY DEF Overrides
<1>3. \A k, e : Lists(k, e)' = Lists(k, e) BY DEF Lists
<1>4. \A k, g : Declares(k, g)' = Declares(k, g) BY DEF Declares, MethodsOf
<1>5. \A k, e : Rebinds(k, e)' = Rebinds(k, e) BY <1>2, <1>3, <1>4 DEF Rebinds
<1>6. \A k, e : Listed(k, e)' = Listed(k, e) BY <1>3 DEF Listed
<1>7. \A k, e : Stale(k, e)' = Stale(k, e) BY <1>1, <1>2, <1>5 DEF Stale
<1>8. \A i, o : Quiet(i, o)' = Quiet(i, o) BY <1>1 DEF Quiet
<1>9. \A k : Hides(k)' = Hides(k) BY DEF Hides
<1>10. \A e : Fair(e)' = Fair(e) BY <1>1, <1>2, <1>5, <1>8, <1>9 DEF Fair
<1>11. \A k, e, prev, b : BindStep(k, e, prev, b)' = BindStep(k, e, prev, b)
  BY <1>1, <1>2, <1>5, <1>6 DEF BindStep
<1>12. \A e, f : BindingOf(f, e)' = BindingOf(f, e) BY <1>11 DEF BindingOf
<1> QED BY <1>1, <1>2, <1>5, <1>6, <1>7, <1>10, <1>12

\* Equal states make equal claims.
LEMMA SameMid ==
  ASSUME classes' = classes, NEW e, NEW prev, NEW n
  PROVE  Mid(table, e, prev, n)' <=> Mid(table', e, prev, n)
BY SameWorld DEF Mid, Holds, Joined

LEMMA SameAfter ==
  ASSUME classes' = classes, NEW e, NEW prev, NEW n
  PROVE  AfterInterfaces(table, e, prev, n)' <=> AfterInterfaces(table', e, prev, n)
BY SameWorld DEF AfterInterfaces, Holds, Joined

LEMMA SameSettled ==
  ASSUME classes' = classes, NEW e, NEW b, NEW n
  PROVE  /\ Settled(table, Known, e, b, n)' <=> Settled(table', Known', e, b, n)
         /\ Settled(Base, Methods, e, b, n)' <=> Settled(Base', Methods', e, b, n)
         /\ \A k : Settled(Base, Under(Methods, k), e, b, n)' <=> Settled(Base', Under(Methods', k), e, b, n)
BY SameWorld DEF Settled, Holds

\* The first loop: an entry goes with the methods of its slot, and no method of
\* the class has a slot that should have lost it.
LEMMA ImplicitClaim ==
  ASSUME TableInv, OverrideImplicitly, NEW n \in Nat, n = Len(classes), NEW e \in Entries, Fair(e), NEW prev,
         Settled(Base, Under(Methods, n), e, prev, n - 1), Progress(e, prev)
  PROVE  Progress(e, prev)'
<1> DEFINE C == Class
<1>1. step = "methods" BY DEF OverrideImplicitly
<1>2. PICK k \in left :
        /\ table' = ProcessMethod(table, Base, n, C.methods[k])
        /\ Known' = Known \cup {Method(n, C.methods[k])}
        /\ Grows(Known, Known', Method(n, C.methods[k])) /\ Method(n, C.methods[k]) \in Methods
  BY ImplicitStep
<1>3. Under(Known, n) = Under(Methods, n) /\ Known \subseteq Methods /\ UNCHANGED <<classes, tables, refused, step>>
  BY ImplicitStep
<1> HIDE DEF C
<1> DEFINE d == C.methods[k]
           m == Method(n, d)
           S == Stale(n - 1, e)
<1>4. m.owner = n BY MethodIs
<1>5. /\ Chain /\ n \in DOMAIN classes /\ n \in Nat \ {0} /\ AreMethods(Methods)
      /\ Good(table, Known) /\ Good(Base, Under(Known, n))
  BY <1>1, <1>3, Resolving DEF Chain
<1>6. Settled(table, Known, e, prev, n - 1) BY <1>1 DEF Progress
<1>7. \A p \in S : ~SlotIs(Known', m, p)
  <2> SUFFICES ASSUME NEW p \in S, SlotIs(Known', m, p) PROVE FALSE OBVIOUS
  <2>1. Under(Known', n) = Under(Methods, n) BY <1>2, <1>3, <1>4, <1>5 DEF Under
  <2>2. SlotIs(Methods, m, p) BY <2>1, <1>2, <1>3, <1>4, SlotUnder
  <2>3. Quiet(n, p) BY <1>5, StaleQuiet
  <2> QED BY <2>2, <2>3, <1>2, <1>4 DEF Quiet
<1>8. table'.pending = table.pending BY <1>2, <1>5, ProcessIs
<1>9. CASE prev # None
  <2>1. Holds(table, Known, e, prev, n - 1) /\ Holds(Base, Under(Known, n), e, prev, n - 1)
    BY <1>3, <1>6, <1>9 DEF Settled
  <2>2. PICK o \in Known : SlotIs(Known, prev, o) /\ Bound(table, Known, e, o, S) BY <2>1 DEF Holds
  <2>3. PICK q \in Under(Known, n) : SlotIs(Under(Known, n), prev, q) /\ Bound(Base, Under(Known, n), e, q, S)
    BY <2>1 DEF Holds
  <2>4. prev \in Under(Known, n) /\ prev \in Known /\ prev.owner \in Nat /\ prev.owner < n
    BY <2>1, <1>3, <1>5 DEF Holds, Under, AreMethods
  <2>5. Under(Under(Known, n), prev.owner) = Under(Known, prev.owner)
    <3>1. \A p \in Known : p.owner \in Nat BY <1>3, <1>5 DEF AreMethods
    <3> QED BY <2>4, <3>1 DEF Under
  <2>6. Under(Known, n) \subseteq Known BY DEF Under
  <2>7. SlotIs(Known, prev, q) BY <2>3, <2>4, <2>5, <2>6, SlotUnder
  <2>8. AreMethods(Known) BY <1>3, <1>5 DEF AreMethods
  <2>9. q = o BY <2>2, <2>7, <2>8, SlotOnce
  <2>10. Sits(table', Known', e, o, S) BY <2>2, <2>3, <2>9, <1>2, <1>5, <1>7, ProcessSits DEF Bound
  <2>11. Absent(table', e) BY <2>2, <1>8 DEF Bound, Absent
  <2>12. SlotIs(Known', prev, o) /\ o \in Known' /\ prev \in Known' BY <2>2, <2>4, <1>2, GrowSlot DEF Grows
  <2>13. Holds(table', Known', e, prev, n - 1) BY <2>1, <2>10, <2>11, <2>12 DEF Holds, Bound
  <2>14. Settled(table', Known', e, prev, n - 1) BY <2>13, <1>9 DEF Settled
  <2> QED BY <2>14, <1>1, <1>3, SameSettled DEF Progress
<1>10. CASE prev = None
  <2>1. IF Listed(n - 1, e) THEN Waits(table, e) /\ Waits(Base, e) ELSE Unbound(table, e) /\ Unbound(Base, e)
    BY <1>6, <1>10 DEF Settled
  <2>2. Free(table, e) /\ Free(Base, e) /\ e \notin DOMAIN table.impl BY <2>1 DEF Waits, Unbound
  <2>3. Free(table', e) /\ e \notin DOMAIN table'.impl BY <2>2, <1>2, <1>5, ProcessFree
  <2>4. IF Listed(n - 1, e) THEN Waits(table', e) ELSE Unbound(table', e)
    BY <2>1, <2>3, <1>8 DEF Waits, Unbound, Absent
  <2>5. Settled(table', Known', e, prev, n - 1) BY <2>4, <1>10 DEF Settled
  <2> QED BY <2>5, <1>1, <1>3, SameSettled DEF Progress
<1> QED BY <1>9, <1>10

\* The methods are done: what waits for a signature that has a slot now is next.
LEMMA StartPendingClaim ==
  ASSUME TableInv, StartPending, NEW n \in Nat, n = Len(classes), NEW e \in Entries, NEW prev, Progress(e, prev)
  PROVE  Progress(e, prev)'
<1>1. step = "methods" /\ left = {} /\ step' = "pending" /\ classes' = classes /\ table' = table
  BY DEF StartPending
<1>2. Known = Methods BY <1>1 DEF Known
<1>3. Settled(table, Methods, e, prev, n - 1) BY <1>1, <1>2 DEF Progress
<1>4. Mid(table', e, prev, n - 1) BY <1>1, <1>3 DEF Settled, Mid
<1> QED BY <1>1, <1>4, SameMid DEF Progress

\* What BindPending does.
LEMMA PendingIs ==
  ASSUME NEW M, NEW T, Good(T, M), NEW g \in DOMAIN T.slots
  PROVE  LET U == AddEntries(T, g, T.pending[g])
             W == [U EXCEPT !.pending = Without(@, {g})]
         IN  /\ W.slots = U.slots /\ W.impl = U.impl
             /\ DOMAIN W.pending = DOMAIN T.pending \ {g}
             /\ \A h \in DOMAIN W.pending : W.pending[h] = T.pending[h]
<1> DEFINE U == AddEntries(T, g, T.pending[g])
           W == [U EXCEPT !.pending = Without(@, {g})]
<1>1. DOMAIN U = Fields /\ U.pending = T.pending BY AddEntriesIs
<1> HIDE DEF U
<1>2. W.slots = U.slots /\ W.impl = U.impl /\ W.pending = Without(T.pending, {g}) BY <1>1, FieldsAre
<1> QED BY <1>2 DEF Without, U

\* What waits for a slot gets it, and the others stay where they are.
LEMMA BindPendingClaim ==
  ASSUME TableInv, Side, BindPending, NEW n \in Nat, n = Len(classes), NEW e \in Entries, NEW prev,
         Progress(e, prev)
  PROVE  Progress(e, prev)'
<1>1. PICK s \in left :
        /\ table' = [AddEntries(table, s, table.pending[s]) EXCEPT !.pending = Without(@, {s})]
        /\ UNCHANGED <<classes, tables, refused, step>>
  BY DEF BindPending
<1>2. step = "pending" /\ Mid(table, e, prev, n - 1) BY DEF BindPending, Progress
<1>3. /\ Chain /\ n \in Nat \ {0} /\ AreMethods(Methods) /\ ~refused
      /\ Good(table, Methods) /\ Good(Base, Under(Methods, n))
  BY <1>2, Resolving DEF Chain
<1>4. s \in DOMAIN table.slots /\ s \in DOMAIN table.pending /\ s \notin DOMAIN Base.slots /\ Sigs(table)
  BY <1>2, <1>3 DEF Side
<1> DEFINE T == table
           E == T.pending[s]
           U == AddEntries(T, s, E)
           W == [U EXCEPT !.pending = Without(@, {s})]
           q == T.slots[s].first
           S == Stale(n - 1, e)
<1>5. /\ W.slots = U.slots /\ W.impl = U.impl
      /\ DOMAIN W.pending = DOMAIN T.pending \ {s}
      /\ \A h \in DOMAIN W.pending : W.pending[h] = T.pending[h]
  BY <1>3, <1>4, PendingIs
<1>6. table' = W BY <1>1
<1> HIDE DEF W
<1>7. \A o, R : Sits(U, Methods, e, o, R) => Sits(W, Methods, e, o, R) BY <1>5 DEF Sits
<1>8. Free(U, e) /\ e \notin DOMAIN U.impl => Free(W, e) /\ e \notin DOMAIN W.impl BY <1>5 DEF Free
<1>9. Absent(T, e) => Absent(W, e) /\ e \notin E BY <1>4, <1>5 DEF Absent
<1>10. Current(Methods, s, q) BY <1>3, <1>4 DEF Good, SlotOK
<1>11. q \notin S
  <2>1. q \in Methods /\ q.sig = s BY <1>10 DEF Current
  <2>2. q \notin Under(Methods, n) BY <2>1, <1>3, <1>4 DEF Good
  <2>3. n - 1 \in Nat /\ n - 1 <= Len(classes) BY <1>3
  <2>4. q \in S => q.owner < n - 1 BY <2>3, <1>3, StaleBelow
  <2> QED BY <2>1, <2>2, <2>4, <1>3 DEF Under, AreMethods
<1>12. \A o, R : Bound(T, Methods, e, o, R) /\ q \notin R => Bound(W, Methods, e, o, R)
  BY <1>3, <1>4, <1>7, <1>9, AddBound DEF Bound
<1>13. Unbound(T, e) => Unbound(W, e)
  <2> HAVE Unbound(T, e)
  <2>1. Free(T, e) /\ e \notin E /\ Absent(W, e) BY <1>9 DEF Unbound
  <2>2. Alike(T, U, e) BY <2>1, <1>3, <1>4, AddAlike DEF Free
  <2>3. Unbound(U, e) BY <2>2, AlikeForms
  <2> QED BY <2>1, <2>3, <1>8 DEF Unbound
<1>14. Waits(T, e) => Waits(W, e) \/ Joined(W, e, {})
  <2> HAVE Waits(T, e)
  <2>1. CASE e.sig = s
    <3>1. e \in E /\ Free(T, e) BY <2>1 DEF Waits
    <3>2. Sits(U, Methods, e, q, {}) BY <3>1, <1>3, <1>4, AddThis DEF Free
    <3>3. Absent(W, e) BY <2>1, <1>4, <1>5 DEF Sigs, Absent
    <3>4. Bound(W, Methods, e, q, {}) BY <3>2, <3>3, <1>7 DEF Bound
    <3> QED BY <2>1, <3>4, <1>10 DEF Joined, Current
  <2>2. CASE e.sig # s
    <3>1. e \notin E BY <2>2, <1>4 DEF Sigs
    <3>2. Alike(T, U, e) BY <3>1, <1>3, <1>4, AddAlike DEF Waits, Free
    <3>3. Waits(U, e) BY <3>2, AlikeForms
    <3>4. Waits(W, e) BY <3>3, <1>5, <1>8, <2>2 DEF Waits
    <3> QED BY <3>4
  <2> QED BY <2>1, <2>2
<1>15. Mid(W, e, prev, n - 1)
  <2>1. CASE prev # None
    <3>1. Holds(T, Methods, e, prev, n - 1) BY <2>1, <1>2 DEF Mid
    <3>2. Holds(W, Methods, e, prev, n - 1) BY <3>1, <1>11, <1>12 DEF Holds
    <3> QED BY <2>1, <3>2 DEF Mid
  <2>2. CASE prev = None
    <3>1. Joined(T, e, {}) => Joined(W, e, {}) BY <1>12 DEF Joined
    <3> QED BY <2>2, <3>1, <1>2, <1>13, <1>14 DEF Mid
  <2> QED BY <2>1, <2>2
<1> HIDE DEF T
<1> QED BY <1>1, <1>2, <1>6, <1>15, SameMid DEF Progress

\* No interface of the class has had its turn.
LEMMA StartInterfacesClaim ==
  ASSUME TableInv, StartInterfaces, NEW n \in Nat, n = Len(classes), NEW e \in Entries, NEW prev, Progress(e, prev)
  PROVE  Progress(e, prev)'
<1>1. /\ step = "pending" /\ step' = "interfaces" /\ classes' = classes /\ table' = table
      /\ left' = UNION {{p} \X DOMAIN InterfaceSlots[Class.lists[p]] : p \in DOMAIN Class.lists}
  BY DEF StartInterfaces
<1>2. Mid(table, e, prev, n - 1) BY <1>1 DEF Progress
<1>3. ~Turned(e)'
  <2>1. \A p \in DOMAIN Class.lists : \A s \in DOMAIN InterfaceSlots[Class.lists[p]] : <<p, s>> \in left' BY <1>1
  <2>2. Class' = Class BY <1>1, SameWorld
  <2> QED BY <2>1, <2>2 DEF Turned
<1> QED BY <1>1, <1>2, <1>3, SameMid DEF Progress

\* When all interfaces had their turn, the entries that the class lists had it.
LEMMA StartOverridesClaim ==
  ASSUME TableInv, StartOverrides, NEW n \in Nat, n = Len(classes), NEW e \in Entries, NEW prev, Progress(e, prev)
  PROVE  Progress(e, prev)'
<1>1. /\ step = "interfaces" /\ left = {} /\ step' = "overrides" /\ classes' = classes /\ table' = table
      /\ left' = UNION {{k} \X Class.methods[k].overrides : k \in DOMAIN Class.methods}
  BY DEF StartOverrides
<1>2. Chain /\ n \in Nat \ {0} /\ Class = classes[n] /\ Class \in Declarations BY <1>1, Resolving DEF Chain
<1>3. CASE Overrides(n, e) = {}
  <2>1. Turned(e) <=> Lists(n, e) BY <1>1, <1>2, ListsBySig DEF Turned
  <2>2. CASE Turned(e) BY <2>2, <1>1, <1>3, SameAfter, SameWorld DEF Progress
  <2>3. CASE ~Turned(e)
    <3>1. Mid(table, e, prev, n - 1) BY <2>3, <1>1, <1>3 DEF Progress
    <3>2. ~Rebinds(n, e) BY <2>1, <2>3 DEF Rebinds
    <3>3. Listed(n, e) <=> Listed(n - 1, e) BY <2>1, <2>3, <1>2, ListedGrows
    <3>4. AfterInterfaces(table', e, prev, n) BY <3>1, <3>2, <3>3, <1>1 DEF Mid, AfterInterfaces
    <3> QED BY <3>4, <1>1, <1>3, SameAfter, SameWorld DEF Progress
  <2> QED BY <2>2, <2>3
<1>4. CASE Overrides(n, e) # {}
  <2>1. \A k \in DOMAIN Class.methods : e \in Class.methods[k].overrides => <<k, e>> \in left' BY <1>1
  <2>2. Claimed(e, n)' BY <2>1, <1>1, SameWorld DEF Claimed
  <2> QED BY <2>2, <1>1, <1>4, SameWorld DEF Progress
<1> QED BY <1>3, <1>4

\* Binding a signature of an interface leaves the entries that are not bound,
\* and follows the slot for those that are in it already.
LEMMA BindOther ==
  ASSUME NEW M, NEW T, Good(T, M), NEW s, DeclaresSig(Class, s) => s \in DOMAIN T.slots,
         NEW E, NEW e, e \notin E \/ (~DeclaresSig(Class, s) /\ e \in DOMAIN T.impl)
  PROVE  LET W == BindSignature(T, s, E)
         IN  /\ \A o, S : Bound(T, M, e, o, S) /\ (s \in DOMAIN T.slots => T.slots[s].first \notin S)
                            => Bound(W, M, e, o, S)
             /\ Unbound(T, e) => Unbound(W, e)
             /\ Waits(T, e) => Waits(W, e)
             /\ Doomed(T, e) => Doomed(W, e)
<1> DEFINE W == BindSignature(T, s, E)
           F == IF DeclaresSig(Class, s) THEN E ELSE E \ DOMAIN T.impl
<1>1. e \notin F OBVIOUS
<1>2. W = IF DeclaresSig(Class, s) THEN AddEntries(T, s, F) ELSE BindInherited(T, s, F) BY DEF BindSignature
<1> HIDE DEF W, F
<1>3. CASE ~DeclaresSig(Class, s) /\ F = {}
  <2>1. W = T BY <1>2, <1>3 DEF BindInherited
  <2> QED BY <2>1 DEF W
<1>4. CASE s \in DOMAIN T.slots /\ ~(~DeclaresSig(Class, s) /\ F = {})
  <2>1. W = AddEntries(T, s, F) BY <1>2, <1>4 DEF BindInherited
  <2>2. \A o, S : Bound(T, M, e, o, S) /\ T.slots[s].first \notin S => Bound(W, M, e, o, S)
    BY <2>1, <1>1, <1>4, AddBound
  <2>3. Free(T, e) => Alike(T, W, e) BY <2>1, <1>1, <1>4, AddAlike DEF Free
  <2>4. /\ Unbound(T, e) => Unbound(W, e)
        /\ Waits(T, e) => Waits(W, e)
        /\ Doomed(T, e) => Doomed(W, e)
    BY <2>3, AlikeForms DEF Unbound, Waits, Doomed
  <2> QED BY <2>2, <2>4, <1>4 DEF W
<1>5. CASE s \notin DOMAIN T.slots /\ ~(~DeclaresSig(Class, s) /\ F = {})
  <2>1. W = BindInherited(T, s, F) /\ F # {} BY <1>2, <1>5
  <2>2. Alike(T, W, e) BY <2>1, <1>1, <1>5, InheritAlike
  <2> QED BY <2>2, AlikeForms DEF W
<1> QED BY <1>3, <1>4, <1>5

\* An entry of the signature, in a class that declares it.
LEMMA BindOwn ==
  ASSUME NEW n \in Nat \ {0}, n = Len(classes), Chain, NEW T, Good(T, Methods), Apart(T),
         NEW e, e \in Entries, NEW s, s = e.sig, s \in DOMAIN T.slots, Rebinds(n, e),
         NEW E, e \in E, DeclaresSig(Class, s), NEW prev,
         Mid(T, e, prev, n - 1) \/ AfterInterfaces(T, e, prev, n)
  PROVE  Joined(BindSignature(T, s, E), e, Stale(n, e))
<1> DEFINE W == AddEntries(T, s, E)
           q == T.slots[s].first
           S == Stale(n, e)
<1>1. BindSignature(T, s, E) = W BY DEF BindSignature
<1>2. AreMethods(Methods) BY MethodsAre
<1>3. Current(Methods, s, q) BY DEF Good, SlotOK
<1>4. \A h \in DOMAIN T.slots : T.slots[h].first.sig = h BY DEF Good, SlotOK, Current
<1>5. /\ \A h \in DOMAIN T.slots : e \in T.slots[h].entries => h = s \/ T.slots[h].first \in S
      /\ Absent(T, e)
  <2>1. CASE AfterInterfaces(T, e, prev, n)
    <3>1. PICK o \in Methods : Current(Methods, e.sig, o) /\ Bound(T, Methods, e, o, S) BY <2>1 DEF AfterInterfaces, Joined
    <3> QED BY <3>1, <1>4 DEF Bound, Sits, Current
  <2>2. CASE Mid(T, e, prev, n - 1) /\ prev # None
    <3>1. Holds(T, Methods, e, prev, n - 1) BY <2>2 DEF Mid
    <3>2. PICK o \in Methods : SlotIs(Methods, prev, o) /\ Bound(T, Methods, e, o, Stale(n - 1, e))
      BY <3>1 DEF Holds
    <3>3. Stale(n - 1, e) \subseteq S BY StaleGrows
    <3>4. o.sig = s \/ o \in S
      <4>1. CASE prev.sig = e.sig BY <4>1, <3>1, <3>2, <1>2, SlotFacts DEF Holds
      <4>2. CASE prev.sig # e.sig
        <5>1. PICK k \in 1..(n - 1) : prev \in Overrides(k, e) BY <4>2, <3>1 DEF Holds
        <5>2. k \in 1..n OBVIOUS
        <5> QED BY <5>1, <5>2, <3>2, StaleOwn
      <4> QED BY <4>1, <4>2
    <3> QED BY <3>2, <3>3, <3>4, <1>4 DEF Bound, Sits
  <2>3. CASE Mid(T, e, prev, n - 1) /\ prev = None
    <3>1. ~Waits(T, e) BY DEF Apart, Waits
    <3>2. Unbound(T, e) \/ Joined(T, e, {}) BY <2>3, <3>1 DEF Mid
    <3>3. CASE Unbound(T, e) BY <3>3 DEF Unbound, Free
    <3>4. CASE Joined(T, e, {})
      <4>1. PICK o \in Methods : Current(Methods, e.sig, o) /\ Bound(T, Methods, e, o, {}) BY <3>4 DEF Joined
      <4> QED BY <4>1, <1>4 DEF Bound, Sits, Current
    <3> QED BY <3>2, <3>3, <3>4
  <2> QED BY <2>1, <2>2, <2>3
<1>6. Sits(W, Methods, e, q, S) BY <1>5, AddThis
<1>7. W.pending = T.pending BY AddEntriesIs
<1>8. Bound(W, Methods, e, q, S) BY <1>5, <1>6, <1>7 DEF Bound, Absent
<1> HIDE DEF W
<1> QED BY <1>1, <1>3, <1>8 DEF Joined, Current

\* An entry of the signature, in a class that inherits what it binds.
LEMMA BindOld ==
  ASSUME NEW n \in Nat \ {0}, n = Len(classes), Chain, NEW T, Good(T, Methods), Apart(T),
         NEW e, e \in Entries, NEW s, s = e.sig, Listed(n, e), ~Rebinds(n, e),
         NEW E, e \in E, ~DeclaresSig(Class, s), NEW prev,
         Mid(T, e, prev, n - 1) \/ AfterInterfaces(T, e, prev, n),
         s \in DOMAIN T.slots => T.slots[s].first \notin Stale(n - 1, e)
  PROVE  AfterInterfaces(BindSignature(T, s, E), e, prev, n)
<1> DEFINE W == BindSignature(T, s, E)
           F == E \ DOMAIN T.impl
<1>1. e \in DOMAIN T.impl =>
        /\ \A o, S : Bound(T, Methods, e, o, S) /\ (s \in DOMAIN T.slots => T.slots[s].first \notin S)
                       => Bound(W, Methods, e, o, S)
        /\ Doomed(T, e) => Doomed(W, e)
  BY BindOther
<1>2. W = BindInherited(T, s, F) BY DEF BindSignature
<1> HIDE DEF W
<1>3. CASE prev # None
  <2>1. Holds(T, Methods, e, prev, n - 1) BY <1>3 DEF Mid, AfterInterfaces
  <2>2. PICK o \in Methods : SlotIs(Methods, prev, o) /\ Bound(T, Methods, e, o, Stale(n - 1, e))
    BY <2>1 DEF Holds
  <2>3. e \in DOMAIN T.impl BY <2>2 DEF Bound, Sits
  <2>4. Bound(W, Methods, e, o, Stale(n - 1, e)) BY <2>2, <2>3, <1>1
  <2>5. Holds(W, Methods, e, prev, n - 1) BY <2>1, <2>2, <2>4 DEF Holds
  <2> QED BY <2>5, <1>3 DEF AfterInterfaces, W
<1>4. CASE prev = None
  <2>1. Joined(T, e, {}) \/ (~Class.abstract /\ Doomed(T, e)) \/ Waits(T, e) \/ Unbound(T, e)
    BY <1>4 DEF Mid, AfterInterfaces
  <2>2. ASSUME Joined(T, e, {}) PROVE Joined(W, e, {})
    <3>1. PICK o \in Methods : Current(Methods, e.sig, o) /\ Bound(T, Methods, e, o, {}) BY <2>2 DEF Joined
    <3>2. e \in DOMAIN T.impl BY <3>1 DEF Bound, Sits
    <3>3. Bound(W, Methods, e, o, {}) BY <3>1, <3>2, <1>1
    <3> QED BY <3>1, <3>3 DEF Joined
  <2>3. Doomed(T, e) => Doomed(W, e) BY <1>1 DEF Doomed
  <2>4. CASE Waits(T, e) \/ Unbound(T, e)
    <3>1. Free(T, e) /\ e \notin DOMAIN T.impl /\ e \in F BY <2>4 DEF Waits, Unbound
    <3>2. CASE s \in DOMAIN T.slots
      <4>1. W = AddEntries(T, s, F) BY <3>1, <3>2, <1>2 DEF BindInherited
      <4>2. Unbound(T, e) BY <2>4, <3>2 DEF Waits, Apart
      <4> DEFINE q == T.slots[s].first
      <4>3. Sits(AddEntries(T, s, F), Methods, e, q, {}) BY <3>1, <3>2, AddThis DEF Free
      <4>4. AddEntries(T, s, F).pending = T.pending BY <3>2, AddEntriesIs
      <4>5. Bound(W, Methods, e, q, {}) BY <4>1, <4>2, <4>3, <4>4 DEF Bound, Absent, Unbound
      <4>6. Current(Methods, s, q) BY <3>2 DEF Good, SlotOK
      <4>7. Joined(W, e, {}) BY <4>5, <4>6 DEF Joined, Current
      <4> QED BY <4>7, <1>4 DEF AfterInterfaces, W
    <3>3. CASE s \notin DOMAIN T.slots
      <4>1. IF Class.abstract THEN Waits(W, e) ELSE Doomed(W, e) BY <3>1, <3>3, <1>2, InheritThis
      <4> QED BY <4>1, <1>4 DEF AfterInterfaces, W
    <3> QED BY <3>2, <3>3
  <2> QED BY <2>1, <2>2, <2>3, <2>4, <1>4 DEF AfterInterfaces, W
<1> QED BY <1>3, <1>4

\* A class declares a signature if it has a method with it.
LEMMA DeclaredSig ==
  ASSUME Chain, NEW n \in DOMAIN classes, Class = classes[n], NEW s
  PROVE  /\ Declares(n, s) <=> DeclaresSig(Class, s)
         /\ DeclaresSig(Class, s) => \E m \in Methods : m.sig = s /\ m.owner = n
<1>1. \A m : m \in MethodsOf(n) <=> \E k \in DOMAIN Class.methods : m = Method(n, Class.methods[k])
  BY DEF MethodsOf, Range
<1>2. Declares(n, s) <=> DeclaresSig(Class, s) BY <1>1, MethodIs DEF Declares, DeclaresSig
<1>3. DeclaresSig(Class, s) => \E m \in Methods : m.sig = s /\ m.owner = n
  BY ClassFacts, MethodIs DEF DeclaresSig
<1> QED BY <1>2, <1>3

\* One signature of an interface that the class lists.
LEMMA BindInterfaceClaim ==
  ASSUME TableInv, Side, BindInterface, NEW n \in Nat, n = Len(classes), NEW e \in Entries, Fair(e), NEW prev,
         Progress(e, prev)
  PROVE  Progress(e, prev)'
<1>1. PICK p \in DOMAIN Class.lists : \E s \in DOMAIN InterfaceSlots[Class.lists[p]] :
        /\ table' = BindSignature(table, s, InterfaceSlots[Class.lists[p]][s])
        /\ left' = left \ {<<p, s>>}
        /\ UNCHANGED <<classes, tables, refused, step>>
  BY DEF BindInterface
<1>2. PICK s \in DOMAIN InterfaceSlots[Class.lists[p]] :
        /\ table' = BindSignature(table, s, InterfaceSlots[Class.lists[p]][s])
        /\ left' = left \ {<<p, s>>}
        /\ UNCHANGED <<classes, tables, refused, step>>
  BY <1>1
<1>3. step = "interfaces" /\ step' = "interfaces" BY <1>2 DEF BindInterface
<1>4. /\ Chain /\ n \in Nat \ {0} /\ n \in DOMAIN classes /\ AreMethods(Methods) /\ ~refused
      /\ Class = classes[n] /\ Class \in Declarations /\ Good(table, Methods)
  BY <1>3, Resolving DEF Chain
<1> DEFINE T == table
           E == InterfaceSlots[Class.lists[p]][s]
           W == BindSignature(T, s, E)
<1>5. Apart(T) BY <1>3 DEF Side
<1>6. DeclaresSig(Class, s) => s \in DOMAIN T.slots
  <2>1. DOMAIN T.slots = {m.sig : m \in Methods} BY <1>4 DEF Good
  <2> QED BY <2>1, <1>4, DeclaredSig
<1>7. ASSUME NEW m \in Nat, m <= n, s \in DOMAIN T.slots PROVE T.slots[s].first \notin Stale(m, e)
  <2> SUFFICES ASSUME T.slots[s].first \in Stale(m, e) PROVE FALSE OBVIOUS
  <2>1. Quiet(n, T.slots[s].first) BY <1>4, <1>7, StaleQuiet
  <2>2. T.slots[s].first.sig = s BY <1>4, <1>7 DEF Good, SlotOK, Current
  <2> QED BY <2>1, <2>2, <1>2, <1>4 DEF Quiet
<1>8. CASE Overrides(n, e) # {} BY <1>2, <1>3, <1>8, SameWorld DEF Progress
<1>9. CASE Overrides(n, e) = {}
  <2>1. IF Turned(e) THEN AfterInterfaces(T, e, prev, n) ELSE Mid(T, e, prev, n - 1) BY <1>3, <1>9 DEF Progress
  <2>2. Class' = Class BY <1>2, SameWorld
  <2>3. CASE e \in E
    <3>1. Class.lists[p] \in DOMAIN InterfaceSlots
      <4>1. Class.lists \in Seq(DOMAIN InterfaceSlots) BY <1>4, DeclarationAssumption
      <4> QED BY <4>1
    <3>2. e.sig = s BY <3>1, <2>3, DeclarationAssumption
    <3>3. Turned(e)' BY <1>2, <2>2, <2>3, <3>2 DEF Turned
    <3>4. Lists(n, e) BY <1>4, <2>3, <3>2, ListsBySig
    <3>5. Declares(n, s) <=> DeclaresSig(Class, s) BY <1>4, DeclaredSig
    <3>6. AfterInterfaces(W, e, prev, n)
      <4>1. CASE DeclaresSig(Class, s)
        <5>1. Rebinds(n, e) BY <4>1, <3>2, <3>4, <3>5, <1>9 DEF Rebinds
        <5>2. Joined(W, e, Stale(n, e)) BY <5>1, <4>1, <3>2, <2>1, <2>3, <1>4, <1>5, <1>6, BindOwn
        <5> QED BY <5>1, <5>2 DEF AfterInterfaces
      <4>2. CASE ~DeclaresSig(Class, s)
        <5>1. ~Rebinds(n, e) BY <4>2, <3>2, <3>5 DEF Rebinds
        <5>2. Listed(n, e) BY <3>4, <1>4, ListedGrows
        <5>3. s \in DOMAIN T.slots => T.slots[s].first \notin Stale(n - 1, e) BY <1>4, <1>7
        <5> HIDE DEF T, E
        <5> QED BY <5>1, <5>2, <5>3, <4>2, <3>2, <2>1, <2>3, <1>4, <1>5, BindOld DEF T
      <4> QED BY <4>1, <4>2
    <3> HIDE DEF W
    <3>7. table' = W BY <1>2 DEF W
    <3> QED BY <3>3, <3>6, <3>7, <1>2, <1>3, <1>9, SameAfter, SameWorld DEF Progress
  <2>4. CASE e \notin E
    <3>1. /\ \A o, S : Bound(T, Methods, e, o, S) /\ (s \in DOMAIN T.slots => T.slots[s].first \notin S)
                         => Bound(W, Methods, e, o, S)
          /\ Unbound(T, e) => Unbound(W, e)
          /\ Waits(T, e) => Waits(W, e)
          /\ Doomed(T, e) => Doomed(W, e)
      BY <2>4, <1>4, <1>6, BindOther
    <3>2. table' = W BY <1>2
    <3>3. Turned(e)' <=> Turned(e)
      <4>1. \A q \in DOMAIN Class.lists : e \in InterfaceSlots[Class.lists[q]][e.sig] => <<q, e.sig>> # <<p, s>>
        BY <2>4
      <4> QED BY <4>1, <1>2, <2>2 DEF Turned
    <3>4. n - 1 \in Nat /\ n - 1 <= n /\ n <= n BY <1>4
    <3>5. \A o : Bound(T, Methods, e, o, Stale(n - 1, e)) => Bound(W, Methods, e, o, Stale(n - 1, e))
      BY <3>1, <3>4, <1>7
    <3>6. \A o : Bound(T, Methods, e, o, Stale(n, e)) => Bound(W, Methods, e, o, Stale(n, e))
      BY <3>1, <3>4, <1>7
    <3>7. \A o : Bound(T, Methods, e, o, {}) => Bound(W, Methods, e, o, {}) BY <3>1
    <3> HIDE DEF T, W
    <3>8. /\ Holds(T, Methods, e, prev, n - 1) => Holds(W, Methods, e, prev, n - 1)
          /\ Joined(T, e, {}) => Joined(W, e, {})
          /\ Joined(T, e, Stale(n, e)) => Joined(W, e, Stale(n, e))
      BY <3>5, <3>6, <3>7 DEF Holds, Joined
    <3>9. Mid(T, e, prev, n - 1) => Mid(W, e, prev, n - 1) BY <3>1, <3>8 DEF Mid
    <3>10. AfterInterfaces(T, e, prev, n) => AfterInterfaces(W, e, prev, n) BY <3>1, <3>8 DEF AfterInterfaces
    <3> QED BY <3>2, <3>3, <3>9, <3>10, <2>1, <1>2, <1>3, <1>9, SameAfter, SameMid, SameWorld DEF Progress
  <2> QED BY <2>3, <2>4
<1> QED BY <1>8, <1>9

\* An explicit override takes the entry out of all slots and puts it in that of
\* the method; other entries go with this slot.
LEMMA OverrideOther ==
  ASSUME NEW M, AreMethods(M), NEW T, Good(T, M), NEW n, NEW d, d.sig \in DOMAIN T.slots,
         NEW x \in Entries, NEW e, e # x
  PROVE  LET W == Override(T, n, d, x)
         IN  /\ \A o, S : Bound(T, M, e, o, S) /\ T.slots[d.sig].first \notin S => Bound(W, M, e, o, S)
             /\ Unbound(T, e) => Unbound(W, e)
             /\ Waits(T, e) => Waits(W, e)
             /\ Doomed(T, e) => Doomed(W, e)
<1> DEFINE U == [T EXCEPT !.targets = @ \cup {x}]
           V == RemoveSlotEntry(U, x)
           W == AddEntries(V, d.sig, {x})
<1>1. Override(T, n, d, x) = W BY DeclarationAssumption DEF Override
<1>2. DOMAIN T = Fields BY DEF Good
<1>3. /\ DOMAIN U = Fields /\ U.slots = T.slots /\ U.impl = T.impl /\ U.replace = T.replace
      /\ U.newSlot = T.newSlot /\ U.promoted = T.promoted /\ U.pending = T.pending
  BY <1>2, FieldsAre
<1> HIDE DEF U
<1>4. Good(U, M) BY <1>3, SameGood DEF Good
<1>5. Good(V, M) BY <1>4, RemoveGood
<1>6. Alike(T, U, e) BY <1>3 DEF Alike
<1>7. Alike(U, V, e) BY <1>4, RemoveAlike
<1>8. Alike(T, V, e) BY <1>6, <1>7 DEF Alike
<1>9. d.sig \in DOMAIN V.slots /\ V.slots[d.sig].first = T.slots[d.sig].first BY <1>8 DEF Alike
<1> HIDE DEF V
<1>10. \A o, S : Bound(T, M, e, o, S) /\ T.slots[d.sig].first \notin S => Bound(W, M, e, o, S)
  BY <1>5, <1>8, <1>9, AlikeForms, AddBound
<1>11. Free(V, e) => Alike(V, W, e) BY <1>5, <1>9, AddAlike DEF Free
<1>12. /\ Unbound(T, e) => Unbound(W, e)
       /\ Waits(T, e) => Waits(W, e)
       /\ Doomed(T, e) => Doomed(W, e)
  BY <1>8, <1>11, AlikeForms DEF Unbound, Waits, Doomed
<1> QED BY <1>1, <1>10, <1>12

LEMMA OverrideThis ==
  ASSUME NEW M, AreMethods(M), NEW T, Good(T, M), NEW n, NEW d, d.sig \in DOMAIN T.slots, NEW x \in Entries
  PROVE  Bound(Override(T, n, d, x), M, x, T.slots[d.sig].first, {})
<1> DEFINE U == [T EXCEPT !.targets = @ \cup {x}]
           V == RemoveSlotEntry(U, x)
           W == AddEntries(V, d.sig, {x})
<1>1. Override(T, n, d, x) = W BY DeclarationAssumption DEF Override
<1>2. DOMAIN T = Fields BY DEF Good
<1>3. /\ DOMAIN U = Fields /\ U.slots = T.slots /\ U.impl = T.impl /\ U.replace = T.replace
      /\ U.newSlot = T.newSlot /\ U.promoted = T.promoted /\ U.pending = T.pending
  BY <1>2, FieldsAre
<1> HIDE DEF U
<1>4. Good(U, M) BY <1>3, SameGood DEF Good
<1>5. Good(V, M) BY <1>4, RemoveGood
<1>6. d.sig \in DOMAIN V.slots /\ V.slots[d.sig].first = T.slots[d.sig].first BY <1>3, <1>4, RemoveIs
<1>7. Free(V, x) /\ Absent(V, x) BY <1>4, RemoveThis
<1> HIDE DEF V
<1>8. Sits(W, M, x, V.slots[d.sig].first, {}) BY <1>5, <1>6, <1>7, AddThis DEF Free
<1>9. W.pending = V.pending BY <1>5, <1>6, AddEntriesIs
<1> QED BY <1>1, <1>6, <1>7, <1>8, <1>9 DEF Bound, Absent

\* What an explicit override does to the rest of the table.
LEMMA OverrideRest ==
  ASSUME NEW M, AreMethods(M), NEW T, Good(T, M), NEW n, NEW d, d.sig \in DOMAIN T.slots, NEW x \in Entries,
         NEW Z, Z = Override(T, n, d, x)
  PROVE  /\ DOMAIN Z.slots = DOMAIN T.slots
         /\ \A y : y \in Z.targets <=> y \in T.targets \/ y = x
         /\ DOMAIN Z.pending \subseteq DOMAIN T.pending
         /\ \A g \in DOMAIN Z.pending : Z.pending[g] \subseteq T.pending[g]
<1> DEFINE U == [T EXCEPT !.targets = @ \cup {x}]
           V == RemoveSlotEntry(U, x)
           W == AddEntries(V, d.sig, {x})
<1>1. Z = W BY DeclarationAssumption DEF Override
<1>2. DOMAIN T = Fields BY DEF Good
<1>3. /\ DOMAIN U = Fields /\ U.slots = T.slots /\ U.impl = T.impl /\ U.replace = T.replace
      /\ U.newSlot = T.newSlot /\ U.promoted = T.promoted /\ U.pending = T.pending
      /\ U.targets = T.targets \cup {x}
  BY <1>2, FieldsAre
<1> HIDE DEF U
<1>4. Good(U, M) BY <1>3, SameGood DEF Good
<1>5. Good(V, M) BY <1>4, RemoveGood
<1>6. /\ DOMAIN V.slots = DOMAIN U.slots /\ V.targets = U.targets
      /\ DOMAIN V.pending \subseteq DOMAIN U.pending
      /\ \A g \in DOMAIN V.pending : V.pending[g] \subseteq U.pending[g]
  BY <1>4, RemoveIs
<1> HIDE DEF V
<1>7. DOMAIN W.slots = DOMAIN V.slots /\ W.pending = V.pending /\ W.targets = V.targets
  BY <1>3, <1>5, <1>6, AddEntriesIs
<1> HIDE DEF W
<1>8. \A y : y \in W.targets <=> y \in T.targets \/ y = x BY <1>3, <1>6, <1>7
<1> QED BY <1>1, <1>3, <1>6, <1>7, <1>8

\* The step of an explicit override keeps the claim.
LEMMA OverrideExplicitlyClaim ==
  ASSUME InterfaceOverrides, TableInv, OverrideExplicitly, refused' = refused,
         NEW n \in Nat, n = Len(classes), NEW e \in Entries, Fair(e), NEW prev, Progress(e, prev)
  PROVE  Progress(e, prev)'
<1>1. step = "overrides" /\ ~refused BY Resolving DEF OverrideExplicitly
<1>2. PICK k \in DOMAIN Class.methods : \E t \in Class.methods[k].overrides :
        /\ <<k, t>> \in left
        /\ IF Conflicts(t) THEN Refuse
           ELSE /\ table' = Override(table, Len(classes), Class.methods[k], t)
                /\ left' = left \ {<<k, t>>}
                /\ UNCHANGED <<classes, tables, refused, step>>
  BY DEF OverrideExplicitly
<1>3. PICK t \in Class.methods[k].overrides :
        /\ <<k, t>> \in left
        /\ IF Conflicts(t) THEN Refuse
           ELSE /\ table' = Override(table, Len(classes), Class.methods[k], t)
                /\ left' = left \ {<<k, t>>}
                /\ UNCHANGED <<classes, tables, refused, step>>
  BY <1>2
<1>4. /\ ~Conflicts(t)
      /\ table' = Override(table, n, Class.methods[k], t)
      /\ left' = left \ {<<k, t>>}
      /\ UNCHANGED <<classes, tables, refused, step>>
  BY <1>1, <1>3 DEF Refuse
<1>5. /\ Chain /\ n \in Nat \ {0} /\ n \in DOMAIN classes /\ AreMethods(Methods)
      /\ Class = classes[n] /\ Class \in Declarations /\ Good(table, Methods)
  BY <1>1, Resolving DEF Chain
<1> DEFINE T == table
           d == Class.methods[k]
           m == Method(n, d)
           q == T.slots[d.sig].first
           W == Override(T, n, d, t)
<1>6. t \in Entries BY <1>5 DEF InterfaceOverrides
<1>7. m \in Methods /\ m.owner = n /\ m.sig = d.sig BY <1>5, ClassFacts, MethodIs
<1>8. d.sig \in DOMAIN T.slots BY <1>5, <1>7 DEF Good
<1>9. Current(Methods, d.sig, q) BY <1>5, <1>8 DEF Good, SlotOK
<1>10. \A p \in Methods : p.owner <= n BY <1>5, MethodFacts
<1>11. q.owner # n \/ q = m => SlotIs(Methods, m, q) BY <1>5, <1>7, <1>9, <1>10, CurrentSlot
<1>12. ASSUME NEW i \in Nat, i <= n PROVE q \notin Stale(i, e)
  <2> SUFFICES ASSUME q \in Stale(i, e) PROVE FALSE OBVIOUS
  <2>1. q.owner < i /\ q.owner \in Nat BY <1>5, <1>12, StaleBelow DEF AreMethods
  <2>2. Quiet(n, q) BY <1>5, <1>12, StaleQuiet
  <2>3. SlotIs(Methods, m, q) BY <1>11, <1>12, <2>1
  <2> QED BY <2>2, <2>3, <1>7 DEF Quiet
<1>13. table' = W BY <1>4
<1>14. e # t =>
         /\ \A o, S : Bound(T, Methods, e, o, S) /\ q \notin S => Bound(W, Methods, e, o, S)
         /\ Unbound(T, e) => Unbound(W, e)
         /\ Waits(T, e) => Waits(W, e)
         /\ Doomed(T, e) => Doomed(W, e)
  BY <1>5, <1>6, <1>8, OverrideOther
<1>15. \A y : y \in W.targets <=> y \in T.targets \/ y = t
  <2>1. AreMethods(Methods) /\ Good(T, Methods) /\ W = Override(T, n, d, t) BY <1>5
  <2> HIDE DEF d, T, W
  <2> QED BY ONLY <2>1, <1>6, <1>8, OverrideRest
<1>16. e = t => Bound(W, Methods, e, q, {}) BY <1>5, <1>6, <1>8, OverrideThis
<1> HIDE DEF W, T, q
<1>17. CASE Overrides(n, e) = {}
  <2>1. e # t
    <3>1. d \in Range(classes[n].methods) BY <1>5 DEF Range
    <3> QED BY <3>1, <1>17 DEF Overrides
  <2>2. AfterInterfaces(T, e, prev, n) BY <1>1, <1>17 DEF Progress, T
  <2>3. n - 1 \in Nat /\ n - 1 <= n /\ n <= n BY <1>5
  <2>4. /\ Holds(T, Methods, e, prev, n - 1) => Holds(W, Methods, e, prev, n - 1)
        /\ Joined(T, e, {}) => Joined(W, e, {})
        /\ Joined(T, e, Stale(n, e)) => Joined(W, e, Stale(n, e))
    BY <2>1, <2>3, <1>12, <1>14 DEF Holds, Joined
  <2>5. AfterInterfaces(W, e, prev, n) BY <2>1, <2>2, <2>4, <1>14 DEF AfterInterfaces
  <2> QED BY <2>5, <1>1, <1>4, <1>13, <1>17, SameAfter, SameWorld DEF Progress
<1>18. CASE Overrides(n, e) # {}
  <2>1. Claimed(e, n) BY <1>1, <1>18 DEF Progress
  <2>2. ASSUME NEW l \in DOMAIN Class.methods, e \in Class.methods[l].overrides, <<l, e>> \notin left'
        PROVE  /\ e \in W.targets
               /\ \E o \in Methods : SlotIs(Methods, Method(n, Class.methods[l]), o) /\ Bound(W, Methods, e, o, {})
               /\ \A j \in DOMAIN Class.methods : j # l /\ e \in Class.methods[j].overrides => <<j, e>> \in left'
    <3>1. CASE <<l, e>> \notin left
      <4>1. e \in T.targets BY <3>1, <2>1, <2>2 DEF Claimed, T
      <4>2. e # t BY <4>1, <1>4 DEF Conflicts, T
      <4>3. PICK o \in Methods : SlotIs(Methods, Method(n, Class.methods[l]), o) /\ Bound(T, Methods, e, o, {})
        BY <3>1, <2>1, <2>2 DEF Claimed, T
      <4>4. \A j \in DOMAIN Class.methods : j # l /\ e \in Class.methods[j].overrides => <<j, e>> \in left
        BY <3>1, <2>1, <2>2 DEF Claimed
      <4> QED BY <4>1, <4>2, <4>3, <4>4, <1>4, <1>14, <1>15
    <3>2. CASE <<l, e>> \in left
      <4>1. l = k /\ e = t BY <3>2, <2>2, <1>4
      <4>2. ~Hides(n) BY <1>5, <1>18 DEF Fair
      <4>3. q.owner = n => q = m
        <5> SUFFICES ASSUME q.owner = n PROVE q = m OBVIOUS
        <5>1. q \in Methods /\ q.sig = d.sig BY <1>9 DEF Current
        <5>2. PICK j \in DOMAIN classes[n].methods : q = Method(n, classes[n].methods[j])
          BY <5>1, <1>5, MethodFacts
        <5>3. classes[n].methods[j].sig = d.sig BY <5>1, <5>2, MethodIs
        <5>4. classes[n].methods[j] \in Range(classes[n].methods) /\ d \in Range(classes[n].methods)
          BY <1>5 DEF Range
        <5>5. classes[n].methods[j] = d BY <5>3, <5>4, <4>2 DEF Hides
        <5> QED BY <5>2, <5>5
      <4>4. SlotIs(Methods, m, q) BY <4>3, <1>11
      <4>5. \A j \in DOMAIN Class.methods : j # l /\ e \in Class.methods[j].overrides => <<j, e>> \in left
        BY <4>1, <2>1, <1>4 DEF Claimed, Conflicts
      <4> QED BY <4>1, <4>4, <4>5, <1>4, <1>9, <1>15, <1>16 DEF Current
    <3> QED BY <3>1, <3>2
  <2>3. Claimed(e, n)' BY <2>2, <1>4, <1>13, SameWorld DEF Claimed
  <2> QED BY <2>3, <1>1, <1>4, <1>18, SameWorld DEF Progress
<1> QED BY <1>17, <1>18

\* The table is kept: an entry that is bound leads to the last override of the
\* slot of what the class binds it to.
LEMMA FinishTableClaim ==
  ASSUME TableInv, Side, FinishTable, refused' = refused,
         NEW n \in Nat, n = Len(classes), NEW e \in Entries, NEW prev, NEW b,
         BindStep(n, e, prev, b), Progress(e, prev)
  PROVE  Settled(Base, Methods, e, b, n)' /\ step' = "idle" /\ classes' = classes
<1> DEFINE X == ExpandNewSlots(table)
<1>1. step = "overrides" /\ left = {} /\ ~refused BY Resolving DEF FinishTable
<1>2. ~Unimplemented(X) /\ tables' = Append(tables, X) /\ step' = "idle" /\ classes' = classes
  BY <1>1 DEF FinishTable, Refuse
<1>3. /\ Chain /\ n \in Nat \ {0} /\ n \in DOMAIN classes /\ AreMethods(Methods)
      /\ Class = classes[n] /\ Good(table, Methods)
  BY <1>1, Resolving DEF Chain
<1>4. Alike(table, X, e) /\ X.slots = table.slots /\ X.impl = table.impl BY <1>3, ExpandAlike
<1> DEFINE T == table
<1>5. /\ \A M, o, S : Bound(T, M, e, o, S) => Bound(X, M, e, o, S)
      /\ Unbound(T, e) => Unbound(X, e)
      /\ Doomed(T, e) => Doomed(X, e)
      /\ Waits(T, e) => Waits(X, e)
  BY <1>4, AlikeForms
<1> HIDE DEF X
<1>6. Base' = X
  <2>1. Last(tables') = X /\ tables' # <<>> BY <1>2, LastOf DEF TableInv
  <2> QED BY <2>1 DEF Base
<1>7. \A p \in Methods : p.owner <= n /\ p # None
  <2>1. \A p \in Methods : p.owner <= n /\ p.owner \in Nat \ {0} BY <1>3, MethodFacts
  <2> QED BY <2>1 DEF None
<1>8. ~Doomed(X, e) \/ Class.abstract BY <1>2 DEF Doomed, Unimplemented
<1>9. Settled(X, Methods, e, b, n)
  <2>1. CASE Overrides(n, e) # {}
    <3>1. b \in Overrides(n, e) BY <2>1 DEF BindStep
    <3>2. b \in Methods /\ \E l \in DOMAIN classes[n].methods : b = Method(n, classes[n].methods[l]) /\ e \in classes[n].methods[l].overrides
      BY <3>1, <1>3, OverridesAre
    <3>3. PICK l \in DOMAIN Class.methods : b = Method(n, Class.methods[l]) /\ e \in Class.methods[l].overrides
      BY <3>2, <1>3
    <3>4. Claimed(e, n) BY <1>1, <2>1 DEF Progress
    <3>5. PICK o \in Methods : SlotIs(Methods, b, o) /\ Bound(T, Methods, e, o, {})
      BY <3>3, <3>4, <1>1 DEF Claimed
    <3>6. Bound(X, Methods, e, o, Stale(n, e)) BY <3>5, <1>5, BoundMore
    <3>7. Holds(X, Methods, e, b, n) BY <3>1, <3>2, <3>5, <3>6, <1>3 DEF Holds
    <3> QED BY <3>2, <3>7, <1>7 DEF Settled
  <2>2. CASE Overrides(n, e) = {} /\ Rebinds(n, e)
    <3>1. Near(Methods, n, e.sig, b) BY <2>2 DEF BindStep
    <3>2. Joined(T, e, Stale(n, e)) BY <1>1, <2>2 DEF Progress, AfterInterfaces
    <3>3. PICK o \in Methods : Current(Methods, e.sig, o) /\ Bound(T, Methods, e, o, Stale(n, e))
      BY <3>2 DEF Joined
    <3>4. SlotIs(Methods, b, o) BY <3>1, <3>3, <1>3, <1>7, NearSlot
    <3>5. Holds(X, Methods, e, b, n) BY <3>1, <3>3, <3>4, <1>5 DEF Holds, Near
    <3> QED BY <3>1, <3>5, <1>7 DEF Settled, Near
  <2>3. CASE Overrides(n, e) = {} /\ ~Rebinds(n, e) /\ prev # None
    <3>1. b = prev BY <2>3 DEF BindStep
    <3>2. Holds(T, Methods, e, prev, n - 1) BY <1>1, <2>3 DEF Progress, AfterInterfaces
    <3>3. Holds(T, Methods, e, b, n) BY <3>1, <3>2, <1>3, HoldsMore
    <3>4. Holds(X, Methods, e, b, n) BY <3>3, <1>5 DEF Holds
    <3> QED BY <3>1, <3>4, <2>3 DEF Settled
  <2>4. CASE Overrides(n, e) = {} /\ ~Rebinds(n, e) /\ prev = None /\ ~Listed(n, e)
    <3>1. b = None BY <2>4 DEF BindStep
    <3>2. Unbound(T, e) BY <1>1, <2>4 DEF Progress, AfterInterfaces
    <3> QED BY <3>1, <3>2, <2>4, <1>5 DEF Settled
  <2>5. CASE Overrides(n, e) = {} /\ ~Rebinds(n, e) /\ prev = None /\ Listed(n, e)
    <3>1. Near(Methods, n, e.sig, b) \/ (b = None /\ \A p \in Methods : ~(p.sig = e.sig /\ p.owner <= n))
      BY <2>5 DEF BindStep
    <3>2. Waits(T, e) \/ Joined(T, e, {}) \/ (~Class.abstract /\ Doomed(T, e)) BY <1>1, <2>5 DEF Progress, AfterInterfaces
    <3>3. CASE Waits(T, e)
      <4>1. e.sig \notin DOMAIN T.slots BY <3>3, <1>1 DEF Side, Apart, Waits
      <4>2. DOMAIN T.slots = {p.sig : p \in Methods} BY <1>3 DEF Good
      <4>3. ~Near(Methods, n, e.sig, b) BY <4>1, <4>2 DEF Near
      <4> QED BY <3>1, <3>3, <4>3, <2>5, <1>5 DEF Settled
    <3>4. CASE Joined(T, e, {})
      <4>1. PICK o \in Methods : Current(Methods, e.sig, o) /\ Bound(T, Methods, e, o, {}) BY <3>4 DEF Joined
      <4>2. o.sig = e.sig /\ o.owner <= n BY <4>1, <1>7 DEF Current
      <4>3. Near(Methods, n, e.sig, b) BY <3>1, <4>2
      <4>4. SlotIs(Methods, b, o) BY <4>1, <4>3, <1>3, <1>7, NearSlot
      <4>5. Bound(X, Methods, e, o, Stale(n, e)) BY <4>1, <1>5, BoundMore
      <4>6. Holds(X, Methods, e, b, n) BY <4>3, <4>4, <4>5 DEF Holds, Near
      <4> QED BY <4>3, <4>6, <1>7 DEF Settled, Near
    <3>5. ~(~Class.abstract /\ Doomed(T, e)) BY <1>5, <1>8
    <3> QED BY <3>2, <3>3, <3>4, <3>5
  <2> QED BY <2>1, <2>2, <2>3, <2>4, <2>5
<1>10. Methods' = Methods BY <1>2, SameWorld
<1>11. Settled(Base', Methods', e, b, n) BY <1>6, <1>9, <1>10
<1> QED BY <1>2, <1>11, SameSettled

\* A new class starts from the table of its base.
LEMMA StartClaim ==
  ASSUME TableInv, NEW class \in Declarations, Start(class), NEW n \in Nat, n = Len(classes),
         NEW e \in Entries, NEW b, Settled(Base, Methods, e, b, n)
  PROVE  /\ Len(classes') = n + 1
         /\ Settled(Base, Under(Methods, n + 1), e, b, n)'
         /\ Progress(e, b)'
<1>1. /\ classes' = Append(classes, class) /\ table' = Derived(Base) /\ step' = "methods"
      /\ left' = DOMAIN class.methods /\ tables' = tables /\ step = "idle" /\ ~refused
  BY DEF Start
<1>2. Longer(class) BY <1>1 DEF Longer, TableInv
<1>3. /\ Len(classes') = n + 1 /\ classes'[n + 1] = class /\ DOMAIN classes = 1..n /\ Methods \subseteq Methods'
      /\ \A m \in Methods' : m \in Methods <=> m.owner <= n
      /\ \A k \in DOMAIN classes : Overrides(k, e)' = Overrides(k, e)
  BY <1>2, LongerFacts
<1>4. Under(Methods', n + 1) = Methods BY <1>2, LongerSlots
<1>5. Class' = class BY <1>3 DEF Class, Last
<1>6. Known' = Methods
  <2>1. \A m \in Methods' \ Methods : \E k \in DOMAIN class.methods : m = Method(n + 1, class.methods[k])
    <3> SUFFICES ASSUME NEW m \in Methods' \ Methods PROVE \E k \in DOMAIN class.methods : m = Method(n + 1, class.methods[k])
      OBVIOUS
    <3>1. PICK j \in DOMAIN classes' : m \in MethodsOf(j)' BY DEF Methods
    <3>2. m.owner = j BY <3>1, MethodIs DEF MethodsOf
    <3>3. DOMAIN classes' = 1..(n + 1) BY <1>2, LongerFacts
    <3>4. j = n + 1 BY <3>1, <3>2, <3>3, <1>3
    <3> QED BY <3>1, <3>4, <1>3 DEF MethodsOf, Range
  <2>2. \A m \in Methods : \A k \in DOMAIN class.methods : m # Method(n + 1, class.methods[k])
    <3>1. \A m \in Methods : m.owner # n + 1 BY <1>3
    <3> QED BY <3>1, MethodIs
  <2> QED BY <2>1, <2>2, <1>1, <1>3, <1>5 DEF Known
<1>7. Base' = Base BY <1>1 DEF Base
<1>8. n \in Nat /\ n <= Len(classes) OBVIOUS
<1>9. Listed(n, e)' = Listed(n, e) /\ Stale(n, e)' = Stale(n, e) BY <1>2, <1>8, ListedStays, StaleStays
<1>10. \A k \in 1..n : Overrides(k, e)' = Overrides(k, e) BY <1>3
<1> DEFINE W == Derived(Base)
<1>11. /\ W.slots = Base.slots /\ W.impl = Base.impl /\ W.pending = Base.pending
  <2>1. DOMAIN Base = Fields BY <1>1 DEF TableInv, Good
  <2> QED BY <2>1, FieldsAre DEF Derived
<1> HIDE DEF W
<1>12. /\ \A M, o, S : Bound(Base, M, e, o, S) => Bound(W, M, e, o, S)
       /\ Unbound(Base, e) => Unbound(W, e)
       /\ Waits(Base, e) => Waits(W, e)
  BY <1>11 DEF Bound, Sits, Absent, Unbound, Waits, Free
<1>13. Settled(W, Methods, e, b, n) BY <1>12 DEF Settled, Holds
<1>14. table' = W BY <1>1 DEF W
<1>15. Settled(Base, Under(Methods, n + 1), e, b, n)'
  BY <1>4, <1>7, <1>9, <1>10 DEF Settled, Holds
<1>16. Settled(table, Known, e, b, n)'
  BY <1>6, <1>9, <1>10, <1>13, <1>14 DEF Settled, Holds
<1>17. Len(classes') - 1 = n BY <1>3
<1> QED BY <1>1, <1>3, <1>15, <1>16, <1>17 DEF Progress

\* The entries that wait do so under their signature, for which there is no slot
\* once those that could be bound are.
LEMMA SideFrame ==
  ASSUME TableInv, Side, step # "idle", classes' = classes, tables' = tables, step' # "methods", step' # "idle",
         Sigs(table'),
         step' = "pending" =>
           /\ left' = DOMAIN table'.pending \cap DOMAIN table'.slots
           /\ DOMAIN table'.pending \cap DOMAIN Base.slots = {},
         step' \in {"interfaces", "overrides"} => Apart(table')
  PROVE  Side'
<1>1. ~refused BY DEF TableInv
<1>2. Base' = Base BY DEF Base
<1>3. Sigs(Base) /\ Apart(Base) BY <1>1 DEF Side
<1> QED BY <1>2, <1>3 DEF Side

\* One lemma for each action: it keeps what is said of no entry.
LEMMA SideStart == ASSUME TableInv, Side, NEW class \in Declarations, Start(class) PROVE Side'
<1>1. table' = Derived(Base) /\ step' = "methods" /\ tables' = tables /\ step = "idle" /\ ~refused BY DEF Start
<1>2. DOMAIN Base = Fields BY <1>1 DEF TableInv, Good
<1>3. Derived(Base).pending = Base.pending BY <1>2, FieldsAre DEF Derived
<1>4. Base' = Base BY <1>1 DEF Base
<1>5. Sigs(Base) /\ Apart(Base) BY <1>1 DEF Side
<1> QED BY <1>1, <1>3, <1>4, <1>5 DEF Side, Sigs

LEMMA SideImplicit == ASSUME TableInv, Side, OverrideImplicitly PROVE Side'
<1> DEFINE C == Class
           n == Len(classes)
<1>0. step = "methods" BY DEF OverrideImplicitly
<1>1. n \in Nat BY DEF TableInv, Chain
<1>2. PICK k \in left :
        /\ table' = ProcessMethod(table, Base, n, C.methods[k])
        /\ Grows(Known, Known', Method(n, C.methods[k]))
  BY <1>1, ImplicitStep
<1>3. Under(Known, n) = Under(Methods, n) /\ UNCHANGED <<classes, tables, refused, step>> BY <1>1, ImplicitStep
<1>4. Good(table, Known) /\ Good(Base, Under(Known, n)) /\ ~refused BY <1>0, <1>3, Resolving
<1> HIDE DEF C, n
<1>5. table'.pending = table.pending BY <1>2, <1>4, ProcessIs
<1>6. Base' = Base BY <1>3 DEF Base
<1> QED BY <1>0, <1>3, <1>4, <1>5, <1>6 DEF Side, Sigs

LEMMA SideStartPending == ASSUME TableInv, Side, StartPending PROVE Side'
<1>1. /\ step = "methods" /\ step' = "pending" /\ left' = Pending
      /\ classes' = classes /\ tables' = tables /\ table' = table
  BY DEF StartPending
<1>2. ~refused BY <1>1, Resolving
<1>3. Sigs(table) /\ Apart(Base) /\ table.pending = Base.pending BY <1>1, <1>2 DEF Side
<1> QED BY <1>1, <1>3, SideFrame DEF Pending, Apart

LEMMA SidePending == ASSUME TableInv, Side, BindPending PROVE Side'
<1>1. PICK s \in left :
        /\ table' = [AddEntries(table, s, table.pending[s]) EXCEPT !.pending = Without(@, {s})]
        /\ left' = left \ {s}
        /\ UNCHANGED <<classes, tables, refused, step>>
  BY DEF BindPending
<1>2. step = "pending" BY DEF BindPending
<1>3. Good(table, Methods) /\ ~refused BY <1>2, Resolving
<1>4. /\ left = DOMAIN table.pending \cap DOMAIN table.slots /\ Sigs(table)
      /\ DOMAIN table.pending \cap DOMAIN Base.slots = {}
  BY <1>2, <1>3 DEF Side
<1> DEFINE U == AddEntries(table, s, table.pending[s])
           W == [U EXCEPT !.pending = Without(@, {s})]
<1>5. /\ W.slots = U.slots /\ DOMAIN W.pending = DOMAIN table.pending \ {s}
      /\ \A h \in DOMAIN W.pending : W.pending[h] = table.pending[h]
  BY <1>3, <1>4, PendingIs
<1>6. DOMAIN U.slots = DOMAIN table.slots BY <1>3, <1>4, AddEntriesIs
<1>7. table' = W BY <1>1
<1> HIDE DEF W, U
<1>8. Sigs(W) BY <1>4, <1>5 DEF Sigs
<1> QED BY <1>1, <1>2, <1>4, <1>5, <1>6, <1>7, <1>8, SideFrame

LEMMA SideStartInterfaces == ASSUME TableInv, Side, StartInterfaces PROVE Side'
<1>1. /\ step = "pending" /\ left = {} /\ step' = "interfaces"
      /\ classes' = classes /\ tables' = tables /\ table' = table
  BY DEF StartInterfaces
<1>2. Sigs(table) /\ Apart(table) BY <1>1, Resolving DEF Side, Apart
<1> QED BY <1>1, <1>2, SideFrame

LEMMA SideInterface == ASSUME TableInv, Side, BindInterface PROVE Side'
<1>1. step = "interfaces" BY DEF BindInterface
<1>2. PICK p \in DOMAIN Class.lists : \E s \in DOMAIN InterfaceSlots[Class.lists[p]] :
        /\ table' = BindSignature(table, s, InterfaceSlots[Class.lists[p]][s])
        /\ UNCHANGED <<classes, tables, refused, step>>
  BY DEF BindInterface
<1>3. PICK s \in DOMAIN InterfaceSlots[Class.lists[p]] :
        /\ table' = BindSignature(table, s, InterfaceSlots[Class.lists[p]][s])
        /\ UNCHANGED <<classes, tables, refused, step>>
  BY <1>2
<1>4. /\ Chain /\ Len(classes) \in DOMAIN classes /\ ~refused /\ Class = classes[Len(classes)]
      /\ Class \in Declarations /\ Good(table, Methods)
  BY <1>1, Resolving
<1>5. Sigs(table) /\ Apart(table) BY <1>1, <1>4 DEF Side
<1> DEFINE T == table
           E == InterfaceSlots[Class.lists[p]][s]
           F == IF DeclaresSig(Class, s) THEN E ELSE E \ DOMAIN T.impl
           W == BindSignature(T, s, E)
<1>6. \A e \in F : e.sig = s
  <2>1. Class.lists \in Seq(DOMAIN InterfaceSlots) BY <1>4, DeclarationAssumption
  <2>2. Class.lists[p] \in DOMAIN InterfaceSlots BY <2>1
  <2> QED BY <2>2, DeclarationAssumption
<1>7. DeclaresSig(Class, s) => s \in DOMAIN T.slots
  <2>1. DOMAIN T.slots = {m.sig : m \in Methods} BY <1>4 DEF Good
  <2> QED BY <2>1, <1>4, DeclaredSig
<1>8. W = IF DeclaresSig(Class, s) THEN AddEntries(T, s, F) ELSE BindInherited(T, s, F) BY DEF BindSignature
<1>9. table' = W /\ step' = "interfaces" BY <1>1, <1>3
<1> HIDE DEF W, F, T
<1>10. Sigs(W) /\ Apart(W)
  <2>1. CASE ~DeclaresSig(Class, s) /\ F = {} BY <2>1, <1>5, <1>8 DEF BindInherited, T
  <2>2. CASE s \in DOMAIN T.slots /\ ~(~DeclaresSig(Class, s) /\ F = {})
    <3>1. W = AddEntries(T, s, F) BY <2>2, <1>8 DEF BindInherited
    <3>2. Good(T, Methods) BY <1>4 DEF T
    <3>3. DOMAIN W.slots = DOMAIN T.slots /\ W.pending = T.pending BY <3>1, <3>2, <2>2, AddEntriesIs
    <3> QED BY <3>3, <1>5 DEF Sigs, Apart, T
  <2>3. CASE s \notin DOMAIN T.slots /\ ~(~DeclaresSig(Class, s) /\ F = {})
    <3>1. W = BindInherited(T, s, F) /\ F # {} BY <2>3, <1>7, <1>8
    <3>2. Good(T, Methods) BY <1>4 DEF T
    <3>3. /\ W.slots = T.slots
          /\ Class.abstract =>
               /\ DOMAIN W.pending = DOMAIN T.pending \cup {s}
               /\ \A h \in DOMAIN T.pending : h # s => W.pending[h] = T.pending[h]
               /\ W.pending[s] = F \cup (IF s \in DOMAIN T.pending THEN T.pending[s] ELSE {})
          /\ ~Class.abstract => W.pending = T.pending
      BY <3>1, <3>2, <2>3, BindInheritedIs
    <3>4. Sigs(T) /\ Apart(T) BY <1>5 DEF T
    <3> QED BY <3>3, <3>4, <2>3, <1>6 DEF Sigs, Apart
  <2> QED BY <2>1, <2>2, <2>3
<1> QED BY <1>1, <1>3, <1>9, <1>10, SideFrame

LEMMA SideStartOverrides == ASSUME TableInv, Side, StartOverrides PROVE Side'
<1>1. step = "interfaces" /\ step' = "overrides" /\ classes' = classes /\ tables' = tables /\ table' = table
  BY DEF StartOverrides
<1>2. Sigs(table) /\ Apart(table) BY <1>1, Resolving DEF Side
<1> QED BY <1>1, <1>2, SideFrame

LEMMA SideRefuse == ASSUME Refuse PROVE Side'
BY DEF Refuse, Side

LEMMA SideExplicit == ASSUME InterfaceOverrides, TableInv, Side, OverrideExplicitly PROVE Side'
<1>1. step = "overrides" BY DEF OverrideExplicitly
<1>2. PICK k \in DOMAIN Class.methods : \E t \in Class.methods[k].overrides :
        IF Conflicts(t) THEN Refuse
        ELSE /\ table' = Override(table, Len(classes), Class.methods[k], t)
             /\ UNCHANGED <<classes, tables, refused, step>>
  BY DEF OverrideExplicitly
<1>3. PICK t \in Class.methods[k].overrides :
        IF Conflicts(t) THEN Refuse
        ELSE /\ table' = Override(table, Len(classes), Class.methods[k], t)
             /\ UNCHANGED <<classes, tables, refused, step>>
  BY <1>2
<1>4. CASE Conflicts(t) BY <1>3, <1>4, SideRefuse
<1>5. CASE ~Conflicts(t)
  <2> DEFINE n == Len(classes)
             d == Class.methods[k]
             W == Override(table, n, d, t)
  <2>1. /\ Chain /\ n \in DOMAIN classes /\ AreMethods(Methods) /\ ~refused
        /\ Class = classes[n] /\ Class \in Declarations /\ Good(table, Methods)
    BY <1>1, Resolving
  <2>2. t \in Entries BY <2>1 DEF InterfaceOverrides
  <2>3. Method(n, d) \in Methods /\ Method(n, d).sig = d.sig BY <2>1, ClassFacts, MethodIs
  <2>4. d.sig \in DOMAIN table.slots BY <2>1, <2>3 DEF Good
  <2>5. Sigs(table) /\ Apart(table) BY <1>1, <2>1 DEF Side
  <2>6. AreMethods(Methods) /\ Good(table, Methods) /\ W = Override(table, n, d, t) BY <2>1
  <2>7. table' = W BY <1>3, <1>5
  <2> HIDE DEF d, n, W
  <2>8. DOMAIN W.slots = DOMAIN table.slots BY ONLY <2>6, <2>2, <2>4, OverrideRest
  <2>9. DOMAIN W.pending \subseteq DOMAIN table.pending BY ONLY <2>6, <2>2, <2>4, OverrideRest
  <2>10. \A g \in DOMAIN W.pending : W.pending[g] \subseteq table.pending[g] BY ONLY <2>6, <2>2, <2>4, OverrideRest
  <2>11. Sigs(W) /\ Apart(W) BY <2>5, <2>8, <2>9, <2>10 DEF Sigs, Apart
  <2> QED BY <2>7, <2>11, <1>1, <1>3, <1>5, SideFrame
<1> QED BY <1>4, <1>5

LEMMA SideFinish == ASSUME TableInv, Side, FinishTable PROVE Side'
<1> DEFINE X == ExpandNewSlots(table)
<1>1. step = "overrides" BY DEF FinishTable
<1>2. CASE Unimplemented(X) BY <1>2, SideRefuse DEF FinishTable
<1>3. CASE ~Unimplemented(X)
  <2>1. tables' = Append(tables, X) /\ step' = "idle" /\ table' = EmptyTable BY <1>3 DEF FinishTable
  <2>2. Good(table, Methods) /\ ~refused BY <1>1, Resolving
  <2>3. X.pending = table.pending /\ X.slots = table.slots BY <2>2, ExpandAlike
  <2> HIDE DEF X
  <2>4. Base' = X
    <3>1. Last(tables') = X /\ tables' # <<>> BY <2>1, LastOf DEF TableInv
    <3> QED BY <3>1 DEF Base
  <2>5. Sigs(X) /\ Apart(X) BY <2>2, <2>3, <1>1 DEF Side, Sigs, Apart
  <2>6. Sigs(EmptyTable) BY DEF Sigs, EmptyTable, Empty
  <2> QED BY <2>1, <2>4, <2>5, <2>6 DEF Side
<1> QED BY <1>2, <1>3

LEMMA SideStutter == ASSUME Side, UNCHANGED vars PROVE Side'
BY DEF Side, vars, Base

\* No entry is listed before the first class.
LEMMA InitBound == Init => BInv
<1> SUFFICES ASSUME Init PROVE BInv OBVIOUS
<1>1. Base = EmptyTable /\ table = EmptyTable /\ step = "idle" /\ classes = <<>> /\ ~refused BY DEF Init, Base
<1>2. DOMAIN EmptyTable.slots = {} /\ DOMAIN EmptyTable.impl = {} /\ DOMAIN EmptyTable.pending = {}
  BY DEF EmptyTable, Empty
<1>3. Side BY <1>1, <1>2 DEF Side, Sigs, Apart
<1>4. ASSUME NEW e \in Entries, NEW f, NEW prev, NEW b, BindingOf(f, e), b = f[Len(classes)] PROVE Claim(e, prev, b)
  <2>1. Len(classes) = 0 /\ b = None BY <1>1, <1>4 DEF BindingOf
  <2>2. ~Listed(0, e) BY DEF Listed
  <2>3. Unbound(EmptyTable, e) BY <1>2 DEF Unbound, Free, Absent
  <2> QED BY <2>1, <2>2, <2>3, <1>1 DEF Claim, Settled
<1> QED BY <1>3, <1>4 DEF BInv

\* While a class is resolved.
LEMMA StepClaim ==
  ASSUME InterfaceOverrides, TableInv, Side, step # "idle", Next, refused' = refused, step' # "idle",
         NEW n \in Nat, n = Len(classes), NEW e \in Entries, Fair(e), NEW prev,
         Settled(Base, Under(Methods, n), e, prev, n - 1), Progress(e, prev)
  PROVE  classes' = classes /\ tables' = tables /\ Progress(e, prev)'
<1>1. \A class : ~Start(class) BY DEF Start
<1>2. CASE OverrideImplicitly BY <1>2, ImplicitClaim DEF OverrideImplicitly
<1>3. CASE StartPending BY <1>3, StartPendingClaim DEF StartPending
<1>4. CASE BindPending BY <1>4, BindPendingClaim DEF BindPending
<1>5. CASE StartInterfaces BY <1>5, StartInterfacesClaim DEF StartInterfaces
<1>6. CASE BindInterface BY <1>6, BindInterfaceClaim DEF BindInterface
<1>7. CASE StartOverrides BY <1>7, StartOverridesClaim DEF StartOverrides
<1>8. CASE OverrideExplicitly
  <2>1. classes' = classes /\ tables' = tables BY <1>8 DEF OverrideExplicitly, Refuse
  <2> QED BY <2>1, <1>8, OverrideExplicitlyClaim
<1>9. ~FinishTable
  <2>1. step' = "idle" \/ ~FinishTable BY DEF FinishTable, Refuse
  <2> QED BY <2>1
<1> QED BY <1>1, <1>2, <1>3, <1>4, <1>5, <1>6, <1>7, <1>8, <1>9 DEF Next

\* The rest of the invariant in every step, and all of it when nothing changes.
LEMMA SideNext == ASSUME InterfaceOverrides, TableInv, Side, [Next]_vars PROVE Side'
BY SideStart, SideImplicit, SideStartPending, SidePending, SideStartInterfaces, SideInterface,
   SideStartOverrides, SideExplicit, SideFinish, SideStutter DEF Next

LEMMA StutterBound == ASSUME BInv, UNCHANGED vars PROVE BInv'
<1>1. /\ classes' = classes /\ tables' = tables /\ refused' = refused /\ table' = table /\ step' = step /\ left' = left
  BY DEF vars
<1>2. Base' = Base /\ Side' BY <1>1, SideStutter DEF Base, BInv
<1>3. Methods' = Methods /\ Known' = Known BY <1>1, SameWorld DEF Known
<1>4. \A e, b : Claimed(e, b)' = Claimed(e, b) /\ Turned(e)' = Turned(e) BY <1>1, SameWorld DEF Claimed, Turned
<1>5. \A e, prev, k : Mid(table, e, prev, k)' <=> Mid(table, e, prev, k) BY <1>1, SameMid
<1>6. \A e, prev, k : AfterInterfaces(table, e, prev, k)' <=> AfterInterfaces(table, e, prev, k) BY <1>1, SameAfter
<1>7. \A e, b, k : /\ Settled(table, Known, e, b, k)' <=> Settled(table, Known, e, b, k)
                   /\ Settled(Base, Methods, e, b, k)' <=> Settled(Base, Methods, e, b, k)
                   /\ \A j : Settled(Base, Under(Methods, j), e, b, k)' <=> Settled(Base, Under(Methods, j), e, b, k)
  BY <1>1, <1>2, <1>3, SameSettled
<1>8. \A e, prev : Progress(e, prev)' <=> Progress(e, prev)
  BY <1>1, <1>4, <1>5, <1>6, <1>7, SameWorld DEF Progress
<1>9. \A e, prev, b : Claim(e, prev, b)' <=> Claim(e, prev, b) BY <1>1, <1>7, <1>8 DEF Claim
<1> QED BY <1>1, <1>2, <1>9, SameWorld DEF BInv

\* The interface entries in every step.
LEMMA NextBound == ASSUME InterfaceOverrides, TableInv, BInv, Next PROVE BInv'
<1>0. Side /\ Len(classes) \in Nat BY DEF BInv, TableInv, Chain
<1> SUFFICES ASSUME NEW n \in Nat, n = Len(classes) PROVE BInv' BY <1>0
<1>1. Side' BY <1>0, SideNext
<1>2. ASSUME ~refused', NEW e \in Entries, Fair(e)', NEW f, BindingOf(f, e)', NEW prev, NEW b,
             (prev = f[Len(classes) - 1])', (b = f[Len(classes)])'
      PROVE  Claim(e, prev, b)'
  <2>1. ~refused BY <1>2 DEF Next, Start, OverrideImplicitly, StartPending, BindPending, StartInterfaces,
          BindInterface, StartOverrides, OverrideExplicitly, FinishTable, Refuse
  <2>2. refused' = refused BY <2>1, <1>2 DEF Next, Start, OverrideImplicitly, StartPending, BindPending, StartInterfaces,
          BindInterface, StartOverrides, OverrideExplicitly, FinishTable, Refuse
  <2>3. CASE step = "idle"
    <3>1. PICK class \in Declarations : Start(class)
      BY <2>3 DEF Next, OverrideImplicitly, StartPending, BindPending, StartInterfaces, BindInterface,
                  StartOverrides, OverrideExplicitly, FinishTable
    <3>2. Longer(class) BY <3>1 DEF Start, Longer, TableInv
    <3>3. Len(classes') - 1 = n BY <3>2, LongerFacts
    <3>4. Fair(e) /\ BindingOf(f, e) BY <3>2, <1>2, FairShorter, BindingShorter
    <3>5. prev = f[n] BY <1>2, <3>3
    <3>6. Claim(e, f[n - 1], prev) BY <3>4, <3>5, <2>1 DEF BInv
    <3>7. Settled(Base, Methods, e, prev, n) BY <3>6, <2>3 DEF Claim
    <3>8. /\ Settled(Base, Under(Methods, n + 1), e, prev, n)'
          /\ Progress(e, prev)'
          /\ Len(classes') = n + 1
      BY <3>1, <3>7, StartClaim
    <3>9. step' # "idle" BY <3>1 DEF Start
    <3> QED BY <3>3, <3>8, <3>9 DEF Claim
  <2>4. CASE step # "idle"
    <3>1. classes' = classes BY <2>4 DEF Next, Start, OverrideImplicitly, StartPending, BindPending, StartInterfaces,
            BindInterface, StartOverrides, OverrideExplicitly, FinishTable, Refuse
    <3>2. Fair(e) /\ BindingOf(f, e) /\ prev = f[n - 1] /\ b = f[n] BY <3>1, <1>2, SameWorld
    <3>3. Claim(e, prev, b) BY <3>2, <2>1 DEF BInv
    <3>4. Settled(Base, Under(Methods, n), e, prev, n - 1) /\ Progress(e, prev)
      BY <3>3, <2>4 DEF Claim
    <3>5. CASE step' # "idle"
      <4>1. tables' = tables /\ Progress(e, prev)' BY <1>0, <3>2, <3>4, <3>5, <2>2, <2>4, StepClaim
      <4>2. Base' = Base BY <4>1 DEF Base
      <4>3. Methods' = Methods BY <3>1, SameWorld
      <4>4. Settled(Base, Under(Methods, n), e, prev, n - 1)'
        BY <3>1, <3>4, <4>2, <4>3, SameSettled
      <4> QED BY <3>1, <3>5, <4>1, <4>4 DEF Claim
    <3>6. CASE step' = "idle"
      <4>1. FinishTable \/ (OverrideExplicitly /\ Refuse)
        BY <2>4, <3>6 DEF Next, Start, OverrideImplicitly, StartPending, BindPending, StartInterfaces,
            BindInterface, StartOverrides, OverrideExplicitly
      <4>2. FinishTable BY <4>1, <1>2 DEF Refuse
      <4>3. BindStep(n, e, prev, b)
        <5>1. n \in 1..n BY <2>4, Resolving
        <5> QED BY <5>1, <3>2 DEF BindingOf
      <4>4. Settled(Base, Methods, e, b, n)' BY <1>0, <4>2, <4>3, <3>4, <2>2, FinishTableClaim
      <4> QED BY <4>4, <3>1, <3>6 DEF Claim
    <3> QED BY <3>5, <3>6
  <2> QED BY <2>3, <2>4
<1> QED BY <1>1, <1>2 DEF BInv

\* In every state, the entries are bound as the classes say.
LEMMA BoundInvariance == Spec => [](InterfaceOverrides => BInv)
<1>1. InterfaceOverrides /\ TableInv /\ BInv /\ [Next]_vars => BInv' BY NextBound, StutterBound
<1> QED BY InitBound, <1>1, OverridesBefore, TableInvariance, PTL DEF Spec

\* What Binding says of class k, from what it says of the class before.
BindNext(k, e, prev) ==
  CASE Overrides(k, e) # {} -> CHOOSE x \in Overrides(k, e) : TRUE
    [] Overrides(k, e) = {} /\ Lists(k, e) /\ Declares(k, e.sig) -> Nearest(k, e.sig)
    [] OTHER -> IF prev = None /\ \E j \in 1..k : Lists(j, e) THEN Nearest(k, e.sig) ELSE prev

\* It is the step that the invariant asks for.
LEMMA BindNextIs ==
  ASSUME Chain, IsFiniteSet(Methods), NEW k \in 1..Len(classes), NEW e, NEW prev
  PROVE  BindStep(k, e, prev, BindNext(k, e, prev))
<1> DEFINE b == BindNext(k, e, prev)
<1>1. k \in Nat /\ k <= Len(classes) /\ k \in DOMAIN classes BY DEF Chain
<1> DEFINE g == e.sig
           none == \A p \in Methods : ~(p.sig = g /\ p.owner <= k)
           near == Nearest(k, g)
<1>2. (none => near = None) /\ (~none => Near(Methods, k, g, near)) BY <1>1, NearestIs
<1>3. CASE Overrides(k, e) # {}
  <2>1. b = CHOOSE x \in Overrides(k, e) : TRUE BY <1>3 DEF BindNext
  <2> QED BY <1>3, <2>1 DEF BindStep
<1>4. CASE Rebinds(k, e)
  <2>1. b = near BY <1>4 DEF BindNext, Rebinds
  <2>2. ~none
    <3>1. PICK m \in MethodsOf(k) : m.sig = g BY <1>4 DEF Rebinds, Declares
    <3>2. m \in Methods /\ m.owner = k BY <3>1, <1>1, OfLevel
    <3> QED BY <3>1, <3>2, <1>1
  <2>3. Overrides(k, e) = {} BY <1>4 DEF Rebinds
  <2> QED BY <2>1, <2>2, <2>3, <1>2, <1>4 DEF BindStep
<1>5. CASE Overrides(k, e) = {} /\ ~Rebinds(k, e)
  <2>1. b = IF prev = None /\ Listed(k, e) THEN near ELSE prev BY <1>5 DEF BindNext, Rebinds, Listed
  <2> QED BY <2>1, <1>2, <1>5 DEF BindStep
<1> QED BY <1>3, <1>4, <1>5 DEF Rebinds

\* Binding's recursion has a solution.
LEMMA BindingExists ==
  ASSUME NEW e, NEW N \in Nat
  PROVE  \E f : f = [k \in 0..N |-> f[k]] /\ f[0] = None /\ \A k \in 1..N : f[k] = BindNext(k, e, f[k - 1])
<1> DEFINE To(f, l) == f = [k \in 0..l |-> f[k]] /\ f[0] = None /\ \A k \in 1..l : f[k] = BindNext(k, e, f[k - 1])
           Bad == {l \in Nat : ~\E f : To(f, l)}
<1>1. SUFFICES ASSUME Bad # {} PROVE FALSE OBVIOUS
<1>2. PICK l \in Bad : \A j \in Bad : l <= j
  <2>1. Bad \subseteq Nat OBVIOUS
  <2> HIDE DEF Bad
  <2> QED BY <1>1, <2>1, Least
<1>3. l \in Nat /\ ~\E f : To(f, l) BY <1>2
<1>4. l # 0
  <2>1. ASSUME l = 0 PROVE To([k \in 0..0 |-> None], l)
    <3>1. 1..l = {} /\ 0 \in 0..0 BY <2>1
    <3> QED BY <3>1, <2>1
  <2> QED BY <2>1, <1>3
<1>5. l - 1 \in Nat /\ l - 1 \notin Bad BY <1>2, <1>3, <1>4
<1>6. PICK f : To(f, l - 1) BY <1>5
<1> DEFINE g == [k \in 0..l |-> IF k = l THEN BindNext(l, e, f[l - 1]) ELSE f[k]]
<1>7. g[0] = None /\ g = [k \in 0..l |-> g[k]]
  <2>1. 0 \in 0..l /\ 0 # l BY <1>3, <1>4
  <2> QED BY <2>1, <1>6
<1>8. ASSUME NEW k \in 1..l PROVE g[k] = BindNext(k, e, g[k - 1])
  <2>1. k \in 0..l /\ k - 1 \in 0..l /\ k - 1 # l BY <1>3
  <2>2. g[k - 1] = f[k - 1] BY <2>1
  <2>3. CASE k = l
    <3>1. g[k] = BindNext(l, e, f[l - 1]) BY <2>1, <2>3
    <3> QED BY <3>1, <2>2, <2>3
  <2>4. CASE k # l
    <3>1. k \in 1..(l - 1) BY <2>4, <1>3
    <3>2. g[k] = f[k] BY <2>1, <2>4
    <3>3. f[k] = BindNext(k, e, f[k - 1]) BY <3>1, <1>6
    <3> QED BY <3>2, <3>3, <2>2
  <2> QED BY <2>3, <2>4
<1>9. To(g, l)
  <2> HIDE DEF g
  <2> QED BY <1>7, <1>8
<1> HIDE DEF g, To
<1> QED BY <1>3, <1>9

\* The specification's Binding is one of the functions that the invariant is about.
LEMMA BindingIs ==
  ASSUME Chain, IsFiniteSet(Methods), NEW e
  PROVE  \E f : BindingOf(f, e) /\ Binding(e) = f[Len(classes)]
<1> DEFINE N == Len(classes)
           is(f) == f = [k \in 0..N |-> IF k = 0 THEN None ELSE BindNext(k, e, f[k - 1])]
           b == CHOOSE f : is(f)
<1>1. N \in Nat BY DEF Chain
<1>2. Binding(e) = b[N] BY DEF Binding, BindNext
<1>3. \E f : is(f)
  <2>1. PICK f : f = [k \in 0..N |-> f[k]] /\ f[0] = None /\ \A k \in 1..N : f[k] = BindNext(k, e, f[k - 1])
    BY <1>1, BindingExists
  <2> HIDE DEF N
  <2> DEFINE h == [k \in 0..N |-> IF k = 0 THEN None ELSE BindNext(k, e, f[k - 1])]
  <2>2. DOMAIN h = DOMAIN f /\ \A k \in 0..N : h[k] = f[k]
    <3>1. ASSUME NEW k \in 0..N PROVE h[k] = f[k]
      <4>1. CASE k = 0 BY <4>1, <2>1
      <4>2. CASE k # 0
        <5>1. k \in 1..N BY <4>2, <1>1
        <5> QED BY <5>1, <4>2, <2>1
      <4> QED BY <4>1, <4>2
    <3> QED BY <3>1, <2>1
  <2>3. is(f)
    <3>1. f = [k \in 0..N |-> f[k]] BY <2>1
    <3>2. h = [k \in 0..N |-> h[k]] OBVIOUS
    <3> HIDE DEF h
    <3>3. f = h BY <2>2, <3>1, <3>2
    <3> QED BY <3>3 DEF h
  <2> QED BY <2>3
<1>4. is(b) BY <1>3
<1> HIDE DEF b
<1>5. \A k \in 0..N : b[k] = IF k = 0 THEN None ELSE BindNext(k, e, b[k - 1]) BY <1>4
<1>6. b[0] = None BY <1>1, <1>5
<1>7. ASSUME NEW k \in 1..N PROVE BindStep(k, e, b[k - 1], b[k])
  <2>1. k \in 0..N /\ k # 0 BY <1>1
  <2>2. b[k] = BindNext(k, e, b[k - 1]) BY <2>1, <1>5
  <2> QED BY <2>2, BindNextIs
<1> QED BY <1>2, <1>6, <1>7 DEF BindingOf

\* What the property leaves out of its claim about an entry.
LEMMA FairIs ==
  ASSUME Chain, IsFiniteSet(Methods), Top = Len(classes), NEW e,
         \A k \in DOMAIN classes : Hides(k) => Overrides(k, e) = {},
         \A j \in DOMAIN classes : Rebinds(j, e) =>
           \A k \in 1..j : \A x \in Overrides(k, e) : \A i \in j..Top : ~Touches(i, x)
  PROVE  Fair(e)
<1>1. Len(classes) \in Nat /\ DOMAIN classes = 1..Len(classes) /\ AreMethods(Methods) BY MethodsAre DEF Chain
<1>2. ASSUME NEW j \in DOMAIN classes, Rebinds(j, e), NEW k \in 1..j, NEW x \in Overrides(k, e),
             NEW o \in Methods, SlotIs(Methods, x, o), NEW i \in j..Len(classes)
      PROVE  Quiet(i, o)
  <2>1. ~Touches(i, x) BY <1>2
  <2>2. k \in DOMAIN classes /\ i \in DOMAIN classes BY <1>1
  <2>3. x \in Methods BY <2>2, OverridesAre
  <2>4. Slot(x) = o BY <1>1, <1>2, <2>3, SlotLink, SlotOnce
  <2>5. o.sig = x.sig BY <1>1, <1>2, <2>3, SlotFacts
  <2>6. ASSUME NEW y \in Methods, y.owner = i, SlotIs(Methods, y, o) PROVE FALSE
    <3>1. Slot(y) = o BY <1>1, <2>6, SlotLink, SlotOnce
    <3>2. y \in MethodsOf(i) BY <2>2, <2>6, OfLevel
    <3> QED BY <2>1, <2>4, <3>1, <3>2 DEF Touches, Implicit
  <2>7. \A p \in DOMAIN classes[i].lists : o.sig \notin DOMAIN InterfaceSlots[classes[i].lists[p]]
    BY <2>1, <2>5 DEF Touches, Range
  <2> QED BY <2>6, <2>7 DEF Quiet
<1> QED BY <1>2 DEF Fair

\* A call through an entry that sits in the slot of o runs the last override of it.
LEMMA QueryBound ==
  ASSUME NEW M, AreMethods(M), NEW T, Good(T, M), NEW e \in Entries, NEW o \in M, SlotIs(M, o, o),
         e \in DOMAIN T.impl, LastIs(M, o, T.impl[e])
  PROVE  Query(T, e) = [done |-> TRUE, at |-> T.impl[e]]
<1> DEFINE x == T.impl[e]
           end == [done |-> TRUE, at |-> x]
<1>1. /\ e \notin DOMAIN T.newSlot /\ DOMAIN T.replace = {} /\ IsFiniteSet(DOMAIN T.impl)
      /\ o \in DOMAIN T.impl
  BY EntriesApart DEF Good
<1>2. T.impl[o] = x
  <2>1. LastIs(M, o, T.impl[o]) BY DEF Good
  <2>2. /\ x \in M /\ SlotIs(M, x, o) /\ T.impl[o] \in M /\ SlotIs(M, T.impl[o], o)
        /\ x.owner = T.impl[o].owner
    BY <2>1 DEF LastIs, AreMethods
  <2> QED BY <2>2, SlotSame
<1>3. CASE x \in DOMAIN T.newSlot /\ e # T.newSlot[x]
  <2>1. T.newSlot[x] = o BY <1>3, SlotOnce DEF Good, LastIs
  <2>2. Turn(T, e) = [done |-> FALSE, at |-> o] BY <1>1, <1>3, <2>1, TurnIs
  <2>3. Turn(T, o) = end BY <1>2, TurnOpener
  <2> QED BY <2>2, <2>3, <1>1, QueryTwo
<1>4. CASE ~(x \in DOMAIN T.newSlot /\ e # T.newSlot[x])
  <2>1. Turn(T, e) = end BY <1>1, <1>4, TurnIs
  <2> QED BY <2>1, <1>1, QueryTwo
<1> QED BY <1>3, <1>4

\* A call through an interface runs the last override of what the last class to
\* say so bound the entry to, for all chains of classes whose explicit overrides
\* are those of interface methods: whichever class lists the interface, declares
\* or inherits the method, leaves it to a derived class, binds it anew or away by
\* an explicit override, and whatever else is in the slots in between.
THEOREM InterfaceCallsBound == Spec => [](InterfaceOverrides => InterfaceBound)
<1>1. ASSUME InterfaceOverrides, TableInv, BInv, Concrete, NEW e \in Entries, Binding(e) # None, Fair(e)
      PROVE  Query(tables[Top], e) = [done |-> TRUE, at |-> Runs(Top, Slot(Binding(e)))]
  <2> DEFINE T == tables[Top]
             b == Binding(e)
  <2>1. /\ Chain /\ Top = Len(classes) /\ AreMethods(Methods) /\ Good(T, Methods) /\ IsFiniteSet(Methods)
    BY <1>1, ConcreteTable
  <2>2. Base = T BY <1>1 DEF Base, Last, Top, Concrete
  <2> HIDE DEF T
  <2>3. PICK f : BindingOf(f, e) /\ b = f[Len(classes)] BY <2>1, BindingIs
  <2> HIDE DEF b
  <2>4. Claim(e, f[Len(classes) - 1], b) BY <1>1, <2>3 DEF BInv, Concrete
  <2>5. Holds(T, Methods, e, b, Len(classes)) BY <1>1, <2>2, <2>4 DEF Claim, Settled, Concrete, b
  <2>6. PICK o \in Methods : /\ b \in Methods /\ SlotIs(Methods, b, o)
                             /\ e \in DOMAIN T.impl /\ LastIs(Methods, o, T.impl[e])
    BY <2>5 DEF Holds, Bound, Sits
  <2>7. Slot(b) = o /\ o \in Slots BY <2>1, <2>6, SlotLink, SlotOnce
  <2>8. SlotIs(Methods, o, o) BY <2>1, <2>6, SlotFacts, OwnSlot
  <2>9. Query(T, e) = [done |-> TRUE, at |-> T.impl[e]] BY <2>1, <2>6, <2>8, QueryBound
  <2>10. Runs(Top, o) = T.impl[e] BY <1>1, <2>1, <2>6, <2>7, RunsLast
  <2> QED BY <2>7, <2>9, <2>10 DEF T, b
<1>2. ASSUME InterfaceOverrides, TableInv, BInv PROVE InterfaceBound
  <2>1. ASSUME Concrete, NEW e \in Entries, Binding(e) # None,
               \A k \in DOMAIN classes : Hides(k) => Overrides(k, e) = {},
               \A j \in DOMAIN classes : Rebinds(j, e) =>
                 \A k \in 1..j : \A x \in Overrides(k, e) : \A i \in j..Top : ~Touches(i, x)
        PROVE  Query(tables[Top], e) = [done |-> TRUE, at |-> Runs(Top, Slot(Binding(e)))]
    <3>1. Fair(e) BY <1>2, <2>1, ConcreteTable, FairIs
    <3> QED BY <1>1, <1>2, <2>1, <3>1
  <2> QED BY <2>1 DEF InterfaceBound
<1> QED BY <1>2, TableInvariance, BoundInvariance, PTL
=============================================================================
