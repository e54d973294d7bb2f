-------------------------- MODULE TypeGraphProofs ---------------------------
(***************************************************************************)
(* Proofs about TypeGraph, for every set of types whose definitions are    *)
(* acyclic and every program.  Only the last theorem depends on what the   *)
(* comparison of arguments decides.                                        *)
(***************************************************************************)
EXTENDS TypeGraph, SequenceTheorems, TLAPS

(***************************************************************************)
(* The inductive invariant.  Part by part:                                 *)
(*  - the stack is a path of parents without a type twice;                 *)
(*  - all that is above an expanded type is expanded;                      *)
(*  - only expanded types have links, derived types and a group;           *)
(*  - i and j are a pair of the group that is walked.                      *)
(***************************************************************************)
StackInv ==
  /\ \A k \in 1..(Len(stack) - 1) : stack[k + 1] \in ToSet(Parents[stack[k]])
  /\ \A k, l \in 1..Len(stack) : stack[k] = stack[l] => k = l

AboveInv == \A x \in Expanded : Above(x) \subseteq Expanded

ExpandedInv ==
  /\ \A x \in Types \ Expanded : VarianceBaseTypes[x] = {} /\ DerivedTypes[x] = {}
  /\ TypeGroup \in [Defs -> Seq(Expanded)]
  /\ vlist \in Seq(Expanded)

PairInv == vlist # <<>> => i \in 1..Len(vlist) /\ j \in 1..Len(vlist)

IInv == TypeOK /\ StackInv /\ AboveInv /\ ExpandedInv /\ PairInv /\ DerivedClosed

-----------------------------------------------------------------------------
\* The elements of a sequence are its range.
LEMMA ToSetOfSeq ==
  ASSUME NEW S, NEW s \in Seq(S)
  PROVE  ToSet(s) = {s[k] : k \in 1..Len(s)} /\ ToSet(s) \subseteq S
  BY LenProperties, ElementOfSeq DEF ToSet

\* A type is not among its own base types and interfaces, directly or not.
LEMMA ParentsAcyclic ==
  ASSUME NEW S \in SUBSET Types, S # {}
  PROVE  \E x \in S : ToSet(Parents[x]) \cap S = {}
  BY DefinitionsAcyclic DEF Peers

\* Parents are types.
LEMMA ParentsAreTypes == \A x \in Types : ToSet(Parents[x]) \subseteq Types
  BY TypeAssumption, ToSetOfSeq

\* The set Visited stays in any closed set that holds the start, and is closed.
LEMMA VisitedClosed ==
  ASSUME TypeOK, NEW E \in SUBSET typeMap, NEW start \in SUBSET E,
         NEW links,
         \A x \in E : ToSet(Parents[x]) \cup links[x] \subseteq E
  PROVE  /\ Visited(start, links) \subseteq E
         /\ start \subseteq Visited(start, links)
         /\ \A x \in Visited(start, links) :
              ToSet(Parents[x]) \cup links[x] \subseteq Visited(start, links)
  BY DEF Visited

\* What AddDerived makes of the derived types.
LEMMA AddDerivedEffect ==
  ASSUME TypeOK, NEW V \in SUBSET typeMap, NEW new \in SUBSET typeMap, AddDerived(V, new)
  PROVE  /\ DerivedTypes' \in [Types -> SUBSET typeMap]
         /\ \A x \in Types : DerivedTypes'[x] = IF x \in V THEN DerivedTypes[x] \cup new ELSE DerivedTypes[x]
  BY DEF AddDerived, TypeOK

\* Taking the innermost type off the stack.
LEMMA PopStack ==
  ASSUME TypeOK, StackInv, stack # <<>>
  PROVE  /\ Front(stack) \in Seq(typeMap)
         /\ Len(stack) \in Nat \ {0}
         /\ Len(Front(stack)) = Len(stack) - 1
         /\ \A k \in 1..(Len(stack) - 1) : Front(stack)[k] = stack[k]
         /\ Last(stack) = stack[Len(stack)]
         /\ Last(stack) \in typeMap
         /\ ToSet(stack) = ToSet(Front(stack)) \cup {Last(stack)}
         /\ Last(stack) \notin ToSet(Front(stack))
<1>1. Len(stack) \in Nat \ {0}
  BY EmptySeq DEF TypeOK
<1>2. \A k \in 1..Len(stack) : stack[k] \in typeMap
  BY ElementOfSeq DEF TypeOK
<1>3. /\ Front(stack) \in Seq(typeMap)
      /\ Len(Front(stack)) = Len(stack) - 1
      /\ \A k \in 1..(Len(stack) - 1) : Front(stack)[k] = stack[k]
  <2>1. \A k \in 1..(Len(stack) - 1) : stack[k] \in typeMap
    BY <1>1, <1>2
  <2>2. /\ SubSeq(stack, 1, Len(stack) - 1) \in Seq(typeMap)
        /\ Len(SubSeq(stack, 1, Len(stack) - 1)) = IF 1 <= Len(stack) - 1 THEN Len(stack) - 1 - 1 + 1 ELSE 0
        /\ \A k \in 1..(Len(stack) - 1 - 1 + 1) : SubSeq(stack, 1, Len(stack) - 1)[k] = stack[1 + k - 1]
    BY <1>1, <2>1, SubSeqProperties
  <2>3. ASSUME NEW n \in Nat \ {0} PROVE (IF 1 <= n - 1 THEN n - 1 - 1 + 1 ELSE 0) = n - 1
    OBVIOUS
  <2>4. \A k \in 1..(Len(stack) - 1) : SubSeq(stack, 1, Len(stack) - 1)[k] = stack[k]
    BY <1>1, <2>2
  <2> QED BY <1>1, <2>2, <2>3, <2>4 DEF Front
<1>4. Last(stack) = stack[Len(stack)] /\ Last(stack) \in typeMap
  BY <1>1, <1>2 DEF Last
<1>5. /\ ToSet(stack) = {stack[k] : k \in 1..Len(stack)}
      /\ ToSet(Front(stack)) = {Front(stack)[k] : k \in 1..(Len(stack) - 1)}
  BY <1>3, ToSetOfSeq DEF TypeOK
<1>6. ToSet(Front(stack)) = {stack[k] : k \in 1..(Len(stack) - 1)}
  BY <1>3, <1>5
<1>7. ToSet(stack) = ToSet(Front(stack)) \cup {Last(stack)}
  <2>1. 1..Len(stack) = (1..(Len(stack) - 1)) \cup {Len(stack)}
    BY <1>1
  <2> QED BY <1>4, <1>5, <1>6, <2>1
<1>8. Last(stack) \notin ToSet(Front(stack))
  <2>1. ASSUME NEW k \in 1..(Len(stack) - 1), stack[k] = stack[Len(stack)] PROVE FALSE
    <3>1. k \in 1..Len(stack) /\ Len(stack) \in 1..Len(stack) /\ k # Len(stack)
      BY <1>1
    <3> QED BY <2>1, <3>1 DEF StackInv
  <2> QED BY <1>4, <1>6, <2>1
<1> QED BY <1>1, <1>3, <1>4, <1>7, <1>8

\* A type is put on the stack that was not in typeMap, and that is a parent of
\* the innermost one if there is one: nothing becomes expanded or ceases to be.
LEMMA PushStep ==
  ASSUME TypeOK, StackInv, NEW x \in Types \ typeMap, Push(x),
         stack # <<>> => x \in ToSet(Parents[Last(stack)])
  PROVE  /\ typeMap' \subseteq Types /\ typeMap \subseteq typeMap'
         /\ stack' \in Seq(typeMap')
         /\ StackInv'
         /\ Expanded' = Expanded
<1>1. stack \in Seq(typeMap') /\ x \in typeMap' /\ typeMap' = typeMap \cup {x}
  BY SeqMonotonic DEF TypeOK, Push
<1>2. /\ stack' \in Seq(typeMap')
      /\ Len(stack) \in Nat /\ Len(stack') = Len(stack) + 1
      /\ \A k \in 1..Len(stack) : stack'[k] = stack[k]
      /\ stack'[Len(stack) + 1] = x
  <2>1. stack' = Append(stack, x)
    BY DEF Push
  <2> QED BY <1>1, <2>1, AppendProperties, LenProperties
<1>3. \A k \in 1..Len(stack) : stack[k] \in typeMap /\ stack[k] # x
  BY ElementOfSeq DEF TypeOK
<1>4. ToSet(stack') = ToSet(stack) \cup {x}
  <2>1. ToSet(stack') = {stack'[k] : k \in 1..(Len(stack) + 1)}
    BY <1>2, ToSetOfSeq
  <2>2. ToSet(stack) = {stack[k] : k \in 1..Len(stack)}
    BY ToSetOfSeq DEF TypeOK
  <2>3. 1..(Len(stack) + 1) = (1..Len(stack)) \cup {Len(stack) + 1}
    BY <1>2
  <2> QED BY <1>2, <2>1, <2>2, <2>3
<1>5. Expanded' = Expanded
  BY <1>1, <1>4 DEF Expanded
<1>6. \A k, l \in 1..Len(stack') : stack'[k] = stack'[l] => k = l
  BY <1>2, <1>3 DEF StackInv
<1>7. ASSUME NEW k \in 1..(Len(stack') - 1)
      PROVE  stack'[k + 1] \in ToSet(Parents[stack'[k]])
  <2>1. CASE k = Len(stack)
    <3>1. stack # <<>> /\ k \in 1..Len(stack)
      BY <1>2, <1>7, <2>1, EmptySeq
    <3>2. stack'[k + 1] = x /\ stack'[k] = Last(stack)
      BY <1>2, <2>1, <3>1 DEF Last
    <3> QED BY <3>1, <3>2
  <2>2. CASE k # Len(stack)
    <3>1. k \in 1..(Len(stack) - 1) /\ k \in 1..Len(stack) /\ k + 1 \in 1..Len(stack)
      BY <1>2, <1>7, <2>2
    <3> QED BY <1>2, <3>1 DEF StackInv
  <2> QED BY <2>1, <2>2
<1> QED BY <1>1, <1>2, <1>5, <1>6, <1>7 DEF StackInv, TypeOK

\* When all parents of the innermost type are in typeMap they are expanded: if
\* one was on the stack, the types from it up to the innermost would each have
\* a parent among them.
LEMMA ParentsExpanded ==
  ASSUME TypeOK, StackInv, stack # <<>>, ToSet(Parents[Last(stack)]) \subseteq typeMap
  PROVE  ToSet(Parents[Last(stack)]) \subseteq Expanded
<1> SUFFICES ASSUME NEW p \in ToSet(Parents[Last(stack)]), p \notin Expanded PROVE FALSE
  OBVIOUS
<1>1. Len(stack) \in Nat \ {0} /\ Last(stack) = stack[Len(stack)]
  BY PopStack
<1>2. PICK k \in 1..Len(stack) : stack[k] = p
  <2>1. p \in ToSet(stack)
    BY DEF Expanded
  <2>2. ToSet(stack) = {stack[m] : m \in 1..Len(stack)}
    BY ToSetOfSeq DEF TypeOK
  <2> QED BY <2>1, <2>2
<1> DEFINE S == {stack[m] : m \in k..Len(stack)}
<1>3. S \in SUBSET Types /\ S # {}
  <2>1. \A m \in 1..Len(stack) : stack[m] \in Types
    BY ElementOfSeq DEF TypeOK
  <2>2. \A m \in k..Len(stack) : m \in 1..Len(stack)
    BY <1>1, <1>2
  <2>3. k \in k..Len(stack)
    BY <1>1, <1>2
  <2> QED BY <2>1, <2>2, <2>3
<1>4. PICK x \in S : ToSet(Parents[x]) \cap S = {}
  BY <1>3, ParentsAcyclic
<1>5. PICK m \in k..Len(stack) : x = stack[m]
  BY <1>4
<1>6. CASE m = Len(stack)
  <2>1. k \in k..Len(stack)
    BY <1>1, <1>2
  <2>2. p \in S
    BY <1>2, <2>1
  <2> QED BY <1>1, <1>4, <1>5, <1>6, <2>2
<1>7. CASE m # Len(stack)
  <2>1. m \in 1..(Len(stack) - 1) /\ m + 1 \in k..Len(stack)
    BY <1>1, <1>2, <1>5, <1>7
  <2>2. stack[m + 1] \in ToSet(Parents[x]) /\ stack[m + 1] \in S
    BY <1>5, <2>1 DEF StackInv
  <2> QED BY <1>4, <2>2
<1> QED BY <1>6, <1>7

-----------------------------------------------------------------------------
LEMMA InitInv == Init => IInv
<1> SUFFICES ASSUME Init PROVE IInv
  OBVIOUS
<1> USE DEF Init
<1>1. \A S : <<>> \in Seq(S) /\ Len(<<>>) = 0
  BY EmptySeq
<1>2. uses \in Seq(Types)
  BY TypeAssumption
<1>3. TypeOK
  <2>1. \A S : <<>> \in Seq(S)
    BY <1>1
  <2>2. /\ stack \in Seq(typeMap) /\ vlist \in Seq(typeMap)
        /\ VarianceMap \in Seq(Defs) /\ vgList \in Seq(Defs)
        /\ TypeGroup \in [Defs -> Seq(typeMap)]
    BY <2>1
  <2>3. /\ DerivedTypes \in [Types -> SUBSET typeMap]
        /\ VarianceBaseTypes \in [Types -> SUBSET typeMap]
        /\ IsProcessed \in [Defs -> BOOLEAN]
    OBVIOUS
  <2>4. i \in Nat \ {0} /\ j \in Nat \ {0} /\ isLoop \in BOOLEAN
    <3>1. i = 1 /\ j = 1
      OBVIOUS
    <3>2. isLoop \in BOOLEAN
      OBVIOUS
    <3> HIDE DEF Init
    <3> QED BY <3>1, <3>2
  <2>5. typeMap \subseteq Types /\ phase \in {"methods", "variances", "done"}
    OBVIOUS
  <2> HIDE DEF Init
  <2> QED BY <1>2, <2>2, <2>3, <2>4, <2>5 DEF TypeOK
<1>4. Expanded = {}
  BY DEF Expanded
<1>5. StackInv /\ PairInv
  BY <1>1 DEF StackInv, PairInv
<1>6. AboveInv /\ ExpandedInv /\ DerivedClosed
  BY <1>1, <1>4 DEF AboveInv, ExpandedInv, DerivedClosed
<1> QED BY <1>3, <1>5, <1>6 DEF IInv

\* A step that puts a type on the stack keeps the invariant.
LEMMA PushKeeps ==
  ASSUME IInv, NEW x \in Types \ typeMap, Push(x),
         stack # <<>> => x \in ToSet(Parents[Last(stack)]),
         uses' \in Seq(Types), UNCHANGED <<graph, IsProcessed, loop>>
  PROVE  IInv'
<1>1. TypeOK /\ StackInv
  BY DEF IInv
<1>2. /\ typeMap' \subseteq Types /\ typeMap \subseteq typeMap'
      /\ stack' \in Seq(typeMap')
      /\ StackInv'
      /\ Expanded' = Expanded
  BY <1>1, PushStep
<1>3. UNCHANGED <<DerivedTypes, VarianceBaseTypes, TypeGroup, VarianceMap, IsProcessed,
                  phase, vgList, vlist, i, j, isLoop>>
  BY DEF graph, loop
<1>4. \A d \in Defs : TypeGroup[d] \in Seq(typeMap')
  BY <1>1, <1>2, SeqMonotonic DEF TypeOK
<1>5. vlist \in Seq(typeMap')
  BY <1>1, <1>2, SeqMonotonic DEF TypeOK
<1>6. TypeOK'
  BY <1>1, <1>2, <1>3, <1>4, <1>5 DEF TypeOK
<1>7. AboveInv' /\ ExpandedInv' /\ PairInv' /\ DerivedClosed'
  BY <1>2, <1>3 DEF IInv, AboveInv, Above, ExpandedInv, PairInv, DerivedClosed
<1> QED BY <1>2, <1>6, <1>7 DEF IInv

\* The innermost type becomes expanded.
LEMMA FinishKeeps == ASSUME IInv, FinishExpand PROVE IInv'
<1> DEFINE t == Last(stack)
           V == Visited(ToSet(Parents[t]), VarianceBaseTypes)
<1>1. TypeOK /\ StackInv /\ AboveInv /\ ExpandedInv /\ PairInv /\ DerivedClosed
  BY DEF IInv
<1>2. /\ stack # <<>> /\ ToSet(Parents[t]) \subseteq typeMap
      /\ stack' = Front(stack)
      /\ TryAddVariance(t) /\ AddDerived(V, {t})
      /\ UNCHANGED <<uses, typeMap, VarianceBaseTypes, phase, vgList, vlist, i, j, isLoop>>
  BY DEF FinishExpand, loop
<1>3. /\ Front(stack) \in Seq(typeMap)
      /\ Len(stack) \in Nat \ {0}
      /\ Len(Front(stack)) = Len(stack) - 1
      /\ \A k \in 1..(Len(stack) - 1) : Front(stack)[k] = stack[k]
      /\ t \in typeMap
      /\ ToSet(stack) = ToSet(Front(stack)) \cup {t}
      /\ t \notin ToSet(Front(stack))
  BY <1>1, <1>2, PopStack
<1>4. Expanded' = Expanded \cup {t} /\ t \notin Expanded /\ Expanded \subseteq typeMap /\ t \in Types
  BY <1>1, <1>2, <1>3 DEF Expanded, TypeOK
<1>5. StackInv'
  <2>1. \A k \in 1..(Len(stack) - 1) : k \in 1..Len(stack)
    BY <1>3
  <2>2. \A k \in 1..(Len(stack) - 1 - 1) :
          k \in 1..(Len(stack) - 1) /\ k + 1 \in 1..(Len(stack) - 1)
    BY <1>3
  <2> QED BY <1>1, <1>2, <1>3, <2>1, <2>2 DEF StackInv
<1>6. ToSet(Parents[t]) \subseteq Expanded
  BY <1>1, <1>2, ParentsExpanded
<1>7. VarianceBaseTypes[t] = {} /\ DerivedTypes[t] = {}
  BY <1>1, <1>4 DEF ExpandedInv
<1>8. AboveInv'
  BY <1>1, <1>2, <1>4, <1>6, <1>7 DEF AboveInv, Above
<1>9. /\ V \subseteq Expanded
      /\ ToSet(Parents[t]) \subseteq V
      /\ \A x \in V : Above(x) \subseteq V
  <2>1. \A x \in Expanded : ToSet(Parents[x]) \cup VarianceBaseTypes[x] \subseteq Expanded
    BY <1>1 DEF AboveInv, Above
  <2> HIDE DEF t
  <2>2. /\ V \subseteq Expanded
        /\ ToSet(Parents[t]) \subseteq V
        /\ \A x \in V : ToSet(Parents[x]) \cup VarianceBaseTypes[x] \subseteq V
    BY <1>1, <1>4, <1>6, <2>1, VisitedClosed
  <2> QED BY <2>2 DEF Above
<1> HIDE DEF V, t
<1>10. /\ DerivedTypes' \in [Types -> SUBSET typeMap]
       /\ \A x \in Types : DerivedTypes'[x] = IF x \in V THEN DerivedTypes[x] \cup {t} ELSE DerivedTypes[x]
  <2>1. V \in SUBSET typeMap /\ {t} \in SUBSET typeMap /\ AddDerived(V, {t})
    BY <1>2, <1>3, <1>4, <1>9
  <2> QED BY ONLY <1>1, <2>1, AddDerivedEffect
<1>11. /\ TypeGroup' \in [Defs -> Seq(Expanded')]
       /\ IsProcessed' \in [Defs -> BOOLEAN]
       /\ VarianceMap' \in Seq(Defs)
  <2>1. TypeGroup \in [Defs -> Seq(Expanded')]
    <3>1. \A d \in Defs : TypeGroup[d] \in Seq(Expanded')
      BY <1>1, <1>4, SeqMonotonic DEF ExpandedInv
    <3> QED BY <1>1, <3>1 DEF ExpandedInv
  <2>2. CASE DefOf[t] = NoDef
    BY <1>1, <1>2, <2>1, <2>2 DEF TryAddVariance, TypeOK
  <2>3. CASE DefOf[t] # NoDef
    <3> DEFINE d == DefOf[t]
    <3>1. d \in Defs
      BY <1>4, <2>3, TypeAssumption
    <3>2. /\ TypeGroup' = [TypeGroup EXCEPT ![d] = Append(@, t)]
          /\ IsProcessed' = [IsProcessed EXCEPT ![d] = FALSE]
          /\ VarianceMap' = IF TypeGroup[d] = <<>> THEN Append(VarianceMap, d) ELSE VarianceMap
      BY <1>2, <2>3 DEF TryAddVariance
    <3> HIDE DEF d
    <3>3. Append(TypeGroup[d], t) \in Seq(Expanded') /\ Append(VarianceMap, d) \in Seq(Defs)
      BY <1>1, <1>4, <2>1, <3>1, AppendProperties DEF TypeOK
    <3>4. VarianceMap' \in Seq(Defs)
      BY <1>1, <3>2, <3>3 DEF TypeOK
    <3> QED BY <1>1, <2>1, <3>1, <3>2, <3>3, <3>4 DEF TypeOK
  <2> QED BY <2>2, <2>3
<1>12. TypeGroup' \in [Defs -> Seq(typeMap)]
  <2>1. \A d \in Defs : TypeGroup'[d] \in Seq(typeMap)
    BY <1>3, <1>4, <1>11, SeqMonotonic
  <2> QED BY <1>11, <2>1
<1>13. TypeOK'
  BY <1>1, <1>2, <1>3, <1>10, <1>11, <1>12 DEF TypeOK
<1>14. ExpandedInv'
  <2>1. vlist' \in Seq(Expanded')
    BY <1>1, <1>2, <1>4, SeqMonotonic DEF ExpandedInv
  <2>2. \A x \in Types \ Expanded' : VarianceBaseTypes'[x] = {} /\ DerivedTypes'[x] = {}
    BY <1>1, <1>2, <1>4, <1>9, <1>10 DEF ExpandedInv
  <2> QED BY <1>11, <2>1, <2>2 DEF ExpandedInv
<1>15. PairInv'
  BY <1>1, <1>2 DEF PairInv
<1>16. ASSUME NEW x \in Expanded', NEW p \in Above(x)'
       PROVE  DerivedTypes'[x] \cup {x} \subseteq DerivedTypes'[p]
  <2>1. x \in Types /\ p \in Types /\ p \in Above(x)
    BY <1>1, <1>2, <1>4, <1>8, <1>16 DEF AboveInv, Above, TypeOK
  <2>2. CASE x \in V
    <3>1. p \in V /\ x \in Expanded
      BY <1>9, <2>1, <2>2
    <3>2. DerivedTypes[x] \cup {x} \subseteq DerivedTypes[p]
      BY <1>1, <2>1, <3>1 DEF DerivedClosed
    <3> QED BY <1>10, <2>1, <2>2, <3>1, <3>2
  <2>3. CASE x \notin V /\ x \in Expanded
    <3>1. DerivedTypes[x] \cup {x} \subseteq DerivedTypes[p]
      BY <1>1, <2>1, <2>3 DEF DerivedClosed
    <3> QED BY <1>10, <2>1, <2>3, <3>1
  <2>4. CASE x = t
    <3>1. x \notin V /\ p \in V
      BY <1>4, <1>7, <1>9, <2>1, <2>4 DEF Above
    <3> QED BY <1>7, <1>10, <2>1, <2>4, <3>1
  <2> QED BY <1>4, <2>2, <2>3, <2>4
<1>17. DerivedClosed'
  BY <1>16 DEF DerivedClosed
<1> QED BY <1>5, <1>8, <1>13, <1>14, <1>15, <1>17 DEF IInv

\* The next pair of the group, or the end of it.
LEMMA NextPairKeeps ==
  ASSUME ExpandedInv, PairInv, NextPair, vlist # <<>>
  PROVE  PairInv' /\ vlist' \in Seq(Expanded) /\ i' \in Nat \ {0} /\ j' \in Nat \ {0}
<1>1. Len(vlist) \in Nat /\ i \in 1..Len(vlist) /\ j \in 1..Len(vlist) /\ vlist \in Seq(Expanded)
  BY LenProperties DEF PairInv, ExpandedInv
<1>2. <<>> \in Seq(Expanded)
  BY EmptySeq
<1>3. CASE j < Len(vlist)
  <2>1. j' = j + 1 /\ vlist' = vlist /\ i' = i
    BY <1>3 DEF NextPair
  <2> QED BY <1>1, <1>3, <2>1 DEF PairInv
<1>4. CASE ~(j < Len(vlist)) /\ i < Len(vlist) - 1
  <2>1. i' = i + 1 /\ j' = i + 2 /\ vlist' = vlist
    BY <1>4 DEF NextPair
  <2> QED BY <1>1, <1>4, <2>1 DEF PairInv
<1>5. CASE ~(j < Len(vlist)) /\ ~(i < Len(vlist) - 1)
  <2>1. vlist' = <<>> /\ i' = i /\ j' = j
    BY <1>5 DEF NextPair
  <2> QED BY <1>1, <1>2, <2>1 DEF PairInv
<1> QED BY <1>3, <1>4, <1>5

\* A variance link is made.
LEMMA LinkKeeps ==
  ASSUME IInv, NEW base \in Expanded, NEW derived \in Expanded,
         AddVarianceBaseType(base, derived), NextPair, vlist # <<>>
  PROVE  IInv'
<1> DEFINE links == [VarianceBaseTypes EXCEPT ![derived] = @ \cup {base}]
           V == Visited({base}, links)
           new == DerivedTypes[derived] \cup {derived}
<1>1. TypeOK /\ StackInv /\ AboveInv /\ ExpandedInv /\ PairInv /\ DerivedClosed
  BY DEF IInv
<1>2. /\ VarianceBaseTypes' = links
      /\ IF base \in VarianceBaseTypes[derived] THEN UNCHANGED DerivedTypes
         ELSE AddDerived(V, new)
  BY DEF AddVarianceBaseType
<1>3. UNCHANGED <<uses, typeMap, stack, TypeGroup, VarianceMap, IsProcessed, phase, vgList, isLoop>>
  BY DEF NextPair
<1>4. Expanded \subseteq typeMap /\ Expanded \subseteq Types /\ Expanded' = Expanded
  BY <1>1, <1>3 DEF Expanded, TypeOK
<1>5. /\ links \in [Types -> SUBSET typeMap]
      /\ \A x \in Types : links[x] = IF x = derived THEN VarianceBaseTypes[x] \cup {base}
                                    ELSE VarianceBaseTypes[x]
  BY <1>1, <1>4 DEF TypeOK
<1>6. PairInv' /\ vlist' \in Seq(Expanded) /\ i' \in Nat \ {0} /\ j' \in Nat \ {0}
  BY <1>1, NextPairKeeps
<1>7. \A x \in Expanded : ToSet(Parents[x]) \cup links[x] \subseteq Expanded
  BY <1>1, <1>4, <1>5 DEF AboveInv, Above
<1>8. /\ V \subseteq Expanded /\ base \in V
      /\ \A x \in V : ToSet(Parents[x]) \cup links[x] \subseteq V
  <2> HIDE DEF links
  <2>1. {base} \in SUBSET Expanded
    OBVIOUS
  <2> QED BY <1>1, <1>4, <1>7, <2>1, VisitedClosed
<1>9. new \in SUBSET typeMap
  BY <1>1, <1>4 DEF TypeOK
<1> HIDE DEF links, V, new
<1>10. /\ DerivedTypes' \in [Types -> SUBSET typeMap]
       /\ base \notin VarianceBaseTypes[derived] =>
            \A x \in Types : DerivedTypes'[x] = IF x \in V THEN DerivedTypes[x] \cup new ELSE DerivedTypes[x]
       /\ base \in VarianceBaseTypes[derived] => DerivedTypes' = DerivedTypes
  <2>1. CASE base \in VarianceBaseTypes[derived]
    BY <1>1, <1>2, <2>1 DEF TypeOK
  <2>2. CASE base \notin VarianceBaseTypes[derived]
    <3>1. V \in SUBSET typeMap /\ AddDerived(V, new)
      BY <1>2, <1>4, <1>8, <2>2
    <3>2. /\ DerivedTypes' \in [Types -> SUBSET typeMap]
          /\ \A x \in Types : DerivedTypes'[x] = IF x \in V THEN DerivedTypes[x] \cup new ELSE DerivedTypes[x]
      BY ONLY <1>1, <1>9, <3>1, AddDerivedEffect
    <3> QED BY <2>2, <3>2
  <2> QED BY <2>1, <2>2
<1>11. TypeOK'
  <2>1. vlist' \in Seq(typeMap)
    BY <1>4, <1>6, SeqMonotonic
  <2> QED BY <1>1, <1>2, <1>3, <1>5, <1>6, <1>10, <2>1 DEF TypeOK
<1>12. StackInv'
  BY <1>1, <1>3 DEF StackInv
<1>13. AboveInv'
  BY <1>2, <1>4, <1>7 DEF AboveInv, Above
<1>14. ExpandedInv'
  <2>1. \A x \in Types \ Expanded : links[x] = {} /\ DerivedTypes'[x] = {}
    BY <1>1, <1>5, <1>8, <1>10 DEF ExpandedInv
  <2> QED BY <1>1, <1>2, <1>3, <1>4, <1>6, <2>1 DEF ExpandedInv
<1>15. DerivedTypes[derived] \cup {derived} = new
  BY DEF new
<1>16. ASSUME NEW x \in Expanded, NEW p \in ToSet(Parents[x]) \cup links[x]
       PROVE  DerivedTypes'[x] \cup {x} \subseteq DerivedTypes'[p]
  <2>1. x \in Types /\ p \in Types
    BY <1>4, <1>7, <1>16
  <2>2. p \in Above(x) \/ (x = derived /\ p = base)
    BY <1>5, <2>1, <1>16 DEF Above
  <2>3. p \in Above(x) => DerivedTypes[x] \cup {x} \subseteq DerivedTypes[p]
    BY <1>1, <1>16 DEF DerivedClosed
  <2>4. CASE base \in VarianceBaseTypes[derived]
    <3>1. p \in Above(x)
      BY <2>2, <2>4 DEF Above
    <3> QED BY <1>10, <2>3, <2>4, <3>1
  <2>5. CASE base \notin VarianceBaseTypes[derived]
    <3>1. x \in V => p \in V
      BY <1>8, <1>16
    <3>2. \A y \in Types : DerivedTypes'[y] = IF y \in V THEN DerivedTypes[y] \cup new ELSE DerivedTypes[y]
      BY <1>10, <2>5
    <3>3. CASE p \in Above(x)
      BY <2>1, <2>3, <3>1, <3>2, <3>3
    <3>4. CASE x = derived /\ p = base
      <4>1. DerivedTypes[x] \cup {x} = new
        BY <1>15, <3>4
      <4>2. DerivedTypes'[p] = DerivedTypes[p] \cup new
        BY <1>8, <2>1, <3>2, <3>4
      <4>3. DerivedTypes'[x] = DerivedTypes[x] \/ DerivedTypes'[x] = DerivedTypes[x] \cup new
        BY <2>1, <3>2
      <4> QED BY <4>1, <4>2, <4>3
    <3> QED BY <2>2, <3>3, <3>4
  <2> QED BY <2>4, <2>5
<1>17. DerivedClosed'
  BY <1>2, <1>4, <1>16 DEF DerivedClosed, Above
<1> QED BY <1>6, <1>11, <1>12, <1>13, <1>14, <1>17 DEF IInv

-----------------------------------------------------------------------------
\* Steps of ResolveVariances that leave the types and their graph alone.
LEMMA WalkKeeps ==
  ASSUME IInv, UNCHANGED <<uses, typeMap, stack, graph>>,
         IsProcessed' \in [Defs -> BOOLEAN], phase' \in {"methods", "variances", "done"},
         vgList' \in Seq(Defs), isLoop' \in BOOLEAN, vlist' \in Seq(Expanded),
         i' \in Nat \ {0}, j' \in Nat \ {0}, PairInv'
  PROVE  IInv'
<1>1. UNCHANGED <<DerivedTypes, VarianceBaseTypes, TypeGroup, VarianceMap>>
  BY DEF graph
<1>2. Expanded' = Expanded /\ Expanded \subseteq typeMap
  BY DEF Expanded
<1>3. vlist' \in Seq(typeMap)
  BY <1>2, SeqMonotonic
<1>4. TypeOK'
  BY <1>1, <1>3 DEF IInv, TypeOK
<1>5. StackInv' /\ AboveInv' /\ ExpandedInv' /\ DerivedClosed'
  BY <1>1, <1>2 DEF IInv, StackInv, AboveInv, Above, ExpandedInv, DerivedClosed
<1> QED BY <1>4, <1>5 DEF IInv

LEMMA SkipKeeps == ASSUME IInv, SkipPair PROVE IInv'
<1>1. TypeOK /\ ExpandedInv /\ PairInv
  BY DEF IInv
<1>2. vlist # <<>> /\ NextPair /\ UNCHANGED <<DerivedTypes, VarianceBaseTypes>>
  BY DEF SkipPair, AtPair
<1>3. UNCHANGED <<uses, typeMap, stack, graph, IsProcessed, phase, vgList, isLoop>>
  BY <1>2 DEF NextPair, graph
<1>4. PairInv' /\ vlist' \in Seq(Expanded) /\ i' \in Nat \ {0} /\ j' \in Nat \ {0}
  BY <1>1, <1>2, NextPairKeeps
<1> QED BY <1>1, <1>3, <1>4, WalkKeeps DEF TypeOK

LEMMA FirstPair == \A n \in Nat : n # 0 /\ n # 1 => 1 \in 1..n /\ 2 \in 1..n
  OBVIOUS

\* Every step keeps the invariant.
LEMMA InvStep == IInv /\ [Next]_vars => IInv'
<1> SUFFICES ASSUME IInv, [Next]_vars PROVE IInv'
  OBVIOUS
<1>0. TypeOK /\ StackInv /\ ExpandedInv /\ PairInv
  BY DEF IInv
<1>1. CASE Use
  <2>1. Head(uses) \in Types /\ Tail(uses) \in Seq(Types)
    BY <1>0, <1>1, HeadTailProperties DEF Use, TypeOK
  <2>2. CASE Head(uses) \in typeMap
    <3>1. UNCHANGED <<typeMap, stack, graph, IsProcessed, loop>> /\ uses' = Tail(uses)
      BY <1>1, <2>2 DEF Use
    <3> QED BY <1>0, <2>1, <3>1 DEF IInv, TypeOK, StackInv, AboveInv, Above, Expanded,
                                    ExpandedInv, PairInv, DerivedClosed, graph, loop
  <2>3. CASE Head(uses) \notin typeMap
    <3>1. Push(Head(uses)) /\ stack = <<>> /\ uses' = Tail(uses)
          /\ UNCHANGED <<graph, IsProcessed, loop>>
      BY <1>1, <2>3 DEF Use
    <3> QED BY <2>1, <2>3, <3>1, PushKeeps
  <2> QED BY <2>2, <2>3
<1>2. CASE ResolveParent
  <2>1. PICK k \in DOMAIN Parents[Last(stack)] :
          Parents[Last(stack)][k] \notin typeMap /\ Push(Parents[Last(stack)][k])
    BY <1>2 DEF ResolveParent
  <2>2. stack # <<>> /\ uses' = uses /\ UNCHANGED <<graph, IsProcessed, loop>>
    BY <1>2 DEF ResolveParent
  <2>3. Parents[Last(stack)][k] \in ToSet(Parents[Last(stack)])
    BY <2>1 DEF ToSet
  <2>4. Parents[Last(stack)][k] \in Types
    <3>1. Last(stack) \in Types
      BY <1>0, <2>2, PopStack DEF TypeOK
    <3> QED BY <2>3, <3>1, ParentsAreTypes
  <2> QED BY <1>0, <2>1, <2>2, <2>3, <2>4, PushKeeps DEF TypeOK
<1>3. CASE FinishExpand
  BY <1>3, FinishKeeps
<1>4. CASE StartVariances
  BY <1>0, <1>4, WalkKeeps DEF StartVariances, StartTurn, TypeOK, ExpandedInv, PairInv
<1>5. CASE NextGroup
  <2>1. Head(vgList) \in Defs /\ Tail(vgList) \in Seq(Defs)
    BY <1>0, <1>5, HeadTailProperties DEF NextGroup, TypeOK
  <2>2. vgList' = Tail(vgList) /\ UNCHANGED <<uses, typeMap, stack, graph, phase>>
    BY <1>5 DEF NextGroup
  <2>3. CASE IsProcessed[Head(vgList)]
    <3>1. UNCHANGED <<IsProcessed, isLoop, vlist, i, j>>
      BY <1>5, <2>3 DEF NextGroup
    <3> QED BY <1>0, <2>1, <2>2, <3>1, WalkKeeps DEF TypeOK, ExpandedInv, PairInv
  <2>4. CASE ~IsProcessed[Head(vgList)]
    <3> DEFINE group == TypeGroup[Head(vgList)]
    <3>1. /\ IsProcessed' = [IsProcessed EXCEPT ![Head(vgList)] = TRUE]
          /\ isLoop' = TRUE /\ i' = 1 /\ j' = 2
          /\ vlist' = IF Len(group) = 1 THEN <<>> ELSE group
      BY <1>5, <2>4 DEF NextGroup
    <3>2. group \in Seq(Expanded)
      BY <1>0, <2>1 DEF ExpandedInv
    <3> HIDE DEF group
    <3>3. <<>> \in Seq(Expanded) /\ (group # <<>> => Len(group) \in Nat \ {0})
      BY <3>2, EmptySeq
    <3>4. vlist' \in Seq(Expanded) /\ PairInv'
      <4>1. CASE Len(group) = 1
        BY <3>1, <3>3, <4>1 DEF PairInv
      <4>2. CASE Len(group) # 1
        <5>1. vlist' = group
          BY <3>1, <4>2
        <5>2. group # <<>> => 1 \in 1..Len(group) /\ 2 \in 1..Len(group)
          BY <3>3, <4>2, FirstPair
        <5> QED BY <3>1, <3>2, <5>1, <5>2 DEF PairInv
      <4> QED BY <4>1, <4>2
    <3>5. IsProcessed' \in [Defs -> BOOLEAN]
      BY <1>0, <3>1 DEF TypeOK
    <3> QED BY <1>0, <2>1, <2>2, <3>1, <3>4, <3>5, WalkKeeps DEF TypeOK
  <2> QED BY <2>3, <2>4
<1>6. CASE EndTurn
  <2>1. UNCHANGED <<uses, typeMap, stack, graph, IsProcessed, vlist, i, j>>
    BY <1>6 DEF EndTurn
  <2>2. phase' \in {"methods", "variances", "done"} /\ vgList' \in Seq(Defs) /\ isLoop' \in BOOLEAN
    BY <1>0, <1>6 DEF EndTurn, StartTurn, TypeOK
  <2> QED BY <1>0, <2>1, <2>2, WalkKeeps DEF TypeOK, ExpandedInv, PairInv
<1>7. CASE ResolveArgument
  <2>1. PICK x \in Types \ typeMap : Push(x)
    BY <1>7 DEF ResolveArgument
  <2>2. stack = <<>> /\ uses' = uses /\ UNCHANGED <<graph, IsProcessed, loop>>
    BY <1>7 DEF ResolveArgument, AtPair
  <2> QED BY <1>0, <2>1, <2>2, PushKeeps DEF TypeOK
<1>8. CASE LinkPair
  <2>1. vlist # <<>> /\ NextPair
    BY <1>8 DEF LinkPair, AtPair
  <2>2. vlist[i] \in Expanded /\ vlist[j] \in Expanded
    BY <1>0, <2>1, ElementOfSeq DEF PairInv, ExpandedInv
  <2>3. AddVarianceBaseType(vlist[i], vlist[j]) \/ AddVarianceBaseType(vlist[j], vlist[i])
    BY <1>8 DEF LinkPair
  <2> QED BY <2>1, <2>2, <2>3, LinkKeeps
<1>9. CASE SkipPair
  BY <1>9, SkipKeeps
<1>10. CASE Done \/ UNCHANGED vars
  <2>1. UNCHANGED <<uses, typeMap, stack, graph, IsProcessed, loop>>
    BY <1>10 DEF Done, vars
  <2> QED BY <1>0, <2>1, WalkKeeps DEF loop, TypeOK, ExpandedInv, PairInv
<1> QED
  BY <1>1, <1>2, <1>3, <1>4, <1>5, <1>6, <1>7, <1>8, <1>9, <1>10 DEF Next

LEMMA AlwaysInv == Spec => []IInv
<1> QED BY InitInv, InvStep, PTL DEF Spec

\* The types of all variables, for every program.
THEOREM TypeCorrect == Spec => []TypeOK
<1>1. IInv => TypeOK
  BY DEF IInv
<1> QED BY <1>1, AlwaysInv, PTL

\* Whatever is derived from a type is derived from all that is above it.
THEOREM DerivedAlwaysClosed == Spec => []DerivedClosed
<1>1. IInv => DerivedClosed
  BY DEF IInv
<1> QED BY <1>1, AlwaysInv, PTL

-----------------------------------------------------------------------------
(* Variance links.  A comparison is decided by signatures alone or by the  *)
(* derived types of a type that was resolved when the link was made; these *)
(* are never taken back.                                                   *)

Justified(b, x, k) ==
  /\ Holds(Argument(b, x, k))
  /\ Argument(b, x, k).is = "ask" => Argument(b, x, k).base \in Types

JustifiedInv ==
  \A x \in Types : \A b \in VarianceBaseTypes[x] : \A k \in DOMAIN GenArgs[b] : Justified(b, x, k)

\* AddDerived takes nothing away.
LEMMA AddDerivedGrows ==
  ASSUME NEW V, NEW D, AddDerived(V, D), NEW x \in Types
  PROVE  DerivedTypes[x] \subseteq DerivedTypes'[x]
  BY DEF AddDerived

\* Nor does a step.
LEMMA DerivedGrows ==
  ASSUME [Next]_vars, NEW x \in Types
  PROVE  DerivedTypes[x] \subseteq DerivedTypes'[x]
<1>1. CASE FinishExpand
  BY <1>1, AddDerivedGrows DEF FinishExpand
<1>2. CASE LinkPair
  BY <1>2, AddDerivedGrows DEF LinkPair, AddVarianceBaseType
<1>3. CASE UNCHANGED DerivedTypes
  BY <1>3
<1> QED
  BY <1>1, <1>2, <1>3
  DEF Next, Use, ResolveParent, StartVariances, NextGroup, EndTurn, ResolveArgument, SkipPair,
      Done, vars, graph

\* So a link that is justified stays justified.
LEMMA JustifiedStays ==
  ASSUME [Next]_vars, NEW b, NEW x, NEW k, Justified(b, x, k)
  PROVE  Justified(b, x, k)'
<1> DEFINE c == Argument(b, x, k)
<1>1. c' = c
  BY DEF Argument
<1>2. c.is = "ask" => DerivedTypes[c.base] \subseteq DerivedTypes'[c.base]
  BY DerivedGrows DEF Justified
<1> QED BY <1>1, <1>2 DEF Justified, Holds

\* TryLinkVariance links what it has found to hold.
LEMMA LinkFacts ==
  ASSUME TypeOK, NEW b, NEW x, Outcome(b, x) = "link"
  PROVE  \A k \in DOMAIN GenArgs[b] : Justified(b, x, k)
<1>1. \A k \in DOMAIN GenArgs[b] :
        Unresolved(Argument(b, x, k)) = {} /\ Holds(Argument(b, x, k))
  BY DEF Outcome
<1>2. Expanded \subseteq Types
  BY DEF TypeOK, Expanded
<1> QED BY <1>1, <1>2 DEF Unresolved, Justified

LEMMA JustifiedStep == IInv /\ JustifiedInv /\ [Next]_vars => JustifiedInv'
<1> SUFFICES ASSUME IInv, JustifiedInv, [Next]_vars PROVE JustifiedInv'
  OBVIOUS
<1>1. TypeOK /\ VarianceBaseTypes \in [Types -> SUBSET typeMap]
  BY DEF IInv, TypeOK
<1>2. CASE UNCHANGED VarianceBaseTypes
  BY <1>2, JustifiedStays DEF JustifiedInv
<1>3. ASSUME NEW b \in Types, NEW d \in Types, Outcome(b, d) = "link", AddVarianceBaseType(b, d)
      PROVE  JustifiedInv'
  <2>1. SUFFICES ASSUME NEW x \in Types, NEW p \in VarianceBaseTypes'[x], NEW k \in DOMAIN GenArgs[p]
                 PROVE  Justified(p, x, k)'
    BY DEF JustifiedInv
  <2>2. p \in VarianceBaseTypes[x] \/ (p = b /\ x = d)
    BY <1>1, <1>3, <2>1 DEF AddVarianceBaseType
  <2>3. Justified(p, x, k)
    BY <1>1, <1>3, <2>1, <2>2, LinkFacts DEF JustifiedInv
  <2> QED BY <2>3, JustifiedStays
<1>4. CASE LinkPair
  <2>1. vlist[i] \in Types /\ vlist[j] \in Types
    BY <1>1, <1>4, ElementOfSeq DEF IInv, PairInv, TypeOK, LinkPair, AtPair
  <2> QED BY <1>3, <1>4, <2>1 DEF LinkPair, Forth, Back
<1> QED
  BY <1>2, <1>4
  DEF Next, Use, ResolveParent, FinishExpand, StartVariances, NextGroup, EndTurn,
      ResolveArgument, SkipPair, Done, vars, graph

\* No type that is resolved later, and no later link, makes a variance link
\* wrong.
THEOREM LinksStayJustified == Spec => []LinksJustified
<1>1. Init => JustifiedInv
  BY DEF Init, JustifiedInv
<1>2. Spec => []JustifiedInv
  BY <1>1, JustifiedStep, AlwaysInv, PTL DEF Spec
<1>3. JustifiedInv => LinksJustified
  BY DEF JustifiedInv, Justified, LinksJustified
<1> QED BY <1>2, <1>3, PTL

-----------------------------------------------------------------------------
(* No cycles.  IsDerivedType compares the elements of arrays: a function by *)
(* recursion on signatures, of which there is none that is its own component. *)

\* A set of signatures has one that is made of none of the others.
LEMMA SimplestSig ==
  ASSUME NEW S \in SUBSET Sigs, S # {}
  PROVE  \E s \in S : Components(s) \cap S = {}
<1>1. CASE S \subseteq {s \in Sigs : Components(s) # {}}
  BY <1>1, ComponentsAcyclic
<1>2. CASE \E s \in S : Components(s) = {}
  BY <1>2
<1> QED BY <1>1, <1>2

\* A comparison asks for another one only if derived is an array, and then of
\* its element.
LEMMA ComparedDepends ==
  ASSUME NEW f, NEW g, NEW b \in Sigs, NEW d \in Sigs,
         d \in Arrays => \A e \in Sigs : f[<<e, Elem[d]>>] = g[<<e, Elem[d]>>]
  PROVE  Compared(f, b, d) = Compared(g, b, d)
<1>1. CASE Kind[d] = "szarray" /\ b \in ListTypes
  <2>1. d \in Arrays /\ Elem[b] \in Sigs
    BY <1>1, SigAssumption DEF Arrays
  <2> QED BY <1>1, <2>1 DEF Compared
<1>2. CASE ~(Kind[d] = "szarray" /\ b \in ListTypes) /\ b \in Arrays /\ Kind[b] = Kind[d]
  <2>1. d \in Arrays /\ Elem[b] \in Sigs
    BY <1>2, SigAssumption DEF Arrays
  <2> QED BY <1>2, <2>1 DEF Compared
<1>3. CASE ~(Kind[d] = "szarray" /\ b \in ListTypes) /\ ~(b \in Arrays /\ Kind[b] = Kind[d])
  <2>1. {b, d} \cap Arrays # {} => Kind[b] # Kind[d]
    BY <1>3 DEF Arrays
  <2> QED BY <1>3, <2>1 DEF Compared
<1> QED BY <1>1, <1>2, <1>3

\* f answers the comparisons of all signatures with those of A.
Answers(A, f) ==
  /\ A \subseteq Sigs
  /\ \A d \in A \cap Arrays : Elem[d] \in A
  /\ \A d \in A, b \in Sigs : f[<<b, d>>] = Compared(f, b, d)

LEMMA AnswersAgree ==
  ASSUME NEW A, NEW f, Answers(A, f), NEW B, NEW g, Answers(B, g)
  PROVE  \A d \in A \cap B, b \in Sigs : f[<<b, d>>] = g[<<b, d>>]
<1> DEFINE D == {d \in A \cap B : \E b \in Sigs : f[<<b, d>>] # g[<<b, d>>]}
<1> SUFFICES ASSUME D # {} PROVE FALSE
  OBVIOUS
<1>1. D \in SUBSET Sigs
  BY DEF Answers
<1>2. PICK d \in D : Components(d) \cap D = {}
  BY <1>1, SimplestSig
<1>3. d \in Arrays => \A e \in Sigs : f[<<e, Elem[d]>>] = g[<<e, Elem[d]>>]
  <2>1. d \in Arrays => Elem[d] \in Components(d)
    BY DEF Components
  <2>2. d \in Arrays => Elem[d] \in A \cap B
    BY DEF Answers
  <2> QED BY <1>2, <2>1, <2>2
<1>4. d \in A /\ d \in B /\ d \in Sigs
  BY <1>1
<1>5. \A b \in Sigs : f[<<b, d>>] = Compared(f, b, d) /\ g[<<b, d>>] = Compared(g, b, d)
  BY <1>4 DEF Answers
<1>6. \A b \in Sigs : Compared(f, b, d) = Compared(g, b, d)
  BY <1>3, <1>4, ComparedDepends
<1>7. PICK b \in Sigs : f[<<b, d>>] # g[<<b, d>>]
  OBVIOUS
<1> QED BY <1>5, <1>6, <1>7

\* Every signature is in such a set.
LEMMA AnswersExist == \A d \in Sigs : \E A, f : d \in A /\ Answers(A, f)
<1> DEFINE D == {d \in Sigs : ~ \E A, f : d \in A /\ Answers(A, f)}
<1> SUFFICES ASSUME D # {} PROVE FALSE
  OBVIOUS
<1>1. PICK d \in D : Components(d) \cap D = {}
  BY SimplestSig
<1>2. d \in Sigs
  OBVIOUS
<1>3. \E B, f : Answers(B, f) /\ (d \in Arrays => Elem[d] \in B)
  <2>1. CASE d \in Arrays
    <3>1. Elem[d] \in Sigs /\ Elem[d] \notin D
      BY <1>1, <2>1, SigAssumption DEF Components
    <3> QED BY <3>1
  <2>2. CASE d \notin Arrays
    <3>1. Answers({}, {})
      BY DEF Answers
    <3> QED BY <2>2, <3>1
  <2> QED BY <2>1, <2>2
<1>4. PICK B, f : Answers(B, f) /\ (d \in Arrays => Elem[d] \in B)
  BY <1>3
<1>5. d \notin B
  BY <1>4
<1> DEFINE g == [p \in Sigs \X Sigs |-> IF p[2] = d THEN Compared(f, p[1], d) ELSE f[p]]
<1>6. \A b \in Sigs, e \in Sigs : g[<<b, e>>] = IF e = d THEN Compared(f, b, d) ELSE f[<<b, e>>]
  OBVIOUS
<1> HIDE DEF g
<1>7. ASSUME NEW e \in B \cup {d}, NEW b \in Sigs PROVE g[<<b, e>>] = Compared(g, b, e)
  <2>1. e \in Sigs
    BY <1>2, <1>4 DEF Answers
  <2>2. e \in Arrays => Elem[e] \in B /\ Elem[e] \in Sigs /\ Elem[e] # d
    BY <1>4, <1>5, <1>7 DEF Answers
  <2>3. Compared(f, b, e) = Compared(g, b, e)
    <3>1. e \in Arrays => \A c \in Sigs : f[<<c, Elem[e]>>] = g[<<c, Elem[e]>>]
      BY <1>6, <2>2
    <3> QED BY <2>1, <3>1, ComparedDepends
  <2>4. CASE e = d
    BY <1>6, <2>1, <2>3, <2>4
  <2>5. CASE e # d
    <3>1. f[<<b, e>>] = Compared(f, b, e)
      BY <1>4, <2>5 DEF Answers
    <3> QED BY <1>6, <2>1, <2>3, <2>5, <3>1
  <2> QED BY <2>4, <2>5
<1>8. Answers(B \cup {d}, g)
  BY <1>2, <1>4, <1>7 DEF Answers
<1> QED BY <1>8

\* So IsDerivedType is defined, although it is recursive.
LEMMA CompareDef ==
  \A b \in Sigs, d \in Sigs : Compare[<<b, d>>] = Compared(Compare, b, d)
<1> DEFINE For(A, d, f) == d \in A /\ Answers(A, f)
           F(d) == CHOOSE f : \E A : For(A, d, f)
           h == [p \in Sigs \X Sigs |-> F(p[2])[p]]
<1>1. \A d \in Sigs : \E A : For(A, d, F(d))
  BY AnswersExist
<1> HIDE DEF F
<1>2. \A b \in Sigs, d \in Sigs : h[<<b, d>>] = F(d)[<<b, d>>]
  OBVIOUS
<1>3. ASSUME NEW b \in Sigs, NEW d \in Sigs PROVE h[<<b, d>>] = Compared(h, b, d)
  <2>1. PICK A : For(A, d, F(d))
    BY <1>1
  <2>2. h[<<b, d>>] = Compared(F(d), b, d)
    BY <1>2, <2>1 DEF Answers
  <2>3. ASSUME d \in Arrays, NEW e \in Sigs PROVE F(d)[<<e, Elem[d]>>] = h[<<e, Elem[d]>>]
    <3>1. Elem[d] \in A /\ Elem[d] \in Sigs
      BY <2>1, <2>3 DEF Answers
    <3>2. PICK B : For(B, Elem[d], F(Elem[d]))
      BY <1>1, <3>1
    <3>3. F(d)[<<e, Elem[d]>>] = F(Elem[d])[<<e, Elem[d]>>]
      <4> HIDE DEF h
      <4> QED BY <2>1, <2>3, <3>1, <3>2, AnswersAgree
    <3> QED BY <1>2, <3>1, <3>3
  <2> HIDE DEF h
  <2>4. Compared(F(d), b, d) = Compared(h, b, d)
    BY <2>3, ComparedDepends
  <2> QED BY <2>2, <2>4
<1>4. h = [p \in Sigs \X Sigs |-> Compared(h, p[1], p[2])]
  <2> DEFINE k == [p \in Sigs \X Sigs |-> Compared(h, p[1], p[2])]
  <2>1. ASSUME NEW p \in Sigs \X Sigs PROVE h[p] = k[p]
    <3>1. PICK b \in Sigs, d \in Sigs : p = <<b, d>>
      OBVIOUS
    <3>2. h[<<b, d>>] = Compared(h, b, d)
      BY <1>3
    <3>3. k[<<b, d>>] = Compared(h, b, d)
      <4> HIDE DEF h
      <4> QED OBVIOUS
    <3> QED BY <3>1, <3>2, <3>3
  <2>2. k = [p \in Sigs \X Sigs |-> k[p]] /\ h = [p \in Sigs \X Sigs |-> h[p]]
    OBVIOUS
  <2>3. h = k
    <3> HIDE DEF h, k
    <3> QED BY <2>1, <2>2
  <2> QED BY <2>3
<1> HIDE DEF h
<1>5. Compare = [p \in Sigs \X Sigs |-> Compared(Compare, p[1], p[2])]
  BY <1>4, Zenon DEF Compare
<1> QED BY <1>5

-----------------------------------------------------------------------------
(* A set of signatures is tangled when the conversions lead from each of     *)
(* them to all others.  Arrays are tangled when their elements are, and no   *)
(* signatures but arrays and classes are.                                    *)

Converts(b, d) == Holds(Compare[<<b, d>>])

\* What the conversion of d to another signature b says of the two.
LEMMA Conversions ==
  ASSUME NEW b \in Sigs, NEW d \in Sigs, b # d, Converts(b, d)
  PROVE  /\ Kind[d] # "object"
         /\ Kind[b] \notin {"value", "pointer"}
         /\ b \in Arrays => /\ d \in Arrays /\ Kind[b] = Kind[d] /\ Rank[b] = Rank[d]
                            /\ Converts(Elem[b], Elem[d])
         /\ Kind[b] = "class" /\ Kind[d] = "class" => d \in DerivedTypes[b]
<1>1. Compare[<<b, d>>] = Compared(Compare, b, d)
  BY CompareDef
<1>2. Holds(Compared(Compare, b, d))
  BY <1>1 DEF Converts
<1>3. Kind[d] # "object" /\ (Kind[b] # "object" => Kind[b] # "value" /\ Kind[b] # "pointer")
  BY <1>2 DEF Compared, Holds, Answer
<1>4. ASSUME b \in Arrays
      PROVE  d \in Arrays /\ Kind[b] = Kind[d] /\ Rank[b] = Rank[d] /\ Converts(Elem[b], Elem[d])
  <2>1. Kind[b] \in {"szarray", "array"} /\ b \notin ListTypes
    BY <1>4, SigAssumption DEF Arrays
  <2>2. Kind[b] = Kind[d] /\ Rank[b] = Rank[d] /\ Holds(Compare[<<Elem[b], Elem[d]>>])
    BY <1>2, <1>3, <1>4, <2>1 DEF Compared, Holds, Answer
  <2> QED BY <2>1, <2>2 DEF Arrays, Converts
<1>5. ASSUME Kind[b] = "class", Kind[d] = "class"
      PROVE  d \in DerivedTypes[b]
  <2>1. b \notin Arrays /\ d \notin Arrays
    BY <1>5 DEF Arrays
  <2>2. Compared(Compare, b, d) = [is |-> "ask", base |-> b, derived |-> d]
    BY <1>5, <2>1 DEF Compared
  <2> QED BY <1>2, <2>2 DEF Holds
<1> QED BY <1>3, <1>4, <1>5

\* C is tangled: who follows the conversions upwards from any member, without
\* leaving C, comes to all of C.
UpIn(C, T) == \A b \in C, d \in T : Converts(b, d) => b \in T
Tangled(C) ==
  /\ C \subseteq Sigs
  /\ \A T \in SUBSET C : T # {} /\ UpIn(C, T) => T = C

\* The elements of tangled arrays are tangled.
LEMMA TangledArrays ==
  ASSUME NEW C, Tangled(C), NEW s \in C, s \in Arrays
  PROVE  /\ \A c \in C : c \in Arrays /\ Kind[c] = Kind[s] /\ Rank[c] = Rank[s]
         /\ Tangled({Elem[c] : c \in C})
<1> DEFINE Like(c) == c \in Arrays /\ Kind[c] = Kind[s] /\ Rank[c] = Rank[s]
           T == {c \in C : ~Like(c)}
<1>1. UpIn(C, T)
  <2>1. ASSUME NEW b \in C, NEW d \in T, Converts(b, d), Like(b) PROVE FALSE
    <3>1. b \in Sigs /\ d \in Sigs /\ b # d
      BY <2>1 DEF Tangled
    <3> QED BY <2>1, <3>1, Conversions
  <2> QED BY <2>1 DEF UpIn
<1>2. T # C
  <2>1. Like(s) /\ s \in C
    OBVIOUS
  <2> QED BY <2>1
<1>3. T = {}
  <2> HIDE DEF T
  <2>1. T \in SUBSET C
    BY DEF T
  <2> QED BY <1>1, <1>2, <2>1 DEF Tangled
<1>4. \A c \in C : Like(c)
  BY <1>3
<1> DEFINE E == {Elem[c] : c \in C}
<1>5. E \subseteq Sigs
  BY <1>4, SigAssumption
<1>6. ASSUME NEW U \in SUBSET E, U # {}, UpIn(E, U) PROVE U = E
  <2> DEFINE V == {c \in C : Elem[c] \in U}
  <2>1. V # {} /\ V \in SUBSET C
    BY <1>6
  <2>2. UpIn(C, V)
    <3>1. ASSUME NEW b \in C, NEW d \in V, Converts(b, d) PROVE b \in V
      <4>1. CASE b = d
        BY <4>1
      <4>2. CASE b # d
        <5>1. Converts(Elem[b], Elem[d])
          BY <1>4, <3>1, <4>2, Conversions DEF Tangled
        <5> QED BY <1>6, <5>1 DEF UpIn
      <4> QED BY <4>1, <4>2
    <3> QED BY <3>1 DEF UpIn
  <2>3. V = C
    <3> HIDE DEF V
    <3> QED BY <2>1, <2>2 DEF Tangled
  <2> QED BY <2>3
<1> QED BY <1>4, <1>5, <1>6 DEF Tangled

\* Of two or more tangled signatures one is an array, or all are classes.
LEMMA TangledClasses ==
  ASSUME NEW C, Tangled(C), NEW s \in C, NEW r \in C, r # s, s \notin Arrays
  PROVE  \A c \in C : Kind[c] = "class"
<1>0. C \subseteq Sigs
  BY DEF Tangled
<1>1. \A c \in C : c \notin Arrays
  <2> SUFFICES ASSUME NEW c \in C, c \in Arrays PROVE FALSE
    OBVIOUS
  <2> QED BY TangledArrays
<1>2. ASSUME NEW c \in C PROVE Kind[c] # "object"
  <2> SUFFICES ASSUME Kind[c] = "object" PROVE FALSE
    OBVIOUS
  <2>1. UpIn(C, {c})
    BY <1>0, Conversions DEF UpIn
  <2>2. {c} = C
    BY <2>1 DEF Tangled
  <2> QED BY <2>2
<1>3. ASSUME NEW c \in C PROVE Kind[c] \notin {"value", "pointer"}
  <2> SUFFICES ASSUME Kind[c] \in {"value", "pointer"} PROVE FALSE
    OBVIOUS
  <2>1. UpIn(C, C \ {c})
    BY <1>0, Conversions DEF UpIn
  <2>2. C \ {c} = C
    <3>1. C \ {c} # {}
      OBVIOUS
    <3> QED BY <2>1, <3>1 DEF Tangled
  <2> QED BY <2>2
<1> QED BY <1>0, <1>1, <1>2, <1>3, SigAssumption DEF Arrays

-----------------------------------------------------------------------------
(* A set of types that derive from each other is a knot.  Since definitions  *)
(* are acyclic its types are instances of one definition, linked for their   *)
(* variance; so their arguments are tangled, and these are simpler.          *)

\* The derived types of a type are only those that reach it: a set that holds
\* all that is above one of them, and all that is above its own members, holds
\* the type.
ReachedInv ==
  \A x \in Types : \A y \in DerivedTypes[x] :
    /\ y \in Expanded
    /\ \A S \in SUBSET Expanded :
         Above(y) \subseteq S /\ (\A s \in S : Above(s) \subseteq S) => x \in S

\* Links are between different instances of a definition.
LinkInv ==
  \A x \in Types : \A b \in VarianceBaseTypes[x] :
    b # x /\ DefOf[b] = DefOf[x] /\ DefOf[b] # NoDef

KnotInv == IInv /\ JustifiedInv /\ ReachedInv /\ LinkInv

\* What is derived from a derived type is derived.
LEMMA DerivedTransitive ==
  ASSUME IInv, ReachedInv, NEW x \in Types, NEW y \in DerivedTypes[x], NEW z \in DerivedTypes[y]
  PROVE  z \in DerivedTypes[x]
<1> DEFINE S == {u \in Expanded : z \in DerivedTypes[u]}
<1>1. y \in Expanded
  BY DEF ReachedInv
<1>2. ASSUME NEW u \in Expanded, z \in DerivedTypes[u] PROVE Above(u) \subseteq S
  BY <1>2 DEF IInv, AboveInv, DerivedClosed
<1>3. Above(y) \subseteq S /\ (\A u \in S : Above(u) \subseteq S)
  BY <1>1, <1>2
<1>4. S \in SUBSET Expanded
  OBVIOUS
<1>5. x \in S
  <2> HIDE DEF S
  <2> QED BY <1>3, <1>4 DEF ReachedInv
<1> QED BY <1>5

\* The types that derive from x and x from them.
Knot(x) == {u \in Types : x \in DerivedTypes[u] /\ u \in DerivedTypes[x]}

LEMMA KnotDerived ==
  ASSUME IInv, ReachedInv, NEW x \in Types, NEW u \in Knot(x), NEW v \in Knot(x)
  PROVE  /\ u \in DerivedTypes[v] /\ u \in Expanded
         /\ x \in Knot(x)
<1>1. u \in DerivedTypes[x] /\ x \in DerivedTypes[u] /\ x \in DerivedTypes[v] /\ u \in Types /\ v \in Types
  BY DEF Knot
<1>2. u \in DerivedTypes[v] /\ x \in DerivedTypes[x]
  BY <1>1, DerivedTransitive
<1> QED BY <1>1, <1>2 DEF Knot, ReachedInv

\* Who goes up from a member, without leaving the knot, comes to all of it.
LEMMA KnotConnected ==
  ASSUME IInv, ReachedInv, NEW x \in Types, NEW T \in SUBSET Knot(x), T # {},
         \A u \in T : Above(u) \cap Knot(x) \subseteq T
  PROVE  T = Knot(x)
<1>1. PICK t \in T : TRUE
  OBVIOUS
<1> DEFINE W == T \cup {v \in Expanded : t \in DerivedTypes[v] /\ v \notin Knot(x)}
<1>2. \A u \in Knot(x) : u \in Expanded /\ u \in Types /\ t \in DerivedTypes[u] /\ u \in DerivedTypes[t]
  BY <1>1, KnotDerived DEF Knot
<1>3. W \in SUBSET Expanded
  BY <1>2
<1>4. ASSUME NEW w \in W, NEW p \in Above(w) PROVE p \in W
  <2>1. /\ w \in Expanded /\ t \in DerivedTypes[w] /\ p \in Expanded
        /\ t \in DerivedTypes[p] /\ w \in DerivedTypes[p]
    BY <1>2, <1>4 DEF IInv, AboveInv, DerivedClosed
  <2>2. CASE p \notin Knot(x)
    BY <2>1, <2>2
  <2>3. CASE p \in Knot(x) /\ w \in T
    BY <2>3, <1>4
  <2>4. CASE p \in Knot(x) /\ w \notin T
    <3>1. w \notin Knot(x) /\ w \in Types
      BY <1>4, <2>1, <2>4 DEF IInv, TypeOK, Expanded
    <3>2. p \in DerivedTypes[x] /\ x \in DerivedTypes[t] /\ p \in Types
      BY <1>1, <2>4 DEF Knot
    <3>3. w \in DerivedTypes[x] /\ x \in DerivedTypes[w]
      BY <2>1, <3>1, <3>2, DerivedTransitive
    <3> QED BY <3>1, <3>3 DEF Knot
  <2> QED BY <2>2, <2>3, <2>4
<1>5. ASSUME NEW u \in Knot(x) PROVE u \in T
  <2>1. t \in W
    BY <1>1
  <2>2. Above(t) \subseteq W /\ \A w \in W : Above(w) \subseteq W
    BY <1>4, <2>1
  <2>3. u \in W
    <3> HIDE DEF W
    <3> QED BY <1>2, <1>3, <2>2 DEF ReachedInv
  <2> QED BY <2>3
<1> QED BY <1>5

\* A knot is made of instances of one definition, by variance links alone.
LEMMA KnotPeers ==
  ASSUME KnotInv, NEW x \in Types, NEW u \in Knot(x)
  PROVE  /\ Peers(u, x)
         /\ Above(u) \cap Knot(x) \subseteq VarianceBaseTypes[u]
<1>0. IInv /\ ReachedInv
  BY DEF KnotInv
<1>1. Knot(x) \in SUBSET Types /\ Knot(x) # {}
  BY DEF Knot
<1>2. PICK m \in Knot(x) : \A y \in Knot(x) : Peers(m, y) => ToSet(Parents[y]) \cap Knot(x) = {}
  BY <1>1, DefinitionsAcyclic
<1> DEFINE T == {y \in Knot(x) : Peers(m, y)}
<1>3. T # {}
  BY DEF Peers
<1>4. ASSUME NEW y \in T, NEW p \in Above(y) \cap Knot(x) PROVE p \in T
  <2>1. p \in VarianceBaseTypes[y] /\ y \in Types
    BY <1>1, <1>2, <1>4 DEF Above
  <2>2. DefOf[p] = DefOf[y] /\ DefOf[p] # NoDef
    BY <2>1 DEF KnotInv, LinkInv
  <2> QED BY <2>2 DEF Peers
<1>5. T = Knot(x)
  <2>1. \A y \in T : Above(y) \cap Knot(x) \subseteq T
    BY <1>4
  <2>2. T \in SUBSET Knot(x)
    OBVIOUS
  <2> HIDE DEF T
  <2> QED BY <1>0, <1>3, <2>1, <2>2, KnotConnected
<1>6. x \in Knot(x)
  BY <1>0, KnotDerived
<1>7. Peers(m, u) /\ Peers(m, x)
  BY <1>5, <1>6
<1> QED BY <1>2, <1>7 DEF Peers, Above

\* The arguments at a position of the instances in a knot are tangled.
Arguments(x, k) == {GenArgs[u][k] : u \in Knot(x)}

LEMMA KnotArguments ==
  ASSUME KnotInv, NEW x \in Types, NEW k \in DOMAIN GenArgs[x]
  PROVE  Tangled(Arguments(x, k))
<1>0. IInv /\ ReachedInv /\ LinkInv /\ JustifiedInv /\ Knot(x) \subseteq Types
  BY DEF KnotInv, Knot
<1>1. ASSUME NEW u \in Knot(x)
      PROVE  k \in DOMAIN GenArgs[u] /\ GenArgs[u][k] \in Sigs
  <2>1. Peers(u, x)
    BY KnotPeers
  <2>2. DOMAIN GenArgs[u] = DOMAIN GenArgs[x]
    BY <1>0, <2>1, InstanceAssumption
  <2>3. GenArgs[u] \in Seq(Sigs)
    BY <1>0, TypeAssumption
  <2> QED BY <2>2, <2>3, ElementOfSeq, LenProperties
<1>2. Arguments(x, k) \subseteq Sigs
  BY <1>1 DEF Arguments
<1>3. SUFFICES ASSUME NEW U \in SUBSET Arguments(x, k), U # {}, UpIn(Arguments(x, k), U)
               PROVE  U = Arguments(x, k)
  BY <1>2 DEF Tangled
<1> DEFINE T == {u \in Knot(x) : GenArgs[u][k] \in U}
           v == Variances[DefOf[x]][k]
<1>4. T # {} /\ T \in SUBSET Knot(x)
  BY <1>3 DEF Arguments
<1>5. ASSUME NEW u \in Knot(x), NEW p \in Above(u) \cap Knot(x)
      PROVE  /\ v = "covariant" => Converts(GenArgs[p][k], GenArgs[u][k])
             /\ v = "contravariant" => Converts(GenArgs[u][k], GenArgs[p][k])
             /\ v \notin {"covariant", "contravariant"} => GenArgs[u][k] = GenArgs[p][k]
  <2>1. p \in VarianceBaseTypes[u] /\ u \in Types /\ p \in Types
    BY <1>0, KnotPeers
  <2>2. Peers(p, x) /\ k \in DOMAIN GenArgs[p]
    BY <1>1, KnotPeers
  <2>3. DefOf[p] = DefOf[x]
    BY <2>2 DEF Peers
  <2>4. Holds(Argument(p, u, k))
    BY <1>0, <2>1, <2>2 DEF JustifiedInv, Justified
  <2>5. CASE v = "covariant"
    BY <2>3, <2>4, <2>5 DEF Argument, Converts
  <2>6. CASE v = "contravariant"
    BY <2>3, <2>4, <2>6 DEF Argument, Converts
  <2>7. CASE v \notin {"covariant", "contravariant"}
    BY <2>3, <2>4, <2>7 DEF Argument, Holds, Answer
  <2> QED BY <2>5, <2>6, <2>7
<1>6. \A u \in Knot(x) : GenArgs[u][k] \in Arguments(x, k)
  BY DEF Arguments
<1> HIDE DEF v
<1>7. CASE v # "contravariant"
  <2>1. ASSUME NEW u \in T, NEW p \in Above(u) \cap Knot(x) PROVE p \in T
    BY <1>3, <1>5, <1>6, <1>7 DEF UpIn
  <2>2. T = Knot(x)
    <3> HIDE DEF T
    <3> QED BY <1>0, <1>4, <2>1, KnotConnected
  <2> QED BY <2>2 DEF Arguments
<1>8. CASE v = "contravariant"
  <2> DEFINE R == Knot(x) \ T
  <2>1. ASSUME NEW u \in R, NEW p \in Above(u) \cap Knot(x) PROVE p \in R
    <3>1. p \in T => u \in T
      BY <1>3, <1>5, <1>6, <1>8 DEF UpIn
    <3> QED BY <3>1
  <2>2. R # Knot(x) /\ R \in SUBSET Knot(x)
    BY <1>4
  <2>3. R = {}
    <3> HIDE DEF R
    <3> QED BY <1>0, <2>1, <2>2, KnotConnected
  <2>4. T = Knot(x)
    BY <2>3
  <2> QED BY <2>4 DEF Arguments
<1> QED BY <1>7, <1>8

\* Two types in a knot that differ have a tangled argument that differs.
LEMMA KnotDiffers ==
  ASSUME KnotInv, NEW x \in Types, NEW y \in Knot(x), x # y
  PROVE  \E k \in DOMAIN GenArgs[x] :
           /\ Tangled(Arguments(x, k))
           /\ GenArgs[x][k] \in Arguments(x, k) /\ GenArgs[y][k] \in Arguments(x, k)
           /\ GenArgs[x][k] # GenArgs[y][k]
<1>1. Peers(y, x) /\ y \in Types /\ x \in Knot(x)
  BY KnotPeers, KnotDerived DEF KnotInv, Knot
<1>2. DOMAIN GenArgs[y] = DOMAIN GenArgs[x] /\ GenArgs[y] # GenArgs[x]
  BY <1>1, InstanceAssumption
<1>3. GenArgs[x] \in Seq(Sigs) /\ GenArgs[y] \in Seq(Sigs)
  BY <1>1, TypeAssumption
<1>4. PICK k \in DOMAIN GenArgs[x] : GenArgs[x][k] # GenArgs[y][k]
  BY <1>2, <1>3, SeqEqual, LenProperties
<1> QED BY <1>1, <1>4, KnotArguments DEF Arguments

\* No two signatures are tangled: of those that are, the simplest would have a
\* component that is.
LEMMA NoTangles ==
  ASSUME KnotInv, NEW C, Tangled(C), NEW s \in C, NEW r \in C
  PROVE  r = s
<1> DEFINE Bad == {q \in Sigs : \E D : Tangled(D) /\ q \in D /\ \E p \in D : p # q}
<1>1. SUFFICES ASSUME Bad # {} PROVE FALSE
  BY DEF Tangled
<1>2. PICK q \in Bad : Components(q) \cap Bad = {}
  <2>1. Bad \in SUBSET Sigs
    OBVIOUS
  <2> HIDE DEF Bad
  <2> QED BY <1>1, <2>1, SimplestSig
<1>3. PICK D : Tangled(D) /\ q \in D /\ \E p \in D : p # q
  OBVIOUS
<1>4. PICK p \in D : p # q
  BY <1>3
<1>5. D \subseteq Sigs
  BY <1>3 DEF Tangled
<1>6. CASE q \in Arrays
  <2> DEFINE E == {Elem[c] : c \in D}
  <2>1. Tangled(E) /\ p \in Arrays /\ Kind[p] = Kind[q] /\ Rank[p] = Rank[q]
    BY <1>3, <1>4, <1>6, TangledArrays
  <2>2. Elem[q] \in E /\ Elem[p] \in E /\ E \subseteq Sigs
    BY <1>3, <2>1 DEF Tangled
  <2>3. Elem[q] \in Components(q)
    BY <1>6 DEF Components
  <2> HIDE DEF E
  <2>4. Elem[p] # Elem[q] => Elem[q] \in Bad
    BY <2>1, <2>2
  <2>5. Elem[p] = Elem[q]
    BY <1>2, <2>3, <2>4
  <2> QED BY <1>4, <1>6, <2>1, <2>5, SigAssumption
<1>7. CASE q \notin Arrays
  <2>1. \A c \in D : Kind[c] = "class" /\ c \in Types
    BY <1>3, <1>4, <1>5, <1>7, TangledClasses, SigAssumption
  <2>2. ASSUME NEW a \in D, NEW b \in D, a # b PROVE a \in DerivedTypes[b]
    <3> DEFINE T == {c \in D : c = a \/ a \in DerivedTypes[c]}
    <3>1. UpIn(D, T)
      <4>1. ASSUME NEW c \in D, NEW d \in T, Converts(c, d), c # d PROVE a \in DerivedTypes[c]
        <5>1. d \in DerivedTypes[c]
          BY <1>5, <2>1, <4>1, Conversions
        <5> QED BY <2>1, <5>1, DerivedTransitive DEF KnotInv
      <4> QED BY <4>1 DEF UpIn
    <3>2. T # {} /\ T \in SUBSET D
      BY <2>2
    <3>3. T = D
      <4> HIDE DEF T
      <4> QED BY <1>3, <3>1, <3>2 DEF Tangled
    <3> QED BY <2>2, <3>3
  <2>3. p \in Knot(q) /\ q \in Types
    BY <1>3, <1>4, <2>1, <2>2 DEF Knot
  <2>4. PICK k \in DOMAIN GenArgs[q] :
          /\ Tangled(Arguments(q, k))
          /\ GenArgs[q][k] \in Arguments(q, k) /\ GenArgs[p][k] \in Arguments(q, k)
          /\ GenArgs[q][k] # GenArgs[p][k]
    BY <1>4, <2>3, KnotDiffers
  <2>5. GenArgs[q][k] \in Bad
    BY <2>4 DEF Tangled
  <2>6. GenArgs[q][k] \in Components(q)
    BY <2>3 DEF Components, ToSet
  <2> QED BY <1>2, <2>5, <2>6
<1> QED BY <1>6, <1>7

\* So no type is in a knot.
LEMMA NoKnot ==
  ASSUME KnotInv, NEW x \in Types
  PROVE  Knot(x) = {}
<1> SUFFICES ASSUME NEW u \in Knot(x) PROVE FALSE
  OBVIOUS
<1>0. IInv /\ ReachedInv /\ LinkInv
  BY DEF KnotInv
<1>1. x \in Knot(x)
  BY <1>0, KnotDerived
<1>2. Knot(x) = {x}
  <2> SUFFICES ASSUME NEW y \in Knot(x), y # x PROVE FALSE
    BY <1>1
  <2> QED BY KnotDiffers, NoTangles
<1>3. x \notin Above(x)
  BY <1>1, KnotPeers, <1>0 DEF LinkInv
<1> DEFINE W == {v \in Expanded : x \in DerivedTypes[v] /\ v # x}
<1>4. x \in DerivedTypes[x] /\ x \in Expanded
  BY <1>0, <1>1 DEF Knot, ReachedInv
<1>5. ASSUME NEW v \in Expanded, x \in DerivedTypes[v], NEW p \in Above(v) PROVE p \in W
  <2>1. p \in Expanded /\ x \in DerivedTypes[p] /\ v \in DerivedTypes[p]
    BY <1>0, <1>5 DEF IInv, AboveInv, DerivedClosed
  <2>2. p # x
    <3> SUFFICES ASSUME p = x PROVE FALSE
      OBVIOUS
    <3>1. v \in Knot(x)
      BY <1>0, <1>5, <2>1 DEF Knot, Expanded, IInv, TypeOK
    <3> QED BY <1>2, <1>3, <1>5, <3>1
  <2> QED BY <2>1, <2>2
<1>6. Above(x) \subseteq W /\ (\A v \in W : Above(v) \subseteq W) /\ W \in SUBSET Expanded
  BY <1>4, <1>5
<1>7. x \in W
  <2> HIDE DEF W
  <2> QED BY <1>0, <1>4, <1>6 DEF ReachedInv
<1> QED BY <1>7

-----------------------------------------------------------------------------
(* The steps keep what that rests on.                                       *)

\* A group is made of different instances of its definition.
GroupOf(g, d) ==
  \A k \in 1..Len(g) : DefOf[g[k]] = d /\ \A l \in 1..Len(g) : g[k] = g[l] => k = l

GroupInv ==
  /\ \A d \in Defs : GroupOf(TypeGroup[d], d)
  /\ vlist # <<>> => i < j /\ \E d \in Defs : GroupOf(vlist, d)

LEMMA GroupStep == IInv /\ GroupInv /\ [Next]_vars => GroupInv'
<1> SUFFICES ASSUME IInv, GroupInv, [Next]_vars PROVE GroupInv'
  OBVIOUS
<1>0. TypeOK /\ StackInv /\ ExpandedInv /\ PairInv
  BY DEF IInv
<1>1. CASE UNCHANGED <<TypeGroup, vlist, i, j>>
  BY <1>1 DEF GroupInv, GroupOf
<1>2. CASE FinishExpand
  <2> DEFINE t == Last(stack)
             d == DefOf[t]
  <2>1. UNCHANGED <<vlist, i, j>> /\ TryAddVariance(t) /\ stack # <<>>
    BY <1>2 DEF FinishExpand, loop
  <2>2. t \in Types /\ t \notin Expanded
    <3>1. t \in typeMap /\ t \in ToSet(stack)
      BY <1>0, <2>1, PopStack
    <3> QED BY <1>0, <3>1 DEF TypeOK, Expanded
  <2>3. CASE d = NoDef
    BY <1>1, <2>1, <2>3 DEF TryAddVariance
  <2>4. CASE d # NoDef
    <3>1. d \in Defs /\ TypeGroup' = [TypeGroup EXCEPT ![d] = Append(@, t)]
      BY <2>1, <2>2, <2>4, TypeAssumption DEF TryAddVariance
    <3> DEFINE g == TypeGroup[d]
               h == Append(g, t)
    <3>2. g \in Seq(Expanded) /\ GroupOf(g, d)
      BY <1>0, <3>1 DEF ExpandedInv, GroupInv
    <3>3. DefOf[t] = d
      OBVIOUS
    <3>4. \A e \in Defs : TypeGroup'[e] = IF e = d THEN h ELSE TypeGroup[e]
      BY <1>0, <3>1 DEF TypeOK
    <3> HIDE DEF g, d, t
    <3>5. /\ Len(g) \in Nat /\ Len(h) = Len(g) + 1
          /\ \A k \in 1..Len(g) : h[k] = g[k]
          /\ h[Len(g) + 1] = t
      <4>1. g \in Seq(Expanded \cup {t})
        BY <3>2, SeqMonotonic
      <4> QED BY <4>1, AppendProperties, LenProperties
    <3>6. \A k \in 1..Len(g) : g[k] \in Expanded
      BY <3>2, ElementOfSeq
    <3> HIDE DEF h
    <3>7. GroupOf(h, d)
      BY <2>2, <3>2, <3>3, <3>5, <3>6 DEF GroupOf
    <3> QED BY <2>1, <3>4, <3>7 DEF GroupInv, GroupOf
  <2> QED BY <2>3, <2>4
<1>3. CASE NextGroup
  <2>1. UNCHANGED TypeGroup /\ vgList # <<>>
    BY <1>3 DEF NextGroup, graph
  <2>2. Head(vgList) \in Defs
    BY <1>0, <2>1, HeadTailProperties DEF TypeOK
  <2>3. CASE UNCHANGED <<vlist, i, j>>
    BY <1>1, <2>1, <2>3
  <2>4. CASE i' = 1 /\ j' = 2 /\ vlist' \in {<<>>, TypeGroup[Head(vgList)]}
    BY <2>1, <2>2, <2>4 DEF GroupInv
  <2> QED BY <1>3, <2>3, <2>4 DEF NextGroup
<1>4. CASE NextPair /\ vlist # <<>>
  <2>1. UNCHANGED TypeGroup
    BY <1>4 DEF NextPair
  <2>2. vlist' # <<>> => vlist' = vlist /\ i' < j'
    BY <1>0, <1>4 DEF NextPair, GroupInv, TypeOK
  <2> QED BY <1>4, <2>1, <2>2 DEF GroupInv, GroupOf
<1> QED
  BY <1>1, <1>2, <1>3, <1>4
  DEF Next, Use, ResolveParent, StartVariances, EndTurn, ResolveArgument, LinkPair, SkipPair,
      AtPair, Done, vars, graph, loop

\* LinkPair links two different instances of a definition.
LEMMA LinkPairFacts ==
  ASSUME IInv, GroupInv, LinkPair
  PROVE  \E b \in Expanded, d \in Expanded :
           /\ AddVarianceBaseType(b, d)
           /\ b # d /\ DefOf[b] = DefOf[d] /\ DefOf[b] # NoDef
<1>1. vlist # <<>>
  BY DEF LinkPair, AtPair
<1>2. i \in 1..Len(vlist) /\ j \in 1..Len(vlist) /\ i # j
  BY <1>1 DEF IInv, PairInv, GroupInv, TypeOK
<1>3. vlist[i] \in Expanded /\ vlist[j] \in Expanded
  BY <1>2, ElementOfSeq DEF IInv, ExpandedInv
<1>4. vlist[i] # vlist[j] /\ DefOf[vlist[i]] = DefOf[vlist[j]] /\ DefOf[vlist[i]] # NoDef
  BY <1>1, <1>2, TypeAssumption DEF GroupInv, GroupOf
<1> QED BY <1>3, <1>4 DEF LinkPair

LEMMA LinkStep == IInv /\ GroupInv /\ LinkInv /\ [Next]_vars => LinkInv'
<1> SUFFICES ASSUME IInv, GroupInv, LinkInv, [Next]_vars PROVE LinkInv'
  OBVIOUS
<1>1. CASE UNCHANGED VarianceBaseTypes
  BY <1>1 DEF LinkInv
<1>2. CASE LinkPair
  <2>1. PICK b \in Expanded, d \in Expanded :
          /\ AddVarianceBaseType(b, d)
          /\ b # d /\ DefOf[b] = DefOf[d] /\ DefOf[b] # NoDef
    BY <1>2, LinkPairFacts
  <2>2. \A x \in Types : VarianceBaseTypes'[x] \subseteq
          VarianceBaseTypes[x] \cup (IF x = d THEN {b} ELSE {})
    BY <2>1 DEF AddVarianceBaseType, IInv, TypeOK
  <2> QED BY <2>1, <2>2 DEF LinkInv
<1> QED
  BY <1>1, <1>2
  DEF Next, Use, ResolveParent, FinishExpand, StartVariances, NextGroup, EndTurn,
      ResolveArgument, SkipPair, Done, vars, graph

\* No more is visited than a set that holds the start and what is above it.
LEMMA VisitedLeast ==
  ASSUME NEW start, NEW links, NEW S \in SUBSET typeMap, start \subseteq S,
         \A s \in S : ToSet(Parents[s]) \cup links[s] \subseteq S
  PROVE  Visited(start, links) \subseteq S
  BY DEF Visited

Holder(S, y) == Above(y) \subseteq S /\ \A s \in S : Above(s) \subseteq S

LEMMA ReachedStep == IInv /\ GroupInv /\ ReachedInv /\ [Next]_vars => ReachedInv'
<1> SUFFICES ASSUME IInv, GroupInv, ReachedInv, [Next]_vars PROVE ReachedInv'
  OBVIOUS
<1>0. TypeOK /\ StackInv /\ ExpandedInv /\ AboveInv /\ IInv'
  BY InvStep DEF IInv
<1>1. ASSUME NEW x \in Types, NEW y \in DerivedTypes[x], NEW S, Holder(S, y), S \subseteq Expanded
      PROVE  x \in S /\ y \in Expanded
  BY <1>1 DEF ReachedInv, Holder
<1>2. SUFFICES ASSUME NEW x \in Types, NEW y \in DerivedTypes'[x]
               PROVE  /\ y \in Expanded'
                      /\ \A S \in SUBSET Expanded' : Holder(S, y)' => x \in S
  BY DEF ReachedInv, Holder
<1>3. CASE Expanded' = Expanded /\ UNCHANGED <<DerivedTypes, VarianceBaseTypes>>
  BY <1>2, <1>3 DEF ReachedInv, Holder, Above
<1>4. CASE FinishExpand
  <2> DEFINE t == Last(stack)
             V == Visited(ToSet(Parents[t]), VarianceBaseTypes)
  <2>1. /\ stack # <<>> /\ stack' = Front(stack) /\ UNCHANGED <<typeMap, VarianceBaseTypes>>
        /\ AddDerived(V, {t})
    BY <1>4 DEF FinishExpand
  <2>2. t \in typeMap /\ ToSet(stack) = ToSet(Front(stack)) \cup {t} /\ t \notin ToSet(Front(stack))
    BY <1>0, <2>1, PopStack
  <2>3. Expanded' = Expanded \cup {t} /\ t \notin Expanded /\ Expanded' \subseteq typeMap
    BY <2>1, <2>2 DEF Expanded
  <2>4. \A z \in Types : Above(z)' = Above(z)
    BY <2>1 DEF Above
  <2>5. y \in DerivedTypes[x] \/ (y = t /\ x \in V)
    BY <1>2, <2>1 DEF AddDerived
  <2>6. CASE y \in DerivedTypes[x]
    <3>1. y \in Expanded /\ y \in Types /\ Expanded \subseteq Types
      BY <1>0, <2>6 DEF ReachedInv, Expanded, TypeOK
    <3>2. ASSUME NEW S \in SUBSET Expanded', Holder(S, y)' PROVE x \in S
      <4>1. Holder(S \cap Expanded, y)
        BY <1>0, <2>4, <3>1, <3>2 DEF Holder, AboveInv
      <4> QED BY <1>1, <2>6, <4>1
    <3> QED BY <2>3, <3>1, <3>2
  <2>7. CASE y = t /\ x \in V
    <3>1. ASSUME NEW S \in SUBSET Expanded', Holder(S, y)' PROVE V \subseteq S
      <4>1. S \in SUBSET typeMap /\ S \subseteq Types /\ t \in Types
        BY <1>0, <2>2, <2>3 DEF TypeOK
      <4>2. ToSet(Parents[t]) \subseteq S /\ \A s \in S : ToSet(Parents[s]) \cup VarianceBaseTypes[s] \subseteq S
        BY <2>4, <2>7, <3>1, <4>1 DEF Holder, Above
      <4> QED BY <4>1, <4>2, VisitedLeast
    <3> QED BY <2>3, <2>7, <3>1
  <2> QED BY <2>5, <2>6, <2>7
<1>5. CASE LinkPair
  <2>1. PICK b \in Expanded, d \in Expanded : AddVarianceBaseType(b, d)
    BY <1>0, <1>5, LinkPairFacts
  <2> DEFINE links == [VarianceBaseTypes EXCEPT ![d] = @ \cup {b}]
             V == Visited({b}, links)
  <2>2. Expanded' = Expanded /\ Expanded \subseteq Types /\ Expanded \subseteq typeMap
    BY <1>0, <1>5 DEF LinkPair, NextPair, Expanded, TypeOK
  <2>3. /\ VarianceBaseTypes' = links
        /\ \/ DerivedTypes' = DerivedTypes
           \/ AddDerived(V, DerivedTypes[d] \cup {d})
    BY <2>1 DEF AddVarianceBaseType
  <2>4. /\ \A z \in Types : Above(z) \subseteq Above(z)'
        /\ b \in Above(d)'
    BY <1>0, <2>2, <2>3 DEF Above, TypeOK
  <2>5. y \in DerivedTypes[x] \/ (x \in V /\ y \in DerivedTypes[d] \cup {d})
    BY <1>2, <2>3 DEF AddDerived
  <2>6. ASSUME NEW z \in Types, NEW S \in SUBSET Expanded, Holder(S, z)' PROVE Holder(S, z)
    BY <2>2, <2>4, <2>6 DEF Holder
  <2>7. CASE y \in DerivedTypes[x]
    <3>1. y \in Expanded /\ y \in Types
      BY <2>2, <2>7 DEF ReachedInv
    <3> QED BY <1>1, <2>2, <2>6, <2>7, <3>1
  <2>8. CASE x \in V /\ y \in DerivedTypes[d] \cup {d}
    <3>1. y \in Expanded /\ y \in Types /\ d \in Types
      BY <2>2, <2>8 DEF ReachedInv
    <3>2. ASSUME NEW S \in SUBSET Expanded, Holder(S, y)' PROVE x \in S
      <4>1. b \in S
        <5>1. CASE y = d
          BY <2>4, <3>2, <5>1 DEF Holder
        <5>2. CASE y \in DerivedTypes[d]
          <6>1. d \in S
            BY <1>1, <2>6, <3>1, <3>2, <5>2
          <6> QED BY <2>4, <3>2, <6>1 DEF Holder
        <5> QED BY <2>8, <5>1, <5>2
      <4>2. \A s \in S : ToSet(Parents[s]) \cup links[s] \subseteq S
        BY <2>3, <3>2 DEF Holder, Above
      <4>3. V \subseteq S
        <5> HIDE DEF links
        <5> QED BY <2>2, <4>1, <4>2, VisitedLeast
      <4> QED BY <2>8, <4>3
    <3> QED BY <2>2, <3>1, <3>2
  <2> QED BY <2>5, <2>7, <2>8
<1>6. ASSUME NEW z \in Types \ typeMap, Push(z), stack # <<>> => z \in ToSet(Parents[Last(stack)])
      PROVE  Expanded' = Expanded
  BY <1>0, <1>6, PushStep
<1>7. CASE Use
  <2>1. Head(uses) \in Types
    BY <1>0, <1>7, HeadTailProperties DEF Use, TypeOK
  <2>2. Expanded' = Expanded
    BY <1>6, <1>7, <2>1 DEF Use, Expanded
  <2> QED BY <1>3, <1>7, <2>2 DEF Use, graph
<1>8. CASE ResolveParent
  <2>1. PICK z \in ToSet(Parents[Last(stack)]) : z \notin typeMap /\ Push(z)
    BY <1>8 DEF ResolveParent, ToSet
  <2>2. z \in Types
    BY <1>0, <1>8, <2>1, PopStack, ParentsAreTypes DEF ResolveParent, TypeOK
  <2> QED BY <1>3, <1>6, <1>8, <2>1, <2>2 DEF ResolveParent, graph
<1>9. CASE ResolveArgument
  BY <1>3, <1>6, <1>9 DEF ResolveArgument, AtPair, graph
<1>10. CASE UNCHANGED <<typeMap, stack, DerivedTypes, VarianceBaseTypes>>
  BY <1>3, <1>10 DEF Expanded
<1> QED
  BY <1>4, <1>5, <1>7, <1>8, <1>9, <1>10
  DEF Next, StartVariances, NextGroup, EndTurn, SkipPair, NextPair, Done, vars, graph

LEMMA AlwaysKnotInv == Spec => [](GroupInv /\ KnotInv)
<1>1. Init => GroupInv /\ LinkInv /\ ReachedInv /\ JustifiedInv
  BY EmptySeq DEF Init, GroupInv, GroupOf, LinkInv, ReachedInv, JustifiedInv
<1> QED BY <1>1, AlwaysInv, JustifiedStep, GroupStep, LinkStep, ReachedStep, PTL DEF Spec, KnotInv

\* For acyclic definitions, whatever their variances and their arguments, no
\* two types derive from each other and none from itself, however expansions
\* and variance links interleave: AddDerivedTypeRecursive terminates.
THEOREM NoCycles == Spec => []NoMutualDerivation
<1>1. KnotInv => NoMutualDerivation
  BY NoKnot DEF NoMutualDerivation, Knot
<1> QED BY <1>1, AlwaysKnotInv, PTL
=============================================================================
