------------------------------ MODULE TypeGraph -----------------------------
(***************************************************************************)
(* The graph of types that TypeManager builds while it processes methods:  *)
(* every type keeps the set of all types derived from it, which decides    *)
(* casts and the targets of virtual calls.  Between two rounds of methods, *)
(* ResolveVariances links the instances of each generic interface or       *)
(* delegate with variant parameters that convert to each other.            *)
(*                                                                         *)
(* Resolving a type (AddType, ExpandType) resolves its base type and its   *)
(* interfaces first; stack is the recursion.  Comparing type arguments     *)
(* resolves them, in the middle of ResolveVariances.                       *)
(***************************************************************************)
EXTENDS Naturals, Sequences, SequencesExt

CONSTANTS
  Types,      \* types the program can mention, System.Object among them
  Sigs,       \* type signatures: the types, arrays and pointers
  Kind,       \* Kind[s]: "object", "class", "value", "szarray", "array", "pointer"
  Rank,       \* Rank[s]: of an array, 1 for "szarray"
  Elem,       \* Elem[s]: element of an array, or of an IList<> or ICollection<>
  ListTypes,  \* the instances of IList<> and ICollection<>
  Parents,    \* Parents[x]: the base type, if any, then the interfaces of x
  Defs,       \* generic definitions with a variant parameter
  DefOf,      \* DefOf[x]: the definition x is an instance of, or NoDef
  NoDef,
  GenArgs,    \* GenArgs[x]: the type arguments of x, signatures
  Variances,  \* Variances[d]: "covariant", "contravariant", "nonvariant" each
  Programs    \* sequences of types, in the order the methods use them

ASSUME TypeAssumption ==
  /\ Types \subseteq Sigs
  /\ Parents \in [Types -> Seq(Types)]
  /\ Programs \subseteq Seq(Types)
  /\ NoDef \notin Defs
  /\ DefOf \in [Types -> Defs \cup {NoDef}]
  /\ GenArgs \in [Types -> Seq(Sigs)]

Arrays == {s \in Sigs : Kind[s] \in {"szarray", "array"}}

\* The kinds of signatures; an array is known by its kind, rank and element.
ASSUME SigAssumption ==
  /\ Kind \in [Sigs -> {"object", "class", "value", "szarray", "array", "pointer"}]
  /\ Types = {s \in Sigs : Kind[s] \in {"object", "class", "value"}}
  /\ ListTypes \subseteq Types
  /\ \A s \in Arrays \cup ListTypes : Elem[s] \in Sigs
  /\ \A s, t \in Arrays : Kind[s] = Kind[t] /\ Rank[s] = Rank[t] /\ Elem[s] = Elem[t] => s = t

\* Instances of the same definition, or the same type.
Peers(x, y) == x = y \/ (DefOf[x] # NoDef /\ DefOf[x] = DefOf[y])

\* An instance is known by its definition and its arguments, one of each
\* variant parameter.
ASSUME InstanceAssumption ==
  \A x, y \in Types : Peers(x, y) =>
    /\ DOMAIN GenArgs[x] = DOMAIN GenArgs[y]
    /\ GenArgs[x] = GenArgs[y] => x = y

\* A definition is not among its own base types and interfaces, directly or not.
ASSUME DefinitionsAcyclic ==
  \A S \in SUBSET Types : S # {} =>
    \E x \in S : \A y \in S : Peers(x, y) => ToSet(Parents[y]) \cap S = {}

\* A signature is a tree: it is not among its own arguments and elements.
Components(s) ==
  (IF s \in Arrays THEN {Elem[s]} ELSE {}) \cup (IF s \in Types THEN ToSet(GenArgs[s]) ELSE {})

ASSUME ComponentsAcyclic ==
  \A S \in SUBSET {s \in Sigs : Components(s) # {}} : S # {} =>
    \E s \in S : Components(s) \cap S = {}

VARIABLES
  uses,           \* the types the methods have yet to use
  typeMap,        \* the types AddType has entered
  stack,          \* those of them being expanded, innermost last
  DerivedTypes,   \* DerivedTypes[x]: the types derived from x
  VarianceBaseTypes,
  TypeGroup,      \* TypeGroup[d]: the instances of d, in the order they came
  IsProcessed,    \* IsProcessed[d]: of the group of d
  VarianceMap,    \* the definitions that have a group, in the order they came
  phase,          \* "methods", "variances" or "done"
  vgList,         \* the groups ResolveVariances has yet to look at in this turn
  vlist,          \* the copy of the group it works on
  i, j,           \* the pair of vlist it works on
  isLoop          \* it has processed a group in this turn

graph == <<DerivedTypes, VarianceBaseTypes, TypeGroup, VarianceMap>>
loop == <<phase, vgList, vlist, i, j, isLoop>>
vars == <<uses, typeMap, stack, graph, IsProcessed, loop>>

Init ==
  /\ uses \in Programs
  /\ typeMap = {}
  /\ stack = <<>>
  /\ DerivedTypes = [x \in Types |-> {}]
  /\ VarianceBaseTypes = [x \in Types |-> {}]
  /\ TypeGroup = [d \in Defs |-> <<>>]
  /\ IsProcessed = [d \in Defs |-> FALSE]
  /\ VarianceMap = <<>>
  /\ phase = "methods"
  /\ vgList = <<>>
  /\ vlist = <<>>
  /\ i = 1
  /\ j = 1
  /\ isLoop = FALSE

-----------------------------------------------------------------------------
(* AddType and ExpandType.                                                 *)

Expanded == typeMap \ ToSet(stack)

\* TypeMap.Add, and the call of ExpandType.
Push(x) ==
  /\ typeMap' = typeMap \cup {x}
  /\ stack' = Append(stack, x)

\* The base type and the interfaces of x, and what variance added to them.
Above(x) == ToSet(Parents[x]) \cup VarianceBaseTypes[x]

\* Mutant: every type is visited.
VisitedAll(start, links) == typeMap

\* The types a call of AddDerivedTypeRecursive visits that starts at the types
\* of start: the least set that holds them and all that is above its members.
Visited(start, links) ==
  LET closed == {S \in SUBSET typeMap :
                   start \subseteq S /\ \A x \in S : ToSet(Parents[x]) \cup links[x] \subseteq S}
  IN {x \in typeMap : \A S \in closed : x \in S}

AddDerived(visited, derived) ==
  DerivedTypes' = [x \in Types |->
    IF x \in visited THEN DerivedTypes[x] \cup derived ELSE DerivedTypes[x]]

\* A method uses its next type.
Use ==
  /\ phase = "methods"
  /\ stack = <<>>
  /\ uses # <<>>
  /\ uses' = Tail(uses)
  /\ IF Head(uses) \in typeMap THEN UNCHANGED <<typeMap, stack>> ELSE Push(Head(uses))
  /\ UNCHANGED <<graph, IsProcessed, loop>>

\* ExpandType needs the next base type or interface that is not resolved yet.
ResolveParent ==
  /\ stack # <<>>
  /\ LET parents == Parents[Last(stack)] IN
     \E k \in DOMAIN parents :
       /\ parents[k] \notin typeMap
       /\ \A l \in 1..(k - 1) : parents[l] \in typeMap
       /\ Push(parents[k])
  /\ UNCHANGED <<uses, graph, IsProcessed, loop>>

\* Mutant: a group that grows is not processed again.
AddToGroupOnly(x) ==
  LET d == DefOf[x] IN
  /\ IF d = NoDef THEN UNCHANGED <<TypeGroup, VarianceMap>>
     ELSE /\ TypeGroup' = [TypeGroup EXCEPT ![d] = Append(@, x)]
          /\ VarianceMap' = IF TypeGroup[d] = <<>> THEN Append(VarianceMap, d) ELSE VarianceMap
  /\ UNCHANGED IsProcessed

\* TryAddVariance: x joins the group of its definition, which is new or is to
\* be processed again.
TryAddVariance(x) ==
  LET d == DefOf[x] IN
  IF d = NoDef THEN UNCHANGED <<TypeGroup, IsProcessed, VarianceMap>>
  ELSE /\ TypeGroup' = [TypeGroup EXCEPT ![d] = Append(@, x)]
       /\ IsProcessed' = [IsProcessed EXCEPT ![d] = FALSE]
       /\ VarianceMap' = IF TypeGroup[d] = <<>> THEN Append(VarianceMap, d) ELSE VarianceMap

\* UpdateDerivedTypes, the end of the expansion of the innermost type.
FinishExpand ==
  /\ stack # <<>>
  /\ ToSet(Parents[Last(stack)]) \subseteq typeMap
  /\ TryAddVariance(Last(stack))
  /\ AddDerived(Visited(ToSet(Parents[Last(stack)]), VarianceBaseTypes), {Last(stack)})
  /\ stack' = Front(stack)
  /\ UNCHANGED <<uses, typeMap, VarianceBaseTypes, loop>>

-----------------------------------------------------------------------------
(* IsDerivedType on signatures: a verdict, or a pair of types to ask for.  *)

Answer(verdict) == [is |-> verdict]

\* The verdict on base and derived, given those on their elements.
Compared(compare, base, derived) ==
  CASE base = derived -> Answer("yes")
    [] base # derived /\ Kind[derived] = "object" -> Answer("no")
    [] base # derived /\ Kind[derived] # "object" ->
         IF Kind[base] = "object" THEN Answer(IF Kind[derived] # "value" THEN "yes" ELSE "no")
         ELSE IF Kind[base] = "value" THEN Answer("no")
         ELSE IF "pointer" \in {Kind[base], Kind[derived]} THEN Answer("no")
         ELSE IF Kind[derived] = "szarray" /\ base \in ListTypes
              THEN compare[<<Elem[base], Elem[derived]>>]
         ELSE IF {base, derived} \cap Arrays # {}
              THEN IF Kind[base] # Kind[derived] \/ Rank[base] # Rank[derived] THEN Answer("no")
                   ELSE compare[<<Elem[base], Elem[derived]>>]
         ELSE [is |-> "ask", base |-> base, derived |-> derived]

Compare[p \in Sigs \X Sigs] == Compared(Compare, p[1], p[2])

\* The k-th arguments of base and derived as TryLinkVariance compares them.
Argument(base, derived, k) ==
  CASE Variances[DefOf[base]][k] = "covariant" -> Compare[<<GenArgs[base][k], GenArgs[derived][k]>>]
    [] Variances[DefOf[base]][k] = "contravariant" -> Compare[<<GenArgs[derived][k], GenArgs[base][k]>>]
    [] OTHER -> Answer(IF GenArgs[base][k] = GenArgs[derived][k] THEN "yes" ELSE "unrelated")

\* The types that must be resolved before the comparison c can be decided.
Unresolved(c) == IF c.is = "ask" THEN {c.base, c.derived} \ Expanded ELSE {}

Holds(c) == c.is = "yes" \/ (c.is = "ask" /\ c.derived \in DerivedTypes[c.base])

\* The arguments are compared from the left, up to the first that does not
\* fit; the outcome of TryLinkVariance, or that it needs a type.
Outcome(base, derived) ==
  LET stops == {k \in DOMAIN GenArgs[base] :
                  LET c == Argument(base, derived, k) IN Unresolved(c) # {} \/ ~Holds(c)}
      c == Argument(base, derived, CHOOSE k \in stops : \A l \in stops : k <= l)
  IN IF derived \in DerivedTypes[base] THEN "linked"
     ELSE IF stops = {} THEN "link"
     ELSE IF Unresolved(c) # {} THEN "resolve"
     ELSE IF c.is = "unrelated" THEN "unrelated" ELSE "no"

\* What it needs: the base of the comparison before the derived.
Needed(base, derived) ==
  LET open == {k \in DOMAIN GenArgs[base] : Unresolved(Argument(base, derived, k)) # {}}
      c == Argument(base, derived, CHOOSE k \in open : \A l \in open : k <= l)
  IN IF c.base \in Expanded THEN c.derived ELSE c.base

-----------------------------------------------------------------------------
(* ResolveVariances.                                                       *)

StartTurn ==
  /\ vgList' = VarianceMap
  /\ isLoop' = FALSE

\* The methods of this round are processed.
StartVariances ==
  /\ phase = "methods"
  /\ stack = <<>>
  /\ phase' = "variances"
  /\ StartTurn
  /\ UNCHANGED <<uses, typeMap, stack, graph, IsProcessed, vlist, i, j>>

BetweenGroups == phase = "variances" /\ stack = <<>> /\ vlist = <<>>

NextGroup ==
  /\ BetweenGroups
  /\ vgList # <<>>
  /\ LET d == Head(vgList) IN
     IF IsProcessed[d] THEN UNCHANGED <<IsProcessed, isLoop, vlist, i, j>>
     ELSE /\ IsProcessed' = [IsProcessed EXCEPT ![d] = TRUE]
          /\ isLoop' = TRUE
          /\ vlist' = IF Len(TypeGroup[d]) = 1 THEN <<>> ELSE TypeGroup[d]
          /\ i' = 1
          /\ j' = 2
  /\ vgList' = Tail(vgList)
  /\ UNCHANGED <<uses, typeMap, stack, graph, phase>>

EndTurn ==
  /\ BetweenGroups
  /\ vgList = <<>>
  /\ IF isLoop THEN StartTurn /\ UNCHANGED phase
     ELSE /\ phase' = IF uses = <<>> THEN "done" ELSE "methods"
          /\ UNCHANGED <<vgList, isLoop>>
  /\ UNCHANGED <<uses, typeMap, stack, graph, IsProcessed, vlist, i, j>>

\* TryLinkVariance of the pair one way and, when that fails, the other way.
Forth == Outcome(vlist[i], vlist[j])
Back == Outcome(vlist[j], vlist[i])
AtPair == phase = "variances" /\ stack = <<>> /\ vlist # <<>>

ResolveArgument ==
  /\ AtPair
  /\ \E x \in Types \ typeMap :
       /\ \/ Forth = "resolve" /\ x = Needed(vlist[i], vlist[j])
          \/ Forth = "no" /\ Back = "resolve" /\ x = Needed(vlist[j], vlist[i])
       /\ Push(x)
  /\ UNCHANGED <<uses, graph, IsProcessed, loop>>

NextPair ==
  /\ IF j < Len(vlist) THEN j' = j + 1 /\ UNCHANGED <<vlist, i>>
     ELSE IF i < Len(vlist) - 1 THEN i' = i + 1 /\ j' = i + 2 /\ UNCHANGED vlist
     ELSE vlist' = <<>> /\ UNCHANGED <<i, j>>
  /\ UNCHANGED <<uses, typeMap, stack, TypeGroup, VarianceMap, IsProcessed, phase, vgList, isLoop>>

\* Mutants: only base itself learns of the derived types; or the two types
\* are exchanged.
AddToBaseOnly(base, derived) ==
  /\ VarianceBaseTypes' = [VarianceBaseTypes EXCEPT ![derived] = @ \cup {base}]
  /\ AddDerived({base}, DerivedTypes[derived] \cup {derived})
AddExchanged(base, derived) ==
  /\ VarianceBaseTypes' = [VarianceBaseTypes EXCEPT ![base] = @ \cup {derived}]
  /\ AddDerived(Visited({derived}, VarianceBaseTypes), DerivedTypes[base] \cup {base})

\* AddVarianceBaseType.
AddVarianceBaseType(base, derived) ==
  LET links == [VarianceBaseTypes EXCEPT ![derived] = @ \cup {base}] IN
  /\ VarianceBaseTypes' = links
  /\ IF base \in VarianceBaseTypes[derived] THEN UNCHANGED DerivedTypes
     ELSE AddDerived(Visited({base}, links), DerivedTypes[derived] \cup {derived})

LinkPair ==
  /\ AtPair
  /\ \/ Forth = "link" /\ AddVarianceBaseType(vlist[i], vlist[j])
     \/ Forth = "no" /\ Back = "link" /\ AddVarianceBaseType(vlist[j], vlist[i])
  /\ NextPair

SkipPair ==
  /\ AtPair
  /\ \/ Forth \in {"linked", "unrelated"}
     \/ Forth = "no" /\ Back \in {"linked", "unrelated", "no"}
  /\ UNCHANGED <<DerivedTypes, VarianceBaseTypes>>
  /\ NextPair

Done == phase = "done" /\ UNCHANGED vars

Next ==
  \/ Use \/ ResolveParent \/ FinishExpand
  \/ StartVariances \/ NextGroup \/ EndTurn
  \/ ResolveArgument \/ LinkPair \/ SkipPair \/ Done

Spec == Init /\ [][Next]_vars

-----------------------------------------------------------------------------
(* Properties.                                                             *)

TypeOK ==
  /\ uses \in Seq(Types)
  /\ typeMap \subseteq Types
  /\ stack \in Seq(typeMap)
  /\ DerivedTypes \in [Types -> SUBSET typeMap]
  /\ VarianceBaseTypes \in [Types -> SUBSET typeMap]
  /\ TypeGroup \in [Defs -> Seq(typeMap)]
  /\ IsProcessed \in [Defs -> BOOLEAN]
  /\ VarianceMap \in Seq(Defs)
  /\ phase \in {"methods", "variances", "done"}
  /\ vgList \in Seq(Defs)
  /\ vlist \in Seq(typeMap)
  /\ i \in Nat \ {0}
  /\ j \in Nat \ {0}
  /\ isLoop \in BOOLEAN

\* The derived types of a type are derived from everything above it, however
\* expansions and variance links interleave.
DerivedClosed ==
  \A x \in Expanded : \A p \in Above(x) : DerivedTypes[x] \cup {x} \subseteq DerivedTypes[p]

\* No two types derive from each other: AddDerivedTypeRecursive terminates.
NoMutualDerivation ==
  \A x, y \in Types : ~(y \in DerivedTypes[x] /\ x \in DerivedTypes[y])

\* A variance link is still justified by the types of the arguments.
LinksJustified ==
  \A x \in Types : \A b \in VarianceBaseTypes[x] :
    \A k \in DOMAIN GenArgs[b] : Holds(Argument(b, x, k))

\* When ResolveAll ends, every two instances of a definition that convert to
\* each other are linked.
LinksComplete ==
  phase = "done" => \A d \in Defs : \A x, y \in ToSet(TypeGroup[d]) :
    x # y => Outcome(x, y) # "link"
=============================================================================
