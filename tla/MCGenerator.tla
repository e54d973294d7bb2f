----------------------------- MODULE MCGenerator -----------------------------
(***************************************************************************)
(* Instances of MethodTable and UnitMerger for TLC. They share nothing, so *)
(* a behaviour resolves a chain of classes or merges a program of units.   *)
(*                                                                         *)
(* The chains have three classes that declare a method f, one or two more, *)
(* and list an interface I with a method f or J, which extends I and       *)
(* declares f again, or K, which has a method x.                           *)
(***************************************************************************)
EXTENDS MethodTable, UnitMerger

Entry(i, s) == [owner |-> i, sig |-> s, kind |-> "new"]
Inf(i) == Entry(i, "f")
MCSlots ==
  [i \in {-1, -2, -3} |-> CASE i = -1 -> [s \in {"f"} |-> {Inf(-1)}]
                           [] i = -2 -> [s \in {"f"} |-> {Inf(-1), Inf(-2)}]
                           [] i = -3 -> [s \in {"x"} |-> {Entry(-3, "x")}]]

D(s, k, o) == [sig |-> s, kind |-> k, overrides |-> o]
C(m, l) == [methods |-> m, lists |-> l, abstract |-> FALSE]
Fs == {<<>>, <<D("f", "new", {})>>, <<D("f", "reuse", {})>>}
Targets == {[owner |-> k, sig |-> s, kind |-> q] : k \in 1..2, s \in {"f"}, q \in {"new"}}
MCDeclarations ==
  {C(f, l) : f \in Fs \cup {<<D("f", "new", {}), D("f", "reuse", {})>>}, l \in {<<>>, <<-1>>}}
  \cup {C(f \o <<D("x", "new", {Inf(-1)})>>, <<-1>>) : f \in Fs}
  \cup {C(f \o <<D("x", k, {t})>>, <<>>) : f \in Fs, k \in {"new", "reuse"}, t \in Targets}
  \cup {C(<<D("f", "new", {}), D("x", "new", {})>>, <<>>),
        C(<<D("x", "reuse", {})>>, <<>>),
        C(<<D("f", "reuse", {[owner |-> 1, sig |-> "x", kind |-> "new"]}),
            D("x", "reuse", {[owner |-> 1, sig |-> "f", kind |-> "new"]})>>, <<>>),
        C(<<D("f", "new", {}), D("x", "new", {}), D("g", "new", {})>>, <<>>),
        C(<<D("f", "reuse", {[owner |-> 1, sig |-> "x", kind |-> "new"]}),
            D("x", "reuse", {[owner |-> 1, sig |-> "g", kind |-> "new"]})>>, <<>>),
        C(<<D("f", "new", {})>>, <<-2>>), C(<<>>, <<-2, -1>>), C(<<>>, <<-3>>),
        [C(<<>>, <<-2>>) EXCEPT !.abstract = TRUE],
        [C(<<D("f", "new", {})>>, <<>>) EXCEPT !.abstract = TRUE]}

\* every graph of four units that do not need each other, up to their names,
\* and every graph of three, the first of which names itself and a type that
\* has no unit
Edges(S, E) == [u \in S |-> {v \in S : <<u, v>> \in E}]
Acyclic == {Edges(1..4, E) : E \in SUBSET {p \in (1..4) \X (1..4) : p[1] > p[2]}}
Cyclic == {[Edges(1..3, E) EXCEPT ![1] = @ \cup {0, 1}] :
             E \in SUBSET {p \in (1..3) \X (1..3) : p[1] # p[2]}}
MCGraphs == Acyclic \cup Cyclic

NoUnits ==
  /\ decl = <<>> /\ bridgeTypes = {} /\ order = <<>> /\ phase = "none"
  /\ calls = <<>> /\ stackUnitNames = {}
  /\ sorted = <<>> /\ pos = 1 /\ remain = <<>> /\ changed = FALSE
  /\ bridge = <<>> /\ bridgeNames = {} /\ files = <<>>

GeneratorInit == Init /\ (NoUnits \/ MergeInit)
GeneratorNext ==
  \/ phase = "none" /\ Next /\ UNCHANGED mergeVars
  \/ MergeNext /\ UNCHANGED vars
GeneratorSpec == GeneratorInit /\ [][GeneratorNext]_<<vars, mergeVars>>
=============================================================================
