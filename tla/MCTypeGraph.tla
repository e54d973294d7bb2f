---------------------------- MODULE MCTypeGraph -----------------------------
(* Instances of TypeGraph for TLC: the types of the tests Variance (of     *)
(* BindingTests.cs) and of a variant delegate with arrays.                 *)
EXTENDS TypeGraph, TLC

\* Inf<out T>, Cls<T> : Inf<T>, over object and string.
InfDef == {"Inf<string>", "Inf<Cls<string>>", "Inf<object>", "Inf<Inf<object>>"}
InfTypes == {"string", "Cls<string>", "Cls<Cls<string>>"} \cup InfDef
\* delegate R Fn<in A, out R>(A a), interface Tag<T, out R>, Der : Base, and a
\* class Impl : Tag<Base,Der[]>, over classes, an array and a value type.
FnDef == {"Fn<Base,Der>", "Fn<Der,Base>", "Fn<Der,object>", "Fn<object,int>"}
TagDef == {"Tag<Base,Der[]>", "Tag<Base,Base[]>", "Tag<Der,Base[]>"}
FnTypes == {"int", "Base", "Der", "Impl"} \cup FnDef \cup TagDef

MCTypes == {"object"} \cup InfTypes \cup FnTypes
MCSigs == MCTypes \cup {"Der[]", "Base[]"}
MCKind == [s \in MCSigs |-> CASE s = "object" -> "object" [] s = "int" -> "value"
                              [] s \in {"Der[]", "Base[]"} -> "szarray" [] OTHER -> "class"]
MCRank == [s \in {"Der[]", "Base[]"} |-> 1]
MCElem == "Der[]" :> "Der" @@ "Base[]" :> "Base"
NoTypes == {}
MCParents == [s \in MCTypes |-> CASE s \in {"object"} \cup InfDef \cup TagDef -> <<>>
                                  [] s = "Cls<string>" -> <<"object", "Inf<string>">>
                                  [] s = "Cls<Cls<string>>" -> <<"object", "Inf<Cls<string>>">>
                                  [] s = "Der" -> <<"Base">>
                                  [] s = "Impl" -> <<"object", "Tag<Base,Der[]>">>
                                  [] OTHER -> <<"object">>]
MCDefs == {"Inf", "Fn", "Tag"}
MCDefOf == [s \in MCTypes |-> CASE s \in InfDef -> "Inf" [] s \in FnDef -> "Fn"
                                [] s \in TagDef -> "Tag" [] OTHER -> "none"]
MCArgs == [s \in MCTypes |-> CASE s \in {"Cls<string>", "Inf<string>"} -> <<"string">>
                               [] s \in {"Cls<Cls<string>>", "Inf<Cls<string>>"} -> <<"Cls<string>">>
                               [] s = "Inf<object>" -> <<"object">>
                               [] s = "Inf<Inf<object>>" -> <<"Inf<object>">>
                               [] s = "Fn<Base,Der>" -> <<"Base", "Der">>
                               [] s = "Fn<Der,Base>" -> <<"Der", "Base">>
                               [] s = "Fn<Der,object>" -> <<"Der", "object">>
                               [] s = "Fn<object,int>" -> <<"object", "int">>
                               [] s = "Tag<Base,Der[]>" -> <<"Base", "Der[]">>
                               [] s = "Tag<Base,Base[]>" -> <<"Base", "Base[]">>
                               [] s = "Tag<Der,Base[]>" -> <<"Der", "Base[]">>
                               [] OTHER -> <<>>]
MCVariances == "Inf" :> <<"covariant">> @@ "Fn" :> <<"contravariant", "covariant">>
               @@ "Tag" :> <<"nonvariant", "covariant">>

\* Variance.Entry: Inf<object> i = new Cls<string>();
\*                 Inf<Inf<object>> ii = new Cls<Cls<string>>(); i.Foo(); ii.Foo();
VarianceTest == {<<"Cls<string>", "Cls<Cls<string>>", "Inf<object>", "Inf<Inf<object>>">>}

\* Without Inf<Inf<object>> no argument is itself a variant instance: any order.
\* The instances of Fn in any order, then those of Tag in any order.
VariancePrograms ==
  VarianceTest \cup SetToSeqs({"Cls<string>", "Cls<Cls<string>>", "Inf<object>", "string"})
  \cup {a \o b : a \in SetToSeqs(FnDef),
                b \in SetToSeqs({"Impl", "Tag<Base,Base[]>", "Tag<Der,Base[]>"})}
=============================================================================
