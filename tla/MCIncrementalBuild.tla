------------------------ MODULE MCIncrementalBuild --------------------------
(* An instance of IncrementalBuild for TLC.                                *)
EXTENDS IncrementalBuild, TLC

\* Two generated units that include il2cpp.h, the linked and the optimised file;
\* then the collector's two units in a stage of their own, one that includes
\* il2cpp.h too, one that includes a gc.h it does not know of; and the file linked
\* of all.
MCUnits == {"a.bc", "b.bc", "linked", "opt", "gc.bc", "il2cppGC.bc", "linked_gc"}
MCSources == {"a.cpp", "b.cpp", "il2cpp.h", "gc.c", "il2cppGC.cpp", "gc.h"}
MCStages == <<{"a.bc", "b.bc"}, {"linked"}, {"opt"}, {"gc.bc", "il2cppGC.bc"}, {"linked_gc"}>>
MCPatches == <<{}, {}, {"linked"}, {"opt"}, {}>>
MCGiven == "a.bc" :> {"a.cpp"} @@ "b.bc" :> {"b.cpp"} @@ "linked" :> {"a.bc", "b.bc"}
           @@ "opt" :> {"linked"} @@ "gc.bc" :> {"gc.c"} @@ "il2cppGC.bc" :> {"il2cppGC.cpp"}
           @@ "linked_gc" :> {"opt", "gc.bc", "il2cppGC.bc"}
MCListed == [u \in MCUnits |-> CASE u = "a.bc" -> {"a.cpp", "il2cpp.h"}
                                 [] u = "b.bc" -> {"b.cpp", "il2cpp.h"}
                                 [] u = "il2cppGC.bc" -> {"il2cppGC.cpp", "il2cpp.h", "gc.h"}
                                 [] OTHER -> {}]
MCReads == [u \in MCUnits |-> MCGiven[u] \cup MCListed[u] \cup (IF u = "gc.bc" THEN {"gc.h"} ELSE {})]
MCRemoves == MCUnits \ {"linked", "linked_gc"}
MCOptioned == MCRemoves
=============================================================================
