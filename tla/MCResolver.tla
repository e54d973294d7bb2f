----------------------------- MODULE MCResolver -----------------------------
(* Instances of Resolver for TLC: B : A, a value type V and strings, with  *)
(* O (object) above all of them.  The bodies of the methods vary.          *)
EXTENDS Resolver, TLC

MCTypes == {"O", "A", "B", "V", "boxedV", "string"}
MCMethods == {"main", "newA", "newB", "O.Text", "V.Text", "A.Get", "B.Get", "A.Old", "A.New",
              "A.cctor", "A.Finalize", "Concat"}
MCDeclType == [m \in MCMethods |->
  CASE m \in {"newB", "B.Get"} -> "B" [] m \in {"main", "O.Text"} -> "O"
    [] m = "V.Text" -> "V" [] m = "Concat" -> "string" [] OTHER -> "A"]
MCVirtual == {"O.Text", "V.Text", "A.Get", "B.Get", "A.Old", "A.New", "A.Finalize"}
MCStatic == {"main", "A.cctor", "Concat"}
MCCctor == [t \in MCTypes |-> IF t = "A" THEN "A.cctor" ELSE "none"]
MCDeclared == [t \in MCTypes |-> IF t = "A" THEN "A.Finalize" ELSE "none"]
MCFinalizer == [t \in MCTypes |-> IF t \in {"A", "B"} THEN "A.Finalize" ELSE "none"]
MCBases == [t \in MCTypes |-> CASE t = "O" -> {} [] t = "B" -> {"A", "O"} [] OTHER -> {"O"}]
MCDerived == [t \in MCTypes |-> {s \in MCTypes : t \in MCBases[s]}]
MCBoxedType == [t \in MCTypes |-> "boxedV"]
MCReplace == [m \in MCMethods |-> IF m = "A.Old" THEN "A.New" ELSE "none"]
MCImpl == [t \in MCTypes |-> [m \in MCMethods |->
  CASE m = "O.Text" /\ t = "V" -> "V.Text"
    [] m = "A.Get" /\ t = "B" -> "B.Get"
    [] m = "A.Old" -> "A.New"
    [] OTHER -> m]]

I(op, on) == [op |-> op, on |-> on]
UpTo(n, S) == UNION {[1..k -> S] : k \in 0..n}
BodiesOf(main, get, over, new, cctor, fin) ==
  {[m \in MCMethods |->
      CASE m = "main" -> b1 [] m = "A.Get" -> b2 [] m = "B.Get" -> b3 [] m = "A.New" -> b4
        [] m = "A.cctor" -> b5 [] m = "A.Finalize" -> b6 [] OTHER -> <<>>] :
     b1 \in main, b2 \in get, b3 \in over, b4 \in new, b5 \in cctor, b6 \in fin}

\* String is not mentioned but by literals.
AllPrograms ==
  BodiesOf(UpTo(2, {I("newobj", "newA"), I("newobj", "newB"), I("callvirt", "A.Get"),
                    I("callvirt", "O.Text"), I("call", "A.Old"), I("callvirt", "newA"),
                    I("ldsfld", "A")}),
           UpTo(1, {I("newobj", "newB"), I("ldtoken", "A.Old"), I("box", "V")}),
           UpTo(1, {I("call", "A.Get"), I("callvirt", "O.Text"), I("isinst", "B")}),
           UpTo(1, {I("newobj", "newA"), I("ldstr", "string"), I("call", "B.Get")}),
           UpTo(1, {I("callvirt", "A.Get"), I("newobj", "newB")}),
           {<<I("callvirt", "O.Text")>>})
=============================================================================
