--------------------------- MODULE ResolverProofs ---------------------------
(* Proofs about Resolver, for all types, methods and programs that satisfy *)
(* its assumptions.                                                        *)
EXTENDS Resolver, TLAPS

Pending == ToSet(PendingMethods)

\* Only methods that virtual calls, or replaced calls, may name are skipped.
MaySkip(m) ==
  /\ m \in IsVirtual
  /\ \A t \in Types : Finalizer[t] # m
  /\ \A n \in Methods : Replace[n] # m

FlagInv == \A m \in Methods : SkipProcessingFlag[m] = 1 => MaySkip(m)

\* A method that is not to be skipped is processed or will be.
KnownInv == \A m \in methodMap : SkipProcessingFlag[m] # 1 => m \in IsProcessed \cup Pending

CctorInv == \A t \in IsCctorGenerated : Cctor[t] \in methodMap \cup {NoMethod}

FinalizerInv == \A t \in IsFinalizerGenerated : FinalizerMethod[t] = Finalizer[t]

\* What the instruction i leaves behind.
Effect(i) ==
  /\ i.op = "newobj" =>
       /\ i.on \in methodMap
       /\ DeclType[i.on] \in IsInstantiated \cap IsCctorGenerated \cap IsFinalizerGenerated
  /\ i.op = "callvirt" => i.on \in methodMap /\ (i.on \in IsVirtual => i.on \in VCallEntries)
  /\ i.op \in {"call", "ldtoken"} /\ ~Replaced(i) =>
       /\ i.on \in methodMap
       /\ SkipProcessingFlag[i.on] = 2
       /\ i.on \in IsStatic => DeclType[i.on] \in IsCctorGenerated
  /\ Replaced(i) => Replace[i.on] \in methodMap
  /\ i.op = "ldsfld" => i.on \in IsCctorGenerated
  /\ i.op = "box" => {i.on, BoxedType[i.on]} \subseteq IsInstantiated

\* The instructions that have been processed have left their effects.
EffectInv ==
  \A m \in IsProcessed : \A k \in 1..Len(body[m]) : m # current \/ k < ip => Effect(body[m][k])

\* The pairs ResolveVCalls is done with are bound.
BoundInv ==
  phase # "methods" =>
    \A p \in Receivers(VCallEntries, IsInstantiated) \ todo :
      /\ <<p[1], p[2], Impl[p[2]][p[1]]>> \in OverrideImpls
      /\ Impl[p[2]][p[1]] \in methodMap
      /\ SkipProcessingFlag[Impl[p[2]][p[1]]] = 2

\* No binding is wrong.
BindingsInv ==
  \A b \in OverrideImpls : <<b[1], b[2]>> \in Receivers(VCallEntries, IsInstantiated) /\ b[3] = Impl[b[2]][b[1]]

PhaseInv ==
  /\ phase # "methods" => ~Building
  /\ todo \subseteq Receivers(VCallEntries, IsInstantiated)
  /\ phase # "vcalls" => todo = {}
  /\ phase = "done" => PendingMethods = <<>>

IInv ==
  /\ TypeOK
  /\ body \in Programs
  /\ Entry \in methodMap
  /\ FlagInv /\ KnownInv /\ CctorInv /\ FinalizerInv
  /\ EffectInv /\ BoundInv /\ BindingsInv /\ PhaseInv

USE MethodAssumption, TypeAssumption

-----------------------------------------------------------------------------
(* Sequences of methods.                                                   *)

\* The members of a sequence that is extended.
LEMMA ConcatSet ==
  ASSUME NEW S, NEW s \in Seq(S), NEW t \in Seq(S)
  PROVE  s \o t \in Seq(S) /\ ToSet(s \o t) = ToSet(s) \cup ToSet(t)
<1>1. ASSUME NEW x \in ToSet(s) \cup ToSet(t) PROVE x \in ToSet(s \o t)
  <2>1. CASE x \in ToSet(s)
    <3> PICK k \in DOMAIN s : s[k] = x
      BY <2>1 DEF ToSet
    <3> k \in DOMAIN (s \o t) /\ (s \o t)[k] = x
      OBVIOUS
    <3> QED BY DEF ToSet
  <2>2. CASE x \in ToSet(t)
    <3> PICK k \in DOMAIN t : t[k] = x
      BY <2>2 DEF ToSet
    <3> k + Len(s) \in DOMAIN (s \o t) /\ (s \o t)[k + Len(s)] = x
      OBVIOUS
    <3> QED BY DEF ToSet
  <2> QED BY <1>1, <2>1, <2>2
<1>2. ASSUME NEW x \in ToSet(s \o t) PROVE x \in ToSet(s) \cup ToSet(t)
  <2> PICK k \in DOMAIN (s \o t) : (s \o t)[k] = x
    BY <1>2 DEF ToSet
  <2>1. CASE k <= Len(s)
    <3> k \in DOMAIN s /\ s[k] = x
      BY <2>1
    <3> QED BY DEF ToSet
  <2>2. CASE k > Len(s)
    <3> k - Len(s) \in DOMAIN t /\ t[k - Len(s)] = x
      BY <2>2
    <3> QED BY DEF ToSet
  <2> QED BY <2>1, <2>2
<1> QED BY <1>1, <1>2

LEMMA ConcatSet3 ==
  ASSUME NEW S, NEW s \in Seq(S), NEW t \in Seq(S), NEW u \in Seq(S)
  PROVE  s \o t \o u \in Seq(S) /\ ToSet(s \o t \o u) = ToSet(s) \cup ToSet(t) \cup ToSet(u)
<1> DEFINE st == s \o t
<1>1. st \in Seq(S) /\ ToSet(st) = ToSet(s) \cup ToSet(t)
  BY ConcatSet
<1> HIDE DEF st
<1>2. st \o u \in Seq(S) /\ ToSet(st \o u) = ToSet(st) \cup ToSet(u)
  BY <1>1, ConcatSet
<1> QED BY <1>1, <1>2 DEF st

\* The members of a sequence that loses its head.
LEMMA TailSet ==
  ASSUME NEW S, NEW s \in Seq(S), s # <<>>
  PROVE  /\ Tail(s) \in Seq(S) /\ Head(s) \in S
         /\ ToSet(s) = {Head(s)} \cup ToSet(Tail(s))
<1>1. ASSUME NEW x \in ToSet(s) PROVE x \in {Head(s)} \cup ToSet(Tail(s))
  <2> PICK k \in DOMAIN s : s[k] = x
    BY <1>1 DEF ToSet
  <2>1. CASE k # 1
    <3> k - 1 \in DOMAIN Tail(s) /\ Tail(s)[k - 1] = x
      BY <2>1
    <3> QED BY DEF ToSet
  <2> QED BY <2>1
<1>2. ASSUME NEW x \in ToSet(Tail(s)) PROVE x \in ToSet(s)
  <2> PICK k \in DOMAIN Tail(s) : Tail(s)[k] = x
    BY <1>2 DEF ToSet
  <2> k + 1 \in DOMAIN s /\ s[k + 1] = x
    OBVIOUS
  <2> QED BY DEF ToSet
<1>3. Head(s) \in ToSet(s)
  <2> 1 \in DOMAIN s /\ s[1] = Head(s)
    OBVIOUS
  <2> QED BY DEF ToSet
<1> QED BY <1>1, <1>2, <1>3

LEMMA NewSet ==
  ASSUME TypeOK, NEW m \in Methods \cup {NoMethod}
  PROVE  New(m) \in Seq(Methods) /\ ToSet(New(m)) = {m} \ (methodMap \cup {NoMethod})
  BY DEF New, TypeOK, ToSet

LEMMA AgainSet ==
  ASSUME TypeOK, NEW m \in Methods
  PROVE  Again(m) \in Seq(Methods) /\ ToSet(Again(m)) = {m} \ IsProcessed
  BY DEF Again, TypeOK, ToSet

LEMMA SeqMono ==
  ASSUME NEW S, NEW T, S \subseteq T, NEW s \in Seq(S)
  PROVE  s \in Seq(T)
  OBVIOUS

\* Methods that are added, those of them that are new through the queue.
LEMMA AddStep ==
  ASSUME TypeOK, NEW ms \in SUBSET (Methods \cup {NoMethod}), NEW queue \in Seq(Methods),
         ToSet(queue) \subseteq ms, AddMethods(ms, queue)
  PROVE  /\ methodMap' = methodMap \cup (ms \ {NoMethod})
         /\ methodMap' \subseteq Methods
         /\ PendingMethods' \in Seq(methodMap')
         /\ Pending' = Pending \cup ToSet(queue)
<1>1. methodMap' = methodMap \cup (ms \ {NoMethod}) /\ methodMap' \subseteq Methods
  BY DEF AddMethods, TypeOK
<1>2. PendingMethods \in Seq(methodMap')
  <2>1. PendingMethods \in Seq(methodMap) /\ methodMap \subseteq methodMap'
    BY <1>1 DEF TypeOK
  <2> QED BY <2>1, SeqMono
<1>3. queue \in Seq(methodMap')
  <2>1. \A k \in DOMAIN queue : queue[k] \in ToSet(queue)
    BY DEF ToSet
  <2>2. \A k \in DOMAIN queue : queue[k] \in Methods
    OBVIOUS
  <2>3. \A k \in DOMAIN queue : queue[k] \in methodMap'
    BY <1>1, <2>1, <2>2
  <2> QED BY <2>3
<1>4. PendingMethods' = PendingMethods \o queue
  BY DEF AddMethods
<1> QED BY <1>1, <1>2, <1>3, <1>4, ConcatSet DEF Pending

-----------------------------------------------------------------------------
(* Finalizers.                                                             *)

\* Among classes of a chain one is the lowest.
LEMMA Lowest ==
  ASSUME NEW t \in Types, NEW S \in SUBSET Chain(t), S # {}
  PROVE  \E u \in S : S \subseteq Chain(u)
<1>1. \A u \in Types : \A T \in SUBSET Chain(u) : T # {} => \E v \in T : T \subseteq Chain(v)
  BY ONLY BasesAssumption
<1> QED BY ONLY <1>1, S # {}, S \in SUBSET Chain(t), t \in Types

\* The climb from t ends at a type where it stops, and all the types it has
\* passed have the finalizer of that type.
LEMMA ClimbFacts ==
  ASSUME NEW t \in Types
  PROVE  /\ Climbed(t) \subseteq Types /\ t \in Climbed(t)
         /\ Top(t) \in Climbed(t) /\ Stops(Top(t))
         /\ \A u \in Climbed(t) : Finalizer[u] = Finalizer[Top(t)]
<1> USE BasesAssumption
<1>1. Chain(t) \subseteq Types /\ t \in Chain(t) /\ \A u \in Chain(t) : Chain(u) \subseteq Chain(t)
  BY DEF Chain
<1>2. t \in Climbed(t)
  <2> SUFFICES \A v \in Below(t, t) : FALSE
    BY <1>1 DEF Climbed
  <2> QED BY DEF Below, Chain
<1>3. PICK stop \in Climbed(t) : Stops(stop)
  <2> DEFINE S == {v \in Chain(t) : Stops(v)}
  <2>1. S # {}
    BY DEF Stops
  <2>2. PICK u \in S : S \subseteq Chain(u)
    <3>1. S \in SUBSET Chain(t)
      OBVIOUS
    <3> HIDE DEF S
    <3> QED BY <2>1, <3>1, Lowest
  <2>3. \A v \in Below(t, u) : v \notin S
    <3> SUFFICES ASSUME NEW v \in Below(t, u), v \in S PROVE FALSE
      OBVIOUS
    <3>1. v \in Chain(u) /\ u \in Bases[v] /\ v \in Types /\ u \in Types
      BY <1>1, <2>2 DEF Below
    <3>2. v = u \/ v \in Bases[u]
      BY <3>1 DEF Chain
    <3>3. u \in Bases[u]
      BY <3>1, <3>2
    <3> QED BY <3>1, <3>3
  <2>4. u \in Climbed(t)
    BY <2>3 DEF Climbed, Below
  <2> QED BY <2>4
<1>4. Top(t) \in Climbed(t) /\ Stops(Top(t))
  BY <1>3 DEF Top
<1>5. ASSUME NEW u \in Climbed(t) PROVE Finalizer[u] = Finalizer[Top(t)]
  <2> DEFINE top == Top(t)
  <2>1. u \in Chain(t) /\ top \in Chain(t) /\ u \in Types /\ top \in Types
    BY <1>1, <1>4 DEF Climbed
  <2>2. top \in Chain(u)
    <3> DEFINE both == {u, top}
    <3>1. PICK w \in both : both \subseteq Chain(w)
      <4>1. both \in SUBSET Chain(t) /\ both # {}
        BY <2>1
      <4> HIDE DEF both
      <4> QED BY <4>1, Lowest
    <3>2. CASE w = top /\ u # top
      <4>1. u \in Bases[top]
        BY <3>1, <3>2 DEF Chain
      <4>2. top \in Below(t, u)
        BY <2>1, <4>1 DEF Below
      <4> QED BY <4>2, <1>4 DEF Climbed
    <3> QED BY <3>1, <3>2
  <2>3. \A v \in Below(u, top) : Declared[v] = NoMethod
    <3> SUFFICES ASSUME NEW v \in Below(u, top) PROVE Declared[v] = NoMethod
      OBVIOUS
    <3>1. v \in Below(t, top)
      BY <1>1, <2>1 DEF Below
    <3>2. ~Stops(v)
      BY <3>1, <1>4 DEF Climbed
    <3> QED BY <3>2 DEF Stops
  <2> QED BY <2>1, <2>2, <2>3, FinalizerAssumption
<1> QED BY <1>1, <1>2, <1>4, <1>5 DEF Climbed

\* What GenFinalizerMethod finds for t is right, and it adds what it finds.
LEMMA FinalizerStep ==
  ASSUME TypeOK, FinalizerInv, NEW t \in Types, GenFinalizer(t),
         methodMap' \in SUBSET Methods, methodMap \subseteq methodMap',
         NewFinalizer(t) # NoMethod => NewFinalizer(t) \in methodMap'
  PROVE  /\ FinalizerInv'
         /\ FinalizerMethod' \in [Types -> methodMap' \cup {NoMethod}]
         /\ IsFinalizerGenerated' \subseteq Types
         /\ IsFinalizerGenerated \cup {t} \subseteq IsFinalizerGenerated'
<1> DEFINE found == IF Top(t) \in IsFinalizerGenerated THEN FinalizerMethod[Top(t)] ELSE Declared[Top(t)]
<1>1. /\ Climbed(t) \subseteq Types /\ t \in Climbed(t)
      /\ Top(t) \in Climbed(t) /\ Stops(Top(t))
      /\ \A u \in Climbed(t) : Finalizer[u] = Finalizer[Top(t)]
  BY ClimbFacts
<1>2. found = Finalizer[Top(t)]
  BY <1>1, FinalizerAssumption DEF FinalizerInv, Stops
<1>3. found \in methodMap' \cup {NoMethod}
  BY <1>1, FinalizerAssumption DEF TypeOK, NewFinalizer
<1>4. /\ IsFinalizerGenerated' = IsFinalizerGenerated \cup Climbed(t)
      /\ FinalizerMethod' = [u \in Types |-> IF u \in Climbed(t) THEN found ELSE FinalizerMethod[u]]
  BY DEF GenFinalizer
<1>5. IsFinalizerGenerated \subseteq Types /\ FinalizerMethod \in [Types -> methodMap \cup {NoMethod}]
  BY DEF TypeOK
<1> HIDE DEF found
<1>6. FinalizerInv'
  BY <1>1, <1>2, <1>4, <1>5 DEF FinalizerInv
<1>7. FinalizerMethod' \in [Types -> methodMap' \cup {NoMethod}]
  BY <1>3, <1>4, <1>5
<1> QED BY <1>1, <1>4, <1>5, <1>6, <1>7

\* The finalizer it adds is that of t.
LEMMA NewFinalizerType ==
  ASSUME NEW t \in Types
  PROVE  NewFinalizer(t) = NoMethod \/ (NewFinalizer(t) \in Methods /\ NewFinalizer(t) = Finalizer[t])
<1>1. Top(t) \in Types /\ Finalizer[t] = Finalizer[Top(t)]
  BY ClimbFacts
<1> QED BY <1>1, FinalizerAssumption DEF NewFinalizer

-----------------------------------------------------------------------------
(* The instructions.                                                       *)

\* No step takes anything back.
Grows ==
  /\ methodMap \subseteq methodMap'
  /\ IsInstantiated \subseteq IsInstantiated'
  /\ VCallEntries \subseteq VCallEntries'
  /\ IsCctorGenerated \subseteq IsCctorGenerated'
  /\ IsFinalizerGenerated \subseteq IsFinalizerGenerated'
  /\ \A m \in Methods : SkipProcessingFlag[m] = 2 => SkipProcessingFlag'[m] = 2

LEMMA EffectStays ==
  ASSUME TypeOK, Grows, NEW i \in Instructions, Effect(i)
  PROVE  Effect(i)'
<1>1. Replaced(i) <=> Replaced(i)'
  BY DEF Replaced
<1> QED BY <1>1 DEF Effect, Grows, TypeOK

LEMMA InstType ==
  ASSUME IInv, NEW op, At(op)
  PROVE  /\ current \in Methods /\ ip \in 1..Len(body[current])
         /\ Inst \in Instructions /\ Inst.op = op
         /\ op \in MethodOps => Inst.on \in Methods
         /\ op \in TypeOps => Inst.on \in Types
         /\ op = "ldstr" => Inst.on = StringType
<1>1. current \in Methods /\ body[current] \in Seq(Instructions)
  BY DEF IInv, TypeOK, At, Building
<1>2. ip \in 1..Len(body[current])
  BY <1>1 DEF IInv, TypeOK, At, Building
<1>3. Inst \in Instructions
  BY <1>1, <1>2 DEF Inst
<1> QED BY <1>1, <1>2, <1>3 DEF At, Instructions, MethodOps, TypeOps

LEMMA InstTypeOK ==
  ASSUME TypeOK, NEW op, At(op), Grows,
         methodMap' \subseteq Methods, PendingMethods' \in Seq(methodMap'),
         SkipProcessingFlag' \in [Methods -> 0..2],
         VCallEntries' \subseteq methodMap' \cap IsVirtual,
         typeMap' \in SUBSET Types, IsInstantiated' \subseteq typeMap',
         IsCctorGenerated' \subseteq Types, IsFinalizerGenerated' \subseteq Types,
         FinalizerMethod' \in [Types -> methodMap' \cup {NoMethod}],
         IsStringTypeResolved' \in BOOLEAN
  PROVE  TypeOK'
<1>1. OverrideImpls' \subseteq VCallEntries' \X IsInstantiated' \X methodMap'
  BY DEF TypeOK, At, Grows
<1>2. todo' \subseteq VCallEntries' \X IsInstantiated'
  BY DEF TypeOK, At, Grows
<1>3. /\ body' \in [Methods -> Seq(Instructions)] /\ phase' \in {"methods", "vcalls", "done"}
      /\ current' \in IsProcessed' \cup {NoMethod} /\ ip' \in Nat \ {0}
      /\ IsProcessed' \subseteq methodMap'
  BY DEF TypeOK, At, Grows
<1> QED BY <1>1, <1>2, <1>3 DEF TypeOK

\* An instruction keeps the invariant if it keeps its parts on methods, and
\* leaves its effect.
LEMMA InstStep ==
  ASSUME IInv, NEW op, At(op), Grows, NEW i, i = Inst, Effect(i)',
         TypeOK', FlagInv', KnownInv', CctorInv', FinalizerInv'
  PROVE  IInv'
<1>1. /\ phase = "methods" /\ phase' = phase /\ body' = body /\ current' = current
      /\ todo' = todo /\ ip' = ip + 1 /\ IsProcessed' = IsProcessed /\ OverrideImpls' = OverrideImpls
  BY DEF At
<1>2. /\ body \in [Methods -> Seq(Instructions)] /\ IsProcessed \subseteq Methods
      /\ ip \in Nat /\ TypeOK
  BY DEF IInv, TypeOK
<1>3. EffectInv'
  <2> SUFFICES ASSUME NEW m \in IsProcessed, NEW k \in 1..Len(body[m]), m # current \/ k < ip + 1
               PROVE  Effect(body[m][k])'
    BY <1>1 DEF EffectInv
  <2>1. body[m][k] \in Instructions
    BY <1>2
  <2>2. CASE m # current \/ k < ip
    <3>1. Effect(body[m][k])
      BY <2>2 DEF IInv, EffectInv
    <3> PICK j \in Instructions : j = body[m][k]
      BY <2>1
    <3>2. Effect(j)'
      BY <3>1, <1>2, EffectStays
    <3> QED BY <3>2, <1>1
  <2>3. CASE m = current /\ k = ip
    <3>1. body'[m][k] = i
      BY <2>3, <1>1 DEF Inst
    <3> QED BY <3>1, <1>1
  <2> QED BY <2>2, <2>3, <1>2
<1>4. BoundInv' /\ PhaseInv'
  BY <1>1 DEF BoundInv, PhaseInv, IInv
<1>5. BindingsInv'
  <2>1. Receivers(VCallEntries, IsInstantiated) \subseteq Receivers(VCallEntries, IsInstantiated)'
    BY DEF Receivers, Grows
  <2> QED BY <2>1, <1>1 DEF IInv, BindingsInv
<1>6. Entry \in methodMap' /\ body' \in Programs
  BY <1>1 DEF IInv, Grows
<1> QED BY <1>3, <1>4, <1>5, <1>6 DEF IInv

LEMMA NewobjStep == IInv /\ Newobj => IInv'
<1> SUFFICES ASSUME IInv, Newobj PROVE IInv'
  OBVIOUS
<1>0. At("newobj")
  BY DEF Newobj
<1>1. PICK i \in Instructions : i = Inst /\ i.op = "newobj" /\ i.on \in Methods
  BY <1>0, InstType DEF MethodOps
<1> DEFINE c == i.on
           t == DeclType[c]
           cc == StaticCctor(t)
           f == NewFinalizer(t)
           queue == New(c) \o New(cc) \o New(f)
<1>2. /\ c \in Methods /\ t \in Types
      /\ cc \in Methods \cup {NoMethod} /\ cc \in {NoMethod, Cctor[t]}
      /\ f = NoMethod \/ (f \in Methods /\ f = Finalizer[t])
  BY <1>1, NewFinalizerType DEF StaticCctor
<1>3. TypeOK /\ Resolve(t) /\ IsInstantiated' = IsInstantiated \cup {t}
      /\ AddMethods({c, cc, f}, queue) /\ GenStaticCctor(t) /\ GenFinalizer(t)
      /\ SkipProcessingFlag' = SkipProcessingFlag /\ VCallEntries' = VCallEntries
      /\ IsStringTypeResolved' = IsStringTypeResolved
  BY <1>1 DEF Newobj, IInv
<1>4. queue \in Seq(Methods) /\ ToSet(queue) = {c, cc, f} \ (methodMap \cup {NoMethod})
  <2>1. /\ New(c) \in Seq(Methods) /\ ToSet(New(c)) = {c} \ (methodMap \cup {NoMethod})
        /\ New(cc) \in Seq(Methods) /\ ToSet(New(cc)) = {cc} \ (methodMap \cup {NoMethod})
        /\ New(f) \in Seq(Methods) /\ ToSet(New(f)) = {f} \ (methodMap \cup {NoMethod})
    BY <1>2, <1>3, NewSet
  <2>2. queue \in Seq(Methods) /\ ToSet(queue) = ToSet(New(c)) \cup ToSet(New(cc)) \cup ToSet(New(f))
    BY ONLY <2>1, ConcatSet3
  <2> QED BY <2>1, <2>2
<1> HIDE DEF queue, f, cc
<1>5. /\ methodMap' = methodMap \cup ({c, cc, f} \ {NoMethod}) /\ methodMap' \subseteq Methods
      /\ PendingMethods' \in Seq(methodMap') /\ Pending' = Pending \cup ToSet(queue)
  <2>1. {c, cc, f} \in SUBSET (Methods \cup {NoMethod}) /\ ToSet(queue) \subseteq {c, cc, f}
    BY <1>2, <1>4
  <2> QED BY ONLY <2>1, <1>3, <1>4, AddStep
<1>6. /\ FinalizerInv' /\ FinalizerMethod' \in [Types -> methodMap' \cup {NoMethod}]
      /\ IsFinalizerGenerated' \subseteq Types
      /\ IsFinalizerGenerated \cup {t} \subseteq IsFinalizerGenerated'
  <2>1. f # NoMethod => f \in methodMap'
    BY <1>5
  <2> QED BY <1>2, <1>3, <1>5, <2>1, FinalizerStep DEF IInv, f
<1>7. IsCctorGenerated' = IsCctorGenerated \cup {t}
  BY <1>3 DEF GenStaticCctor
<1>8. Grows
  BY <1>3, <1>5, <1>6, <1>7 DEF Grows
<1>9. Effect(i)'
  BY <1>1, <1>2, <1>3, <1>5, <1>6, <1>7, MethodAssumption DEF Effect, Replaced
<1>10. FlagInv' /\ KnownInv'
  BY <1>3, <1>4, <1>5, <1>0 DEF IInv, FlagInv, KnownInv, At, MaySkip
<1>11. CctorInv'
  BY <1>2, <1>5, <1>7 DEF IInv, CctorInv, cc, StaticCctor
<1>12. TypeOK'
  <2>1. /\ typeMap' \in SUBSET Types /\ IsInstantiated' \subseteq typeMap'
        /\ IsCctorGenerated' \subseteq Types
    BY <1>2, <1>3, <1>7 DEF TypeOK, Resolve
  <2>2. VCallEntries' \subseteq methodMap' \cap IsVirtual
    BY <1>3, <1>5 DEF TypeOK
  <2> QED BY <1>0, <1>3, <1>5, <1>6, <1>8, <2>1, <2>2, InstTypeOK DEF TypeOK
<1> QED BY <1>0, <1>1, <1>8, <1>9, <1>6, <1>10, <1>11, <1>12, InstStep

\* No finalizer and no replacement is named where it would be skipped.
LEMMA Skippable ==
  ASSUME IInv, NEW op, At(op), NEW i \in Instructions, i = Inst, i.on \in IsVirtual,
         op = "callvirt" \/ (op = "call" /\ Replace[i.on] # NoMethod)
  PROVE  MaySkip(i.on)
<1>1. /\ current \in Methods /\ ip \in DOMAIN body[current] /\ body \in Programs
      /\ i = body[current][ip] /\ i.op = op
  BY InstType DEF IInv, TypeOK, Inst, At
<1> QED BY ONLY <1>1, EntriesAssumption, op = "callvirt" \/ (op = "call" /\ Replace[i.on] # NoMethod),
           i.on \in IsVirtual DEF MaySkip

LEMMA SkipFacts ==
  ASSUME TypeOK, NEW m \in Methods, Skip(m)
  PROVE  /\ SkipProcessingFlag' \in [Methods -> 0..2]
         /\ \A n \in Methods : n # m => SkipProcessingFlag'[n] = SkipProcessingFlag[n]
         /\ SkipProcessingFlag'[m] \in {1, SkipProcessingFlag[m]}
         /\ SkipProcessingFlag[m] = 2 => SkipProcessingFlag'[m] = 2
  BY DEF Skip, TypeOK

LEMMA DontSkipFacts ==
  ASSUME TypeOK, NEW m \in Methods, DontSkip(m)
  PROVE  /\ SkipProcessingFlag' \in [Methods -> 0..2]
         /\ \A n \in Methods : n # m => SkipProcessingFlag'[n] = SkipProcessingFlag[n]
         /\ SkipProcessingFlag'[m] = 2
  BY DEF DontSkip, TypeOK

LEMMA CallvirtStep == IInv /\ Callvirt => IInv'
<1> SUFFICES ASSUME IInv, Callvirt PROVE IInv'
  OBVIOUS
<1>0. At("callvirt")
  BY DEF Callvirt
<1>1. PICK i \in Instructions : i = Inst /\ i.op = "callvirt" /\ i.on \in Methods
  BY <1>0, InstType DEF MethodOps
<1> DEFINE m == i.on
<1>2. /\ TypeOK /\ Resolve(DeclType[m]) /\ AddMethods({m}, New(m))
      /\ IF m \in IsVirtual THEN Skip(m) /\ VCallEntries' = VCallEntries \cup {m}
         ELSE UNCHANGED <<SkipProcessingFlag, VCallEntries>>
      /\ UNCHANGED <<IsInstantiated, special>>
  BY <1>1 DEF Callvirt, IInv
<1>3. New(m) \in Seq(Methods) /\ ToSet(New(m)) = {m} \ methodMap
  BY <1>1, <1>2, NewSet
<1>4. /\ methodMap' = methodMap \cup {m} /\ methodMap' \subseteq Methods
      /\ PendingMethods' \in Seq(methodMap') /\ Pending' = Pending \cup ToSet(New(m))
  <2>1. {m} \in SUBSET (Methods \cup {NoMethod}) /\ ToSet(New(m)) \subseteq {m}
    BY <1>1, <1>3
  <2>2. {m} \ {NoMethod} = {m}
    BY <1>1
  <2> QED BY <2>1, <2>2, <1>2, <1>3, AddStep
<1>5. /\ SkipProcessingFlag' \in [Methods -> 0..2]
      /\ \A n \in Methods : n # m => SkipProcessingFlag'[n] = SkipProcessingFlag[n]
      /\ SkipProcessingFlag'[m] \in {1, SkipProcessingFlag[m]}
      /\ SkipProcessingFlag[m] = 2 => SkipProcessingFlag'[m] = 2
  <2>1. CASE m \in IsVirtual
    BY <1>1, <1>2, <2>1, SkipFacts
  <2>2. CASE m \notin IsVirtual
    BY <1>1, <1>2, <2>2 DEF TypeOK
  <2> QED BY <2>1, <2>2
<1>6. Grows
  BY <1>2, <1>4, <1>5 DEF Grows, special
<1>7. Effect(i)'
  BY <1>1, <1>2, <1>4 DEF Effect, Replaced
<1>8. FlagInv'
  <2>1. m \in IsVirtual => MaySkip(m)
    BY <1>0, <1>1, Skippable
  <2>2. m \notin IsVirtual => SkipProcessingFlag' = SkipProcessingFlag
    BY <1>2
  <2> QED BY <2>1, <2>2, <1>5 DEF FlagInv, IInv, MaySkip
<1>9. KnownInv'
  BY <1>0, <1>3, <1>4, <1>5 DEF IInv, TypeOK, KnownInv, At
<1>10. CctorInv' /\ FinalizerInv'
  BY <1>2, <1>4 DEF CctorInv, FinalizerInv, special, IInv
<1>11. TypeOK'
  <2>1. typeMap' \in SUBSET Types /\ IsInstantiated' \subseteq typeMap'
    BY <1>1, <1>2 DEF TypeOK, Resolve
  <2>2. VCallEntries' \subseteq methodMap' \cap IsVirtual
    BY <1>2, <1>4 DEF TypeOK
  <2>3. FinalizerMethod' \in [Types -> methodMap' \cup {NoMethod}]
    BY <1>2, <1>4 DEF TypeOK, special
  <2>4. /\ IsCctorGenerated' \subseteq Types /\ IsFinalizerGenerated' \subseteq Types
        /\ IsStringTypeResolved' \in BOOLEAN
    BY <1>2 DEF TypeOK, special
  <2> QED BY <1>0, <1>2, <1>4, <1>5, <1>6, <2>1, <2>2, <2>3, <2>4, InstTypeOK
<1> QED BY <1>0, <1>1, <1>6, <1>7, <1>8, <1>9, <1>10, <1>11, InstStep

LEMMA CallReplacedStep == IInv /\ CallReplaced => IInv'
<1> SUFFICES ASSUME IInv, CallReplaced PROVE IInv'
  OBVIOUS
<1>0. At("call")
  BY DEF CallReplaced
<1>1. PICK i \in Instructions : i = Inst /\ i.op = "call" /\ i.on \in Methods
  BY <1>0, InstType DEF MethodOps
<1> DEFINE m == i.on
           r == Replace[m]
           queue == New(m) \o New(r)
<1>2. /\ TypeOK /\ Resolve(DeclType[m]) /\ AddMethods({m, r}, queue) /\ Skip(m)
      /\ Replaced(i) /\ m \in IsVirtual /\ r \in Methods
      /\ UNCHANGED <<IsInstantiated, VCallEntries, special>>
  BY <1>1 DEF CallReplaced, IInv, Replaced
<1>3. queue \in Seq(Methods) /\ ToSet(queue) = {m, r} \ methodMap
  <2>1. /\ New(m) \in Seq(Methods) /\ ToSet(New(m)) = {m} \ methodMap
        /\ New(r) \in Seq(Methods) /\ ToSet(New(r)) = {r} \ methodMap
    BY <1>1, <1>2, NewSet
  <2> QED BY <2>1, ConcatSet
<1> HIDE DEF queue
<1>4. /\ methodMap' = methodMap \cup {m, r} /\ methodMap' \subseteq Methods
      /\ PendingMethods' \in Seq(methodMap') /\ Pending' = Pending \cup ToSet(queue)
  <2>1. {m, r} \in SUBSET (Methods \cup {NoMethod}) /\ ToSet(queue) \subseteq {m, r}
    BY <1>1, <1>2, <1>3
  <2>2. {m, r} \ {NoMethod} = {m, r}
    BY <1>1, <1>2
  <2>3. /\ methodMap' = methodMap \cup ({m, r} \ {NoMethod}) /\ methodMap' \subseteq Methods
        /\ PendingMethods' \in Seq(methodMap') /\ Pending' = Pending \cup ToSet(queue)
    BY ONLY <2>1, <1>2, <1>3, AddStep
  <2> QED BY <2>2, <2>3
<1>5. /\ SkipProcessingFlag' \in [Methods -> 0..2]
      /\ \A n \in Methods : n # m => SkipProcessingFlag'[n] = SkipProcessingFlag[n]
      /\ SkipProcessingFlag'[m] \in {1, SkipProcessingFlag[m]}
      /\ SkipProcessingFlag[m] = 2 => SkipProcessingFlag'[m] = 2
  BY <1>1, <1>2, SkipFacts
<1>6. Grows
  BY <1>2, <1>4, <1>5 DEF Grows, special
<1>7. Effect(i)'
  BY <1>1, <1>2, <1>4 DEF Effect, Replaced
<1>8. FlagInv'
  <2>1. MaySkip(m)
    BY <1>0, <1>1, <1>2, Skippable DEF Replaced
  <2> QED BY <2>1, <1>5 DEF FlagInv, IInv, MaySkip
<1>9. KnownInv'
  BY <1>0, <1>3, <1>4, <1>5 DEF IInv, TypeOK, KnownInv, At
<1>10. CctorInv' /\ FinalizerInv'
  BY <1>2, <1>4 DEF CctorInv, FinalizerInv, special, IInv
<1>11. TypeOK'
  <2>1. typeMap' \in SUBSET Types /\ IsInstantiated' \subseteq typeMap'
    BY <1>1, <1>2 DEF TypeOK, Resolve
  <2>2. VCallEntries' \subseteq methodMap' \cap IsVirtual
    BY <1>2, <1>4 DEF TypeOK
  <2>3. FinalizerMethod' \in [Types -> methodMap' \cup {NoMethod}]
    BY <1>2, <1>4 DEF TypeOK, special
  <2>4. /\ IsCctorGenerated' \subseteq Types /\ IsFinalizerGenerated' \subseteq Types
        /\ IsStringTypeResolved' \in BOOLEAN
    BY <1>2 DEF TypeOK, special
  <2> QED BY <1>0, <1>2, <1>4, <1>5, <1>6, <2>1, <2>2, <2>3, <2>4, InstTypeOK
<1> QED BY <1>0, <1>1, <1>6, <1>7, <1>8, <1>9, <1>10, <1>11, InstStep

LEMMA CallStep == IInv /\ Call => IInv'
<1> SUFFICES ASSUME IInv, Call PROVE IInv'
  OBVIOUS
<1>0. PICK op \in {"call", "ldtoken"} : At(op)
  BY DEF Call
<1>1. PICK i \in Instructions : i = Inst /\ i.op = op /\ i.on \in Methods
  BY <1>0, InstType DEF MethodOps
<1> DEFINE m == i.on
           t == DeclType[m]
           cc == IF m \in IsStatic THEN StaticCctor(t) ELSE NoMethod
           queue == New(m) \o Again(m) \o New(cc)
<1>2. /\ TypeOK /\ Resolve(t) /\ AddMethods({m, cc}, queue) /\ DontSkip(m) /\ ~Replaced(i)
      /\ IF m \in IsStatic THEN GenStaticCctor(t) ELSE UNCHANGED IsCctorGenerated
      /\ UNCHANGED <<IsInstantiated, VCallEntries, IsFinalizerGenerated, FinalizerMethod,
                     IsStringTypeResolved>>
  BY <1>1 DEF Call, IInv
<1>3. t \in Types /\ cc \in Methods \cup {NoMethod} /\ cc \in {NoMethod, Cctor[t]}
  BY <1>1 DEF StaticCctor
<1>4. queue \in Seq(Methods) /\ ToSet(queue) \subseteq {m, cc}
      /\ {m} \ IsProcessed \subseteq ToSet(queue) /\ {m, cc} \ (methodMap \cup {NoMethod}) \subseteq ToSet(queue)
  <2>1. /\ New(m) \in Seq(Methods) /\ ToSet(New(m)) = {m} \ (methodMap \cup {NoMethod})
        /\ Again(m) \in Seq(Methods) /\ ToSet(Again(m)) = {m} \ IsProcessed
        /\ New(cc) \in Seq(Methods) /\ ToSet(New(cc)) = {cc} \ (methodMap \cup {NoMethod})
    BY <1>1, <1>2, <1>3, NewSet, AgainSet
  <2>2. queue \in Seq(Methods) /\ ToSet(queue) = ToSet(New(m)) \cup ToSet(Again(m)) \cup ToSet(New(cc))
    BY ONLY <2>1, ConcatSet3
  <2> QED BY <2>1, <2>2
<1> HIDE DEF queue, cc
<1>5. /\ methodMap' = methodMap \cup ({m, cc} \ {NoMethod}) /\ methodMap' \subseteq Methods
      /\ PendingMethods' \in Seq(methodMap') /\ Pending' = Pending \cup ToSet(queue)
  <2>1. {m, cc} \in SUBSET (Methods \cup {NoMethod}) /\ ToSet(queue) \subseteq {m, cc}
    BY <1>1, <1>3, <1>4
  <2> QED BY ONLY <2>1, <1>2, <1>4, AddStep
<1>6. /\ SkipProcessingFlag' \in [Methods -> 0..2]
      /\ \A n \in Methods : n # m => SkipProcessingFlag'[n] = SkipProcessingFlag[n]
      /\ SkipProcessingFlag'[m] = 2
  BY <1>1, <1>2, DontSkipFacts
<1>7. IsCctorGenerated' = IsCctorGenerated \cup (IF m \in IsStatic THEN {t} ELSE {})
  BY <1>2 DEF GenStaticCctor
<1>8. Grows
  BY <1>2, <1>5, <1>6, <1>7 DEF Grows
<1>9. m \in methodMap'
  BY <1>1, <1>5
<1>10. Effect(i)'
  BY <1>0, <1>1, <1>2, <1>6, <1>7, <1>9 DEF Effect, Replaced
<1>11. FlagInv'
  <2> SUFFICES ASSUME NEW n \in Methods, SkipProcessingFlag'[n] = 1 PROVE MaySkip(n)
    BY DEF FlagInv, MaySkip
  <2>1. n # m
    BY <1>6
  <2> QED BY <2>1, <1>6 DEF FlagInv, IInv
<1>12. KnownInv'
  <2>1. IsProcessed' = IsProcessed
    BY <1>0 DEF At
  <2> QED BY <2>1, <1>1, <1>4, <1>5, <1>6 DEF IInv, TypeOK, KnownInv
<1>13. CctorInv' /\ FinalizerInv'
  BY <1>2, <1>3, <1>5, <1>7 DEF CctorInv, FinalizerInv, IInv, cc, StaticCctor
<1>14. TypeOK'
  <2>1. typeMap' \in SUBSET Types /\ IsInstantiated' \subseteq typeMap' /\ IsCctorGenerated' \subseteq Types
    BY <1>2, <1>3, <1>7 DEF TypeOK, Resolve
  <2>2. VCallEntries' \subseteq methodMap' \cap IsVirtual
    BY <1>2, <1>5 DEF TypeOK
  <2>3. FinalizerMethod' \in [Types -> methodMap' \cup {NoMethod}]
    BY <1>2, <1>5 DEF TypeOK
  <2>4. IsFinalizerGenerated' \subseteq Types /\ IsStringTypeResolved' \in BOOLEAN
    BY <1>2 DEF TypeOK
  <2> QED BY <1>0, <1>2, <1>5, <1>6, <1>8, <2>1, <2>2, <2>3, <2>4, InstTypeOK
<1> QED BY <1>0, <1>1, <1>8, <1>10, <1>11, <1>12, <1>13, <1>14, InstStep

LEMMA LdsfldStep == IInv /\ Ldsfld => IInv'
<1> SUFFICES ASSUME IInv, Ldsfld PROVE IInv'
  OBVIOUS
<1>0. At("ldsfld")
  BY DEF Ldsfld
<1>1. PICK i \in Instructions : i = Inst /\ i.op = "ldsfld" /\ i.on \in Types
  BY <1>0, InstType DEF TypeOps
<1> DEFINE t == i.on
           cc == StaticCctor(t)
<1>2. /\ TypeOK /\ Resolve(t) /\ AddMethods({cc}, New(cc)) /\ GenStaticCctor(t)
      /\ UNCHANGED <<IsInstantiated, SkipProcessingFlag, VCallEntries, IsFinalizerGenerated,
                     FinalizerMethod, IsStringTypeResolved>>
  BY <1>1 DEF Ldsfld, IInv
<1>3. cc \in Methods \cup {NoMethod} /\ cc \in {NoMethod, Cctor[t]}
  BY <1>1 DEF StaticCctor
<1>4. New(cc) \in Seq(Methods) /\ ToSet(New(cc)) = {cc} \ (methodMap \cup {NoMethod})
  BY <1>2, <1>3, NewSet
<1> HIDE DEF cc
<1>5. /\ methodMap' = methodMap \cup ({cc} \ {NoMethod}) /\ methodMap' \subseteq Methods
      /\ PendingMethods' \in Seq(methodMap') /\ Pending' = Pending \cup ToSet(New(cc))
  <2>1. {cc} \in SUBSET (Methods \cup {NoMethod}) /\ ToSet(New(cc)) \subseteq {cc}
    BY <1>3, <1>4
  <2> QED BY ONLY <2>1, <1>2, <1>4, AddStep
<1>6. IsCctorGenerated' = IsCctorGenerated \cup {t}
  BY <1>2 DEF GenStaticCctor
<1>7. Grows
  BY <1>2, <1>5, <1>6 DEF Grows
<1>8. Effect(i)'
  BY <1>1, <1>6 DEF Effect, Replaced
<1>9. FlagInv' /\ KnownInv'
  BY <1>0, <1>2, <1>4, <1>5 DEF FlagInv, KnownInv, IInv, MaySkip, At
<1>10. CctorInv' /\ FinalizerInv'
  BY <1>2, <1>3, <1>5, <1>6 DEF CctorInv, FinalizerInv, IInv, cc, StaticCctor
<1>11. TypeOK'
  <2>1. typeMap' \in SUBSET Types /\ IsInstantiated' \subseteq typeMap' /\ IsCctorGenerated' \subseteq Types
    BY <1>1, <1>2, <1>6 DEF TypeOK, Resolve
  <2>2. VCallEntries' \subseteq methodMap' \cap IsVirtual
    BY <1>2, <1>5 DEF TypeOK
  <2>3. FinalizerMethod' \in [Types -> methodMap' \cup {NoMethod}]
    BY <1>2, <1>5 DEF TypeOK
  <2> QED BY <1>0, <1>2, <1>5, <1>7, <2>1, <2>2, <2>3, InstTypeOK DEF TypeOK
<1> QED BY <1>0, <1>1, <1>7, <1>8, <1>9, <1>10, <1>11, InstStep

\* The instructions that resolve or instantiate types only.
LEMMA TypeStep ==
  ASSUME IInv, NEW op \in {"box", "isinst", "ldstr"}, At(op),
         NEW i \in Instructions, i = Inst,
         typeMap \subseteq typeMap', typeMap' \in SUBSET Types,
         IsInstantiated \subseteq IsInstantiated', IsInstantiated' \subseteq typeMap',
         op = "box" => {i.on, BoxedType[i.on]} \subseteq IsInstantiated',
         IsStringTypeResolved' \in BOOLEAN,
         UNCHANGED <<PendingMethods, methodMap, SkipProcessingFlag, VCallEntries, IsCctorGenerated,
                     IsFinalizerGenerated, FinalizerMethod>>
  PROVE  IInv'
<1>1. i.op = op
  BY InstType
<1>2. Grows
  BY DEF Grows
<1>3. Effect(i)'
  BY <1>1 DEF Effect, Replaced
<1>4. TypeOK'
  BY <1>2, InstTypeOK DEF IInv, TypeOK
<1>5. FlagInv' /\ KnownInv' /\ CctorInv' /\ FinalizerInv'
  BY DEF FlagInv, KnownInv, CctorInv, FinalizerInv, IInv, Pending, At, MaySkip
<1> QED BY <1>2, <1>3, <1>4, <1>5, InstStep

LEMMA TypeSteps == IInv /\ (Box \/ Isinst \/ Ldstr) => IInv'
<1>1. ASSUME IInv, Box PROVE IInv'
  <2>1. At("box")
    BY <1>1 DEF Box
  <2>2. PICK i \in Instructions : i = Inst /\ i.on \in Types
    BY <1>1, <2>1, InstType DEF TypeOps
  <2>3. /\ typeMap' = typeMap \cup {i.on, BoxedType[i.on]}
                        \cup {s \in Types : {i.on, BoxedType[i.on]} \cap Derived[s] # {}}
        /\ IsInstantiated' = IsInstantiated \cup {i.on, BoxedType[i.on]}
        /\ UNCHANGED <<PendingMethods, methodMap, SkipProcessingFlag, VCallEntries, special>>
    BY <1>1, <2>2 DEF Box
  <2>4. typeMap' \in SUBSET Types /\ IsInstantiated' \subseteq typeMap' /\ typeMap \subseteq typeMap'
    BY <1>1, <2>2, <2>3 DEF IInv, TypeOK
  <2> QED BY <1>1, <2>1, <2>2, <2>3, <2>4, TypeStep DEF special, IInv, TypeOK
<1>2. ASSUME IInv, Isinst PROVE IInv'
  <2>1. At("isinst")
    BY <1>2 DEF Isinst
  <2>2. PICK i \in Instructions : i = Inst /\ i.on \in Types
    BY <1>2, <2>1, InstType DEF TypeOps
  <2>3. /\ typeMap' \in SUBSET Types /\ IsInstantiated' \subseteq typeMap' /\ typeMap \subseteq typeMap'
        /\ IsInstantiated' = IsInstantiated
    BY <1>2, <2>2 DEF IInv, TypeOK, Isinst, Resolve
  <2>4. UNCHANGED <<PendingMethods, methodMap, SkipProcessingFlag, VCallEntries, special>>
    BY <1>2 DEF Isinst
  <2> QED BY <1>2, <2>1, <2>2, <2>3, <2>4, TypeStep DEF special, IInv, TypeOK
<1>3. ASSUME IInv, Ldstr PROVE IInv'
  <2>1. At("ldstr")
    BY <1>3 DEF Ldstr
  <2>2. PICK i \in Instructions : i = Inst
    BY <1>3, <2>1, InstType
  <2>3. /\ typeMap' \in SUBSET Types /\ IsInstantiated' \subseteq typeMap' /\ typeMap \subseteq typeMap'
        /\ IsInstantiated \subseteq IsInstantiated'
    BY <1>3 DEF IInv, TypeOK, Ldstr, Resolve
  <2>4. /\ IsStringTypeResolved' = TRUE
        /\ UNCHANGED <<PendingMethods, methodMap, SkipProcessingFlag, VCallEntries, IsCctorGenerated,
                       IsFinalizerGenerated, FinalizerMethod>>
    BY <1>3 DEF Ldstr
  <2> QED BY <1>3, <2>1, <2>2, <2>3, <2>4, TypeStep
<1> QED BY <1>1, <1>2, <1>3

-----------------------------------------------------------------------------
(* ResolveAll and ResolveVCalls.                                           *)

LEMMA DequeueStep == IInv /\ Dequeue => IInv'
<1> SUFFICES ASSUME IInv, Dequeue PROVE IInv'
  OBVIOUS
<1> DEFINE m == Head(PendingMethods)
           drop == SkipProcessingFlag[m] = 1 \/ m \in IsProcessed
<1>1. /\ phase = "methods" /\ ~Building /\ PendingMethods # <<>> /\ PendingMethods' = Tail(PendingMethods)
      /\ IsProcessed' = IF drop THEN IsProcessed ELSE IsProcessed \cup {m}
      /\ current' = IF drop THEN NoMethod ELSE m
      /\ ip' = 1
      /\ UNCHANGED <<body, phase, todo, methodMap, SkipProcessingFlag, calls, typeMap,
                     IsInstantiated, special>>
  BY DEF Dequeue
<1>2. PendingMethods \in Seq(methodMap) /\ methodMap \subseteq Methods /\ IsProcessed \subseteq methodMap
  BY DEF IInv, TypeOK
<1>3. /\ m \in methodMap /\ PendingMethods' \in Seq(methodMap)
      /\ Pending = {m} \cup Pending'
  BY <1>1, <1>2, TailSet DEF Pending
<1>4. TypeOK'
  BY <1>1, <1>2, <1>3 DEF IInv, TypeOK, calls, special
<1>5. KnownInv'
  BY <1>1, <1>3 DEF IInv, KnownInv
<1>6. FlagInv' /\ CctorInv' /\ FinalizerInv' /\ Entry \in methodMap' /\ body' \in Programs
  BY <1>1 DEF IInv, FlagInv, CctorInv, FinalizerInv, MaySkip, special
<1>7. EffectInv'
  <2> SUFFICES ASSUME NEW p \in IsProcessed', NEW k \in 1..Len(body[p]), p # current' \/ k < ip'
               PROVE  Effect(body[p][k])'
    BY <1>1 DEF EffectInv
  <2>1. p \in IsProcessed
    BY <1>1
  <2>2. p # current \/ k < ip
    BY <1>1, <2>1, <1>2, MethodAssumption DEF Building, IInv, TypeOK
  <2>3. Effect(body[p][k])
    BY <2>1, <2>2 DEF IInv, EffectInv
  <2> QED BY <2>3, <1>1 DEF Effect, Replaced, calls, special
<1>8. BoundInv' /\ BindingsInv'
  BY <1>1 DEF IInv, BoundInv, BindingsInv, Receivers, calls
<1>9. PhaseInv'
  BY <1>1 DEF IInv, PhaseInv, Receivers, calls
<1> QED BY <1>4, <1>5, <1>6, <1>7, <1>8, <1>9 DEF IInv

LEMMA StartStep == IInv /\ StartVCalls => IInv'
<1> SUFFICES ASSUME IInv, StartVCalls PROVE IInv'
  OBVIOUS
<1>1. /\ phase = "methods" /\ ~Building /\ phase' = "vcalls"
      /\ todo' = Receivers(VCallEntries, IsInstantiated)
      /\ UNCHANGED <<body, current, ip, methods, calls, typeMap, IsInstantiated, special>>
  BY DEF StartVCalls
<1>2. TypeOK'
  BY <1>1 DEF IInv, TypeOK, Receivers, methods, calls, special
<1>3. FlagInv' /\ KnownInv' /\ CctorInv' /\ FinalizerInv' /\ Entry \in methodMap' /\ body' \in Programs
  BY <1>1 DEF IInv, FlagInv, KnownInv, CctorInv, FinalizerInv, MaySkip, Pending, methods, special
<1>4. EffectInv'
  BY <1>1 DEF IInv, EffectInv, Effect, Replaced, methods, calls, special
<1>5. BoundInv' /\ BindingsInv' /\ PhaseInv'
  BY <1>1 DEF IInv, BoundInv, BindingsInv, PhaseInv, Receivers, Building, calls
<1> QED BY <1>2, <1>3, <1>4, <1>5 DEF IInv

LEMMA EndStep == IInv /\ EndVCalls => IInv'
<1> SUFFICES ASSUME IInv, EndVCalls PROVE IInv'
  OBVIOUS
<1>1. /\ phase = "vcalls" /\ todo = {} /\ phase' = IF PendingMethods = <<>> THEN "done" ELSE "methods"
      /\ UNCHANGED <<body, current, ip, todo, methods, calls, typeMap, IsInstantiated, special>>
  BY DEF EndVCalls
<1>2. TypeOK'
  BY <1>1 DEF IInv, TypeOK, methods, calls, special
<1>3. FlagInv' /\ KnownInv' /\ CctorInv' /\ FinalizerInv' /\ Entry \in methodMap' /\ body' \in Programs
  BY <1>1 DEF IInv, FlagInv, KnownInv, CctorInv, FinalizerInv, MaySkip, Pending, methods, special
<1>4. EffectInv'
  BY <1>1 DEF IInv, EffectInv, Effect, Replaced, methods, calls, special
<1>5. BoundInv' /\ BindingsInv' /\ PhaseInv'
  BY <1>1 DEF IInv, BoundInv, BindingsInv, PhaseInv, Receivers, Building, methods, calls
<1> QED BY <1>2, <1>3, <1>4, <1>5 DEF IInv

LEMMA VMethodStep ==
  ASSUME IInv, NEW p \in todo, ResolveVMethod(p[1], p[2])
  PROVE  IInv'
<1> DEFINE entry == p[1]
           t == p[2]
           m == Impl[t][entry]
           queue == New(m) \o Again(m)
<1>1. TypeOK /\ phase = "vcalls" /\ p \in Receivers(VCallEntries, IsInstantiated)
  BY DEF ResolveVMethod, IInv, PhaseInv
<1>2. /\ p = <<entry, t>> /\ entry \in VCallEntries /\ t \in IsInstantiated
      /\ m \in Methods
  BY <1>1 DEF TypeOK, Receivers
<1>3. /\ todo' = todo \ {p} /\ AddMethods({m}, queue)
      /\ OverrideImpls' = OverrideImpls \cup {<<entry, t, m>>} /\ DontSkip(m)
      /\ UNCHANGED <<body, phase, current, ip, IsProcessed, VCallEntries, typeMap, IsInstantiated, special>>
  BY <1>2 DEF ResolveVMethod
<1>4. queue \in Seq(Methods) /\ ToSet(queue) \subseteq {m} /\ {m} \ IsProcessed \subseteq ToSet(queue)
  <2>1. /\ New(m) \in Seq(Methods) /\ ToSet(New(m)) = {m} \ (methodMap \cup {NoMethod})
        /\ Again(m) \in Seq(Methods) /\ ToSet(Again(m)) = {m} \ IsProcessed
    BY <1>1, <1>2, NewSet, AgainSet
  <2>2. queue \in Seq(Methods) /\ ToSet(queue) = ToSet(New(m)) \cup ToSet(Again(m))
    BY ONLY <2>1, ConcatSet
  <2> QED BY <2>1, <2>2
<1> HIDE DEF queue, m
<1>5. /\ methodMap' = methodMap \cup {m} /\ methodMap' \subseteq Methods
      /\ PendingMethods' \in Seq(methodMap') /\ Pending' = Pending \cup ToSet(queue)
  <2>1. {m} \in SUBSET (Methods \cup {NoMethod}) /\ {m} \ {NoMethod} = {m}
    BY <1>2
  <2>2. /\ methodMap' = methodMap \cup ({m} \ {NoMethod}) /\ methodMap' \subseteq Methods
        /\ PendingMethods' \in Seq(methodMap') /\ Pending' = Pending \cup ToSet(queue)
    BY ONLY <2>1, <1>1, <1>3, <1>4, AddStep
  <2> QED BY <2>1, <2>2
<1>6. /\ SkipProcessingFlag' \in [Methods -> 0..2]
      /\ \A n \in Methods : n # m => SkipProcessingFlag'[n] = SkipProcessingFlag[n]
      /\ SkipProcessingFlag'[m] = 2
  BY <1>1, <1>2, <1>3, DontSkipFacts
<1>7. Grows
  BY <1>3, <1>5, <1>6 DEF Grows, special
<1>8. TypeOK'
  <2>1. OverrideImpls' \subseteq VCallEntries' \X IsInstantiated' \X methodMap'
    BY <1>1, <1>2, <1>3, <1>5 DEF TypeOK
  <2>2. todo' \subseteq VCallEntries' \X IsInstantiated' /\ VCallEntries' \subseteq methodMap' \cap IsVirtual
    BY <1>1, <1>3, <1>5 DEF TypeOK
  <2>3. FinalizerMethod' \in [Types -> methodMap' \cup {NoMethod}] /\ IsProcessed' \subseteq methodMap'
    BY <1>1, <1>3, <1>5 DEF TypeOK, special
  <2> QED BY <1>1, <1>3, <1>5, <1>6, <2>1, <2>2, <2>3 DEF TypeOK, special
<1>9. FlagInv'
  <2> SUFFICES ASSUME NEW n \in Methods, SkipProcessingFlag'[n] = 1 PROVE MaySkip(n)
    BY DEF FlagInv, MaySkip
  <2>1. n # m
    BY <1>6
  <2> QED BY <2>1, <1>6 DEF FlagInv, IInv
<1>10. KnownInv'
  BY <1>1, <1>2, <1>3, <1>4, <1>5, <1>6 DEF IInv, TypeOK, KnownInv
<1>11. CctorInv' /\ FinalizerInv' /\ Entry \in methodMap' /\ body' \in Programs
  BY <1>3, <1>5 DEF IInv, CctorInv, FinalizerInv, special
<1>12. EffectInv'
  <2> SUFFICES ASSUME NEW q \in IsProcessed, NEW k \in 1..Len(body[q]), q # current \/ k < ip
               PROVE  Effect(body[q][k])'
    BY <1>3 DEF EffectInv
  <2>1. body[q][k] \in Instructions /\ Effect(body[q][k])
    BY <1>1 DEF IInv, EffectInv, TypeOK
  <2> PICK j \in Instructions : j = body[q][k]
    BY <2>1
  <2>2. Effect(j)'
    BY <2>1, <1>1, <1>7, EffectStays
  <2> QED BY <2>2, <1>3
<1>13. Receivers(VCallEntries, IsInstantiated)' = Receivers(VCallEntries, IsInstantiated)
  BY <1>3 DEF Receivers
<1>14. BoundInv'
  <2> SUFFICES ASSUME NEW q \in Receivers(VCallEntries, IsInstantiated) \ todo'
               PROVE  /\ <<q[1], q[2], Impl[q[2]][q[1]]>> \in OverrideImpls'
                      /\ Impl[q[2]][q[1]] \in methodMap'
                      /\ SkipProcessingFlag'[Impl[q[2]][q[1]]] = 2
    BY <1>13 DEF BoundInv
  <2>1. CASE q = p
    BY <2>1, <1>2, <1>3, <1>5, <1>6 DEF m
  <2>2. CASE q # p
    <3>1. /\ <<q[1], q[2], Impl[q[2]][q[1]]>> \in OverrideImpls
          /\ Impl[q[2]][q[1]] \in methodMap
          /\ SkipProcessingFlag[Impl[q[2]][q[1]]] = 2
      BY <2>2, <1>1, <1>3 DEF IInv, BoundInv
    <3> QED BY <3>1, <1>3, <1>5, <1>6 
  <2> QED BY <2>1, <2>2
<1>15. BindingsInv'
  <2> SUFFICES ASSUME NEW b \in OverrideImpls'
               PROVE  /\ <<b[1], b[2]>> \in Receivers(VCallEntries, IsInstantiated)
                      /\ b[3] = Impl[b[2]][b[1]]
    BY <1>13 DEF BindingsInv
  <2>1. CASE b \in OverrideImpls
    BY <2>1 DEF IInv, BindingsInv
  <2>2. CASE b = <<entry, t, m>>
    BY <2>2, <1>1, <1>2 DEF m
  <2> QED BY <2>1, <2>2, <1>3
<1>16. PhaseInv'
  BY <1>1, <1>3, <1>13 DEF IInv, PhaseInv, Building
<1> QED BY <1>8, <1>9, <1>10, <1>11, <1>12, <1>14, <1>15, <1>16 DEF IInv

-----------------------------------------------------------------------------
(* The invariant is inductive.                                             *)

LEMMA InitInv == Init => IInv
<1> SUFFICES ASSUME Init PROVE IInv
  OBVIOUS
<1>1. Entry \in Methods /\ PendingMethods = <<Entry>> /\ methodMap = {Entry}
  BY DEF Init
<1>2. PendingMethods \in Seq(methodMap) /\ Pending = {Entry}
  <2>1. 1 \in DOMAIN PendingMethods /\ PendingMethods[1] = Entry
    BY <1>1
  <2> QED BY <1>1, <2>1 DEF Pending, ToSet
<1>3. TypeOK
  <2>1. body \in [Methods -> Seq(Instructions)] /\ typeMap \in SUBSET Types
    BY <1>1 DEF Init
  <2>2. /\ SkipProcessingFlag \in [Methods -> 0..2]
        /\ FinalizerMethod \in [Types -> methodMap \cup {NoMethod}]
    BY <1>1 DEF Init
  <2>3. /\ phase \in {"methods", "vcalls", "done"} /\ current \in IsProcessed \cup {NoMethod}
        /\ ip = 1 /\ IsStringTypeResolved \in BOOLEAN
        /\ IsProcessed = {} /\ VCallEntries = {} /\ OverrideImpls = {} /\ IsInstantiated = {}
        /\ IsCctorGenerated = {} /\ IsFinalizerGenerated = {} /\ todo = {}
    BY DEF Init
  <2> QED BY <1>1, <1>2, <2>1, <2>2, <2>3 DEF TypeOK
<1>4. body \in Programs /\ Entry \in methodMap /\ FlagInv /\ CctorInv /\ FinalizerInv
  BY <1>1 DEF Init, FlagInv, CctorInv, FinalizerInv
<1>5. KnownInv
  BY <1>1, <1>2 DEF KnownInv
<1>6. EffectInv /\ BoundInv /\ BindingsInv /\ PhaseInv
  BY DEF Init, EffectInv, BoundInv, BindingsInv, PhaseInv
<1> QED BY <1>3, <1>4, <1>5, <1>6 DEF IInv

LEMMA InvStep == IInv /\ [Next]_vars => IInv'
<1>1. IInv /\ Next => IInv'
  <2> SUFFICES ASSUME IInv, Next PROVE IInv'
    OBVIOUS
  <2>1. CASE \E p \in todo : ResolveVMethod(p[1], p[2])
    BY <2>1, VMethodStep
  <2> QED BY <2>1, NewobjStep, CallvirtStep, CallStep, CallReplacedStep, LdsfldStep, TypeSteps,
             DequeueStep, StartStep, EndStep DEF Next
<1>2. IInv /\ UNCHANGED vars => IInv'
  <2> SUFFICES ASSUME IInv, UNCHANGED vars PROVE IInv'
    OBVIOUS
  <2>1. /\ UNCHANGED <<body, phase, current, ip, todo, PendingMethods, methodMap, IsProcessed>>
        /\ UNCHANGED <<SkipProcessingFlag, VCallEntries, OverrideImpls, typeMap, IsInstantiated>>
        /\ UNCHANGED <<IsCctorGenerated, IsFinalizerGenerated, FinalizerMethod, IsStringTypeResolved>>
    BY DEF vars, control, methods, calls, special
  <2>2. TypeOK' /\ body' \in Programs /\ Entry \in methodMap'
    BY <2>1 DEF IInv, TypeOK
  <2>3. FlagInv' /\ KnownInv' /\ CctorInv' /\ FinalizerInv'
    BY <2>1 DEF IInv, FlagInv, KnownInv, Pending, CctorInv, FinalizerInv
  <2>4. EffectInv'
    <3> SUFFICES ASSUME NEW m \in IsProcessed, NEW k \in 1..Len(body[m]), m # current \/ k < ip
                 PROVE  Effect(body[m][k])'
      BY <2>1 DEF EffectInv
    <3>1. Effect(body[m][k])
      BY DEF IInv, EffectInv
    <3> QED BY <3>1, <2>1 DEF Effect, Replaced
  <2>5. BoundInv' /\ BindingsInv' /\ PhaseInv'
    BY <2>1 DEF IInv, BoundInv, BindingsInv, PhaseInv, Receivers, Building
  <2> QED BY <2>2, <2>3, <2>4, <2>5 DEF IInv
<1> QED BY <1>1, <1>2

LEMMA Invariance == Spec => []IInv
BY InitInv, InvStep, PTL DEF Spec

\* The state of ResolveAll always has the types it is meant to have.
THEOREM TypeCorrect == Spec => []TypeOK
<1>1. IInv => TypeOK
  BY DEF IInv
<1> QED BY <1>1, Invariance, PTL

-----------------------------------------------------------------------------
(* The end.                                                                *)

\* At the end the instructions of the processed methods have left their
\* effects, and what may not be skipped has been processed.
LEMMA Done ==
  ASSUME IInv, phase = "done"
  PROVE  /\ todo = {}
         /\ Instrs(IsProcessed) \subseteq Instructions
         /\ \A i \in Instrs(IsProcessed) : Effect(i)
         /\ \A m \in methodMap : SkipProcessingFlag[m] # 1 => m \in IsProcessed
         /\ \A m \in methodMap : ~MaySkip(m) => m \in IsProcessed
<1>1. todo = {} /\ Pending = {} /\ ~Building
  BY DEF IInv, PhaseInv, Pending, ToSet
<1>2. \A m \in methodMap : SkipProcessingFlag[m] # 1 => m \in IsProcessed
  BY <1>1 DEF IInv, KnownInv
<1>3. \A m \in methodMap : ~MaySkip(m) => m \in IsProcessed
  BY <1>2 DEF IInv, TypeOK, FlagInv
<1>4. ASSUME NEW i \in Instrs(IsProcessed) PROVE i \in Instructions /\ Effect(i)
  <2>1. PICK m \in IsProcessed : i \in ToSet(body[m])
    BY <1>4 DEF Instrs
  <2>2. m \in Methods /\ body[m] \in Seq(Instructions) /\ ip \in Nat /\ NoMethod # m
    BY <2>1 DEF IInv, TypeOK
  <2>3. PICK k \in 1..Len(body[m]) : i = body[m][k]
    <3>1. PICK k \in DOMAIN body[m] : i = body[m][k]
      BY <2>1 DEF ToSet
    <3>2. DOMAIN body[m] = 1..Len(body[m])
      BY <2>2
    <3> QED BY <3>1, <3>2
  <2>4. m # current \/ k < ip
    BY <1>1, <2>2, <2>3 DEF Building
  <2> QED BY <2>1, <2>2, <2>3, <2>4 DEF IInv, EffectInv
<1> QED BY <1>1, <1>2, <1>3, <1>4

\* The finalizer a type has been given is the nearest one on its chain, and
\* every type that newobj makes has been given one.
THEOREM FinalizersCorrect == Spec => []FinalizersRight
<1>1. IInv => FinalizersRight
  <2> SUFFICES ASSUME IInv PROVE FinalizersRight
    OBVIOUS
  <2>1. \A t \in IsFinalizerGenerated : FinalizerMethod[t] = Finalizer[t]
    BY DEF IInv, FinalizerInv
  <2>2. ASSUME phase = "done", NEW t \in Made(IsProcessed) PROVE t \in IsFinalizerGenerated
    BY <2>2, Done DEF Made, On, Effect
  <2> QED BY <2>1, <2>2 DEF FinalizersRight
<1> QED BY <1>1, Invariance, PTL

\* At the end every entry is bound in the instantiated types it can meet, in
\* each to its implementation, and nothing else is bound.
THEOREM CallsAreBound == Spec => []CallsBound
<1>1. IInv => CallsBound
  <2> SUFFICES ASSUME IInv, phase = "done"
               PROVE  OverrideImpls = {<<p[1], p[2], Impl[p[2]][p[1]]>> :
                                         p \in Receivers(VCallEntries, IsInstantiated)}
    BY DEF CallsBound
  <2>1. ASSUME NEW p \in Receivers(VCallEntries, IsInstantiated)
        PROVE  <<p[1], p[2], Impl[p[2]][p[1]]>> \in OverrideImpls
    BY <2>1, Done DEF IInv, BoundInv
  <2>2. ASSUME NEW b \in OverrideImpls
        PROVE  \E p \in Receivers(VCallEntries, IsInstantiated) : b = <<p[1], p[2], Impl[p[2]][p[1]]>>
    <3>1. b = <<b[1], b[2], b[3]>>
      BY DEF IInv, TypeOK
    <3>2. <<b[1], b[2]>> \in Receivers(VCallEntries, IsInstantiated) /\ b[3] = Impl[b[2]][b[1]]
      BY DEF IInv, BindingsInv
    <3> QED BY <3>1, <3>2
  <2> QED BY <2>1, <2>2
<1> QED BY <1>1, Invariance, PTL

\* At the end nothing is missing: what the processed methods call, the static
\* constructors and finalizers of the types they use, and the implementation
\* of every virtual call in every instantiated type are processed.
THEOREM NothingIsMissing == Spec => []NothingMissing
<1>1. IInv => NothingMissing
  <2> SUFFICES ASSUME IInv, phase = "done" PROVE Closed(IsProcessed, IsInstantiated, VCallEntries)
    BY DEF NothingMissing
  <2>1. TypeOK
    BY DEF IInv
  <2>2. Entry \in IsProcessed
    BY Done DEF IInv, MaySkip
  <2>3. ASSUME NEW m \in Called(IsProcessed) PROVE m \in IsProcessed
    <3>1. ASSUME NEW i \in Instrs(IsProcessed), i.op = "newobj" PROVE i.on \in IsProcessed
      <4>1. i.on \in methodMap
        BY <3>1, Done DEF Effect
      <4>2. i.on \notin IsVirtual
        <5>1. PICK n \in IsProcessed : i \in ToSet(body[n])
          BY DEF Instrs
        <5>2. PICK k \in DOMAIN body[n] : i = body[n][k]
          BY <5>1 DEF ToSet
        <5>3. body \in Programs /\ n \in Methods
          BY <2>1, <5>1 DEF IInv, TypeOK
        <5> QED BY ONLY <3>1, <5>2, <5>3, ConstructorAssumption
      <4> QED BY <4>1, <4>2, Done DEF MaySkip
    <3>2. ASSUME NEW i \in Instrs(IsProcessed), i.op \in {"call", "ldtoken"}, ~Replaced(i)
          PROVE  i.on \in IsProcessed
      BY <3>2, Done DEF Effect
    <3>3. ASSUME NEW i \in Instrs(IsProcessed), Replaced(i) PROVE Replace[i.on] \in IsProcessed
      <4>1. Replace[i.on] \in methodMap
        BY <3>3, Done DEF Effect
      <4>2. i.on \in Methods
        BY <3>3, Done DEF Replaced, Instructions, MethodOps, TypeOps
      <4> QED BY <4>1, <4>2, Done DEF MaySkip
    <3>4. ASSUME NEW i \in Instrs(IsProcessed), i.op = "callvirt", i.on \notin IsVirtual
          PROVE  i.on \in IsProcessed
      BY <3>4, Done DEF Effect, MaySkip
    <3>5. \A i \in Instrs(IsProcessed) : i.op = "ldtoken" => ~Replaced(i)
      BY DEF Replaced
    <3> QED BY <3>1, <3>2, <3>3, <3>4, <3>5 DEF Called, On
  <2>4. ASSUME NEW t \in Initialised(IsProcessed) PROVE Cctor[t] \in IsProcessed \cup {NoMethod}
    <3>1. t \in IsCctorGenerated
      <4>1. \A i \in Instrs(IsProcessed) : i.op = "ldsfld" => i.on \in IsCctorGenerated
        BY Done DEF Effect
      <4>2. \A i \in Instrs(IsProcessed) : i.op = "newobj" => DeclType[i.on] \in IsCctorGenerated
        BY Done DEF Effect
      <4>3. \A i \in Instrs(IsProcessed) :
              i.op \in {"call", "ldtoken"} /\ i.on \in IsStatic => DeclType[i.on] \in IsCctorGenerated
        BY Done DEF Effect, Replaced
      <4> QED BY <4>1, <4>2, <4>3 DEF Initialised, On
    <3>2. Cctor[t] \in methodMap \cup {NoMethod} /\ t \in Types
      BY <3>1, <2>1 DEF IInv, CctorInv, TypeOK
    <3> QED BY <3>2, Done DEF MaySkip
  <2>5. ASSUME NEW t \in Made(IsProcessed) PROVE Finalizer[t] \in IsProcessed \cup {NoMethod}
    <3>1. t \in IsFinalizerGenerated
      BY Done DEF Made, On, Effect
    <3>2. t \in Types /\ Finalizer[t] \in methodMap \cup {NoMethod}
      BY <3>1, <2>1 DEF IInv, FinalizerInv, TypeOK
    <3> QED BY <3>2, Done DEF MaySkip
  <2>6. ASSUME NEW p \in Receivers(VCallEntries, IsInstantiated) PROVE Impl[p[2]][p[1]] \in IsProcessed
    <3>1. Impl[p[2]][p[1]] \in methodMap /\ SkipProcessingFlag[Impl[p[2]][p[1]]] = 2
      BY <2>6, Done DEF IInv, BoundInv
    <3> QED BY <3>1, Done
  <2>7. TypesOf(IsProcessed) \subseteq IsInstantiated
    <3>1. \A i \in Instrs(IsProcessed) : i.op = "newobj" => DeclType[i.on] \in IsInstantiated
      BY Done DEF Effect
    <3>2. \A i \in Instrs(IsProcessed) : i.op = "box" => {i.on, BoxedType[i.on]} \subseteq IsInstantiated
      BY Done DEF Effect
    <3> QED BY <3>1, <3>2 DEF TypesOf, Made, On
  <2>8. EntriesOf(IsProcessed) \subseteq VCallEntries
    BY Done DEF EntriesOf, On, Effect
  <2>9. MethodsOf(IsProcessed) \subseteq IsProcessed
    BY <2>3, <2>4, <2>5 DEF MethodsOf
  <2>10. Bound(VCallEntries, IsInstantiated) \subseteq IsProcessed
    BY <2>6 DEF Bound
  <2> QED BY <2>2, <2>7, <2>8, <2>9, <2>10 DEF Closed
<1> QED BY <1>1, Invariance, PTL

-----------------------------------------------------------------------------
(* Nothing more than that.  A set of methods that needs no other is never  *)
(* left: what is processed, and what waits and is not to be skipped, is in *)
(* every such set.                                                         *)

NeedInv(ms) ==
  /\ IsProcessed \subseteq ms
  /\ \A m \in Pending : SkipProcessingFlag[m] # 1 => m \in ms
  /\ \A m \in Methods : SkipProcessingFlag[m] = 2 => m \in ms

NeededInv ==
  /\ \A ms \in SUBSET Methods : SelfContained(ms) => NeedInv(ms)
  /\ IsInstantiated \subseteq InstantiatedBy(IsProcessed)
  /\ VCallEntries \subseteq EntriesOf(IsProcessed)

\* What an instruction of such a set adds is in the set.
LEMMA NeedFacts ==
  ASSUME NEW ms, SelfContained(ms), NEW i \in Instrs(ms)
  PROVE  /\ i.op \in {"newobj", "ldtoken"} => i.on \in ms \cup {NoMethod}
         /\ i.op = "callvirt" /\ i.on \notin IsVirtual => i.on \in ms \cup {NoMethod}
         /\ i.op = "call" /\ ~Replaced(i) => i.on \in ms \cup {NoMethod}
         /\ Replaced(i) => Replace[i.on] \in ms \cup {NoMethod}
         /\ i.op = "newobj" => {Cctor[DeclType[i.on]], Finalizer[DeclType[i.on]]} \subseteq ms \cup {NoMethod}
         /\ i.op \in {"call", "ldtoken"} /\ i.on \in IsStatic => Cctor[DeclType[i.on]] \in ms \cup {NoMethod}
         /\ i.op = "ldsfld" => Cctor[i.on] \in ms \cup {NoMethod}
<1>1. /\ Called(ms) \subseteq ms \cup {NoMethod}
      /\ \A t \in Initialised(ms) : Cctor[t] \in ms \cup {NoMethod}
      /\ \A t \in Made(ms) : Finalizer[t] \in ms \cup {NoMethod}
  BY DEF SelfContained, Closed, MethodsOf
<1>2. \A ops : i.op \in ops => i.on \in On(ops, ms)
  BY DEF On
<1>3. i.op \in {"newobj", "ldtoken"} => i.on \in Called(ms)
  BY <1>2 DEF Called
<1>4. i.op = "callvirt" /\ i.on \notin IsVirtual => i.on \in Called(ms)
  BY <1>2 DEF Called
<1>5. i.op = "call" => (IF Replaced(i) THEN Replace[i.on] ELSE i.on) \in Called(ms)
  BY DEF Called
<1>6. i.op = "newobj" => DeclType[i.on] \in Initialised(ms) \cap Made(ms)
  BY <1>2 DEF Initialised, Made
<1>7. i.op \in {"call", "ldtoken"} /\ i.on \in IsStatic => DeclType[i.on] \in Initialised(ms)
  BY <1>2 DEF Initialised
<1>8. i.op = "ldsfld" => i.on \in Initialised(ms)
  BY <1>2 DEF Initialised
<1>9. Replaced(i) => i.op = "call"
  BY DEF Replaced
<1> QED BY <1>1, <1>3, <1>4, <1>5, <1>6, <1>7, <1>8, <1>9

\* The implementations of virtual calls are.
LEMMA NeedBound ==
  ASSUME NEW ms, SelfContained(ms), IsProcessed \subseteq ms, NeededInv
  PROVE  \A p \in Receivers(VCallEntries, IsInstantiated) : Impl[p[2]][p[1]] \in ms
<1>1. Instrs(IsProcessed) \subseteq Instrs(ms)
  BY DEF Instrs
<1>2. \A ops : On(ops, IsProcessed) \subseteq On(ops, ms)
  BY <1>1 DEF On
<1>3. EntriesOf(IsProcessed) \subseteq EntriesOf(ms)
  BY <1>2 DEF EntriesOf
<1>4. InstantiatedBy(IsProcessed) \subseteq InstantiatedBy(ms)
  BY <1>2 DEF InstantiatedBy, TypesOf, Made
<1>5. Receivers(VCallEntries, IsInstantiated) \subseteq Receivers(EntriesOf(ms), InstantiatedBy(ms))
  BY <1>3, <1>4 DEF NeededInv, Receivers
<1>6. Bound(EntriesOf(ms), InstantiatedBy(ms)) \subseteq ms
  BY DEF SelfContained, Closed
<1> QED BY <1>5, <1>6 DEF Bound

\* The program does not change, and so does not what it needs.
LEMMA SameNeeds ==
  ASSUME body' = body
  PROVE  /\ \A ms : SelfContained(ms)' <=> SelfContained(ms)
         /\ \A ms : InstantiatedBy(ms)' = InstantiatedBy(ms)
         /\ \A ms : EntriesOf(ms)' = EntriesOf(ms)
  BY DEF SelfContained, Closed, InstantiatedBy, EntriesOf, MethodsOf, TypesOf, Bound, Receivers,
         Called, Initialised, Made, On, Instrs, Replaced

\* Methods are added that the set holds, or that are to be skipped.
LEMMA NeedStep ==
  ASSUME TypeOK, NEW ms, NeedInv(ms), IsProcessed' = IsProcessed,
         NEW A \in SUBSET (Methods \cup {NoMethod}), NEW queue \in Seq(Methods),
         ToSet(queue) \subseteq A, AddMethods(A, queue),
         \A m \in Methods : SkipProcessingFlag'[m] = SkipProcessingFlag[m] \/ SkipProcessingFlag'[m] = 1 \/ m \in ms,
         \A m \in Methods : SkipProcessingFlag[m] = 1 => SkipProcessingFlag'[m] = 1 \/ m \in ms,
         \A m \in A : m \in ms \cup {NoMethod} \/ SkipProcessingFlag'[m] # 0
  PROVE  NeedInv(ms)'
<1>1. Pending' = Pending \cup ToSet(queue) /\ Pending \subseteq Methods
  <2>1. Pending \subseteq Methods
    BY DEF Pending, ToSet, TypeOK
  <2> QED BY <2>1, AddStep
<1>2. ToSet(queue) \subseteq A \cap Methods
  BY DEF ToSet
<1>3. ASSUME NEW m \in Methods, SkipProcessingFlag'[m] = 2 PROVE m \in ms
  <2>1. SkipProcessingFlag[m] = 2 => m \in ms
    BY DEF NeedInv
  <2> QED BY ONLY <1>3, <2>1, m \in Methods,
        \A n \in Methods : SkipProcessingFlag'[n] = SkipProcessingFlag[n] \/ SkipProcessingFlag'[n] = 1 \/ n \in ms
<1>4. \A m \in Methods : SkipProcessingFlag[m] \in 0..2
  BY DEF TypeOK
<1>5. ASSUME NEW m \in Pending', SkipProcessingFlag'[m] # 1 PROVE m \in ms
  <2>1. CASE m \in Pending
    <3>1. m \in Methods /\ (SkipProcessingFlag[m] # 1 => m \in ms)
      BY <1>1, <2>1 DEF NeedInv
    <3> QED BY ONLY <1>5, <3>1, \A n \in Methods : SkipProcessingFlag[n] = 1 => SkipProcessingFlag'[n] = 1 \/ n \in ms
  <2>2. CASE m \in ToSet(queue)
    <3>1. m \in Methods /\ (m \in ms \cup {NoMethod} \/ SkipProcessingFlag'[m] # 0) /\ m # NoMethod
      BY <1>2, <2>2
    <3>2. SkipProcessingFlag'[m] \in 0..2 \/ m \in ms
      <4>1. SkipProcessingFlag'[m] = SkipProcessingFlag[m] \/ m \in ms
        BY ONLY <1>5, <3>1,
          \A n \in Methods : SkipProcessingFlag'[n] = SkipProcessingFlag[n] \/ SkipProcessingFlag'[n] = 1 \/ n \in ms
      <4> QED BY ONLY <3>1, <4>1, <1>4
    <3> QED BY ONLY <1>3, <1>5, <3>1, <3>2
  <2> QED BY <1>1, <1>5, <2>1, <2>2
<1> QED BY <1>3, <1>5 DEF NeedInv

\* A queue of three methods or of fewer.
LEMMA QueueOf ==
  ASSUME TypeOK, NEW a \in Methods \cup {NoMethod}, NEW b \in Methods \cup {NoMethod},
         NEW c \in Methods \cup {NoMethod}
  PROVE  /\ New(a) \in Seq(Methods) /\ ToSet(New(a)) \subseteq {a}
         /\ New(a) \o New(b) \in Seq(Methods) /\ ToSet(New(a) \o New(b)) \subseteq {a, b}
         /\ New(a) \o New(b) \o New(c) \in Seq(Methods)
         /\ ToSet(New(a) \o New(b) \o New(c)) \subseteq {a, b, c}
         /\ a \in Methods => /\ New(a) \o Again(a) \in Seq(Methods)
                             /\ ToSet(New(a) \o Again(a)) \subseteq {a}
                             /\ New(a) \o Again(a) \o New(c) \in Seq(Methods)
                             /\ ToSet(New(a) \o Again(a) \o New(c)) \subseteq {a, c}
<1>1. /\ New(a) \in Seq(Methods) /\ ToSet(New(a)) \subseteq {a}
      /\ New(b) \in Seq(Methods) /\ ToSet(New(b)) \subseteq {b}
      /\ New(c) \in Seq(Methods) /\ ToSet(New(c)) \subseteq {c}
  BY NewSet
<1>2. a \in Methods => Again(a) \in Seq(Methods) /\ ToSet(Again(a)) \subseteq {a}
  BY AgainSet
<1>3. /\ New(a) \o New(b) \in Seq(Methods)
      /\ ToSet(New(a) \o New(b)) = ToSet(New(a)) \cup ToSet(New(b))
  BY ONLY <1>1, ConcatSet
<1>4. /\ New(a) \o New(b) \o New(c) \in Seq(Methods)
      /\ ToSet(New(a) \o New(b) \o New(c)) = ToSet(New(a)) \cup ToSet(New(b)) \cup ToSet(New(c))
  BY ONLY <1>1, ConcatSet3
<1>5. ASSUME a \in Methods
      PROVE  /\ New(a) \o Again(a) \in Seq(Methods)
             /\ ToSet(New(a) \o Again(a)) = ToSet(New(a)) \cup ToSet(Again(a))
             /\ New(a) \o Again(a) \o New(c) \in Seq(Methods)
             /\ ToSet(New(a) \o Again(a) \o New(c)) = ToSet(New(a)) \cup ToSet(Again(a)) \cup ToSet(New(c))
  <2>1. Again(a) \in Seq(Methods)
    BY <1>2, <1>5
  <2> QED BY ONLY <1>1, <2>1, ConcatSet, ConcatSet3
<1> QED BY <1>1, <1>2, <1>3, <1>4, <1>5

\* The instruction that is processed is one of a processed method.
LEMMA InstNeeded ==
  ASSUME IInv, NEW op, At(op)
  PROVE  Inst \in Instrs(IsProcessed)
<1>1. /\ current \in IsProcessed /\ current \in Methods /\ ip \in 1..Len(body[current])
      /\ body[current] \in Seq(Instructions)
  BY InstType DEF IInv, TypeOK, At, Building
<1>2. Inst \in ToSet(body[current])
  BY <1>1 DEF Inst, ToSet
<1> QED BY <1>1, <1>2 DEF Instrs

\* A step that processes no other method keeps the invariant if it keeps its
\* part on each set, and what it instantiates and enters has a cause.
LEMMA NeededStep ==
  ASSUME NeededInv, body' = body, IsProcessed' = IsProcessed,
         \A ms \in SUBSET Methods : SelfContained(ms) /\ NeedInv(ms) => NeedInv(ms)',
         IsInstantiated' \subseteq IsInstantiated \cup InstantiatedBy(IsProcessed),
         VCallEntries' \subseteq VCallEntries \cup EntriesOf(IsProcessed)
  PROVE  NeededInv'
<1>1. \A ms \in SUBSET Methods : SelfContained(ms)' => NeedInv(ms)'
  BY SameNeeds DEF NeededInv
<1>2. IsInstantiated' \subseteq InstantiatedBy(IsProcessed)'
  <2>1. InstantiatedBy(IsProcessed)' = InstantiatedBy(IsProcessed)
    BY DEF InstantiatedBy, TypesOf, Made, On, Instrs
  <2> QED BY <2>1 DEF NeededInv
<1>3. VCallEntries' \subseteq EntriesOf(IsProcessed)'
  <2>1. EntriesOf(IsProcessed)' = EntriesOf(IsProcessed)
    BY DEF EntriesOf, On, Instrs
  <2> QED BY <2>1 DEF NeededInv
<1> QED BY <1>1, <1>2, <1>3 DEF NeededInv

LEMMA NewobjNeeded == IInv /\ NeededInv /\ Newobj => NeededInv'
<1> SUFFICES ASSUME IInv, NeededInv, Newobj PROVE NeededInv'
  OBVIOUS
<1>1. At("newobj") /\ TypeOK
  BY DEF Newobj, IInv
<1>2. PICK i \in Instrs(IsProcessed) : i = Inst /\ i.op = "newobj" /\ i.on \in Methods
  BY <1>1, InstType, InstNeeded DEF MethodOps
<1> DEFINE c == i.on
           t == DeclType[c]
           cc == StaticCctor(t)
           f == NewFinalizer(t)
           queue == New(c) \o New(cc) \o New(f)
<1>3. /\ IsInstantiated' = IsInstantiated \cup {t} /\ AddMethods({c, cc, f}, queue)
      /\ SkipProcessingFlag' = SkipProcessingFlag /\ VCallEntries' = VCallEntries
      /\ body' = body /\ IsProcessed' = IsProcessed
  BY <1>2 DEF Newobj, At
<1>4. /\ cc \in Methods \cup {NoMethod} /\ cc \in {NoMethod, Cctor[t]} /\ t \in Types
      /\ f = NoMethod \/ (f \in Methods /\ f = Finalizer[t])
  BY <1>2, NewFinalizerType DEF StaticCctor
<1>5. queue \in Seq(Methods) /\ ToSet(queue) \subseteq {c, cc, f}
  BY <1>1, <1>2, <1>4, QueueOf
<1>6. t \in InstantiatedBy(IsProcessed)
  BY <1>2 DEF InstantiatedBy, TypesOf, Made, On
<1> HIDE DEF queue, cc, f
<1>7. ASSUME NEW ms, SelfContained(ms), NeedInv(ms) PROVE NeedInv(ms)'
  <2>1. i \in Instrs(ms)
    BY <1>2, <1>7 DEF NeedInv, Instrs
  <2>2. {c, cc, f} \subseteq ms \cup {NoMethod}
    BY <1>2, <1>4, <1>7, <2>1, NeedFacts
  <2>3. {c, cc, f} \in SUBSET (Methods \cup {NoMethod})
    BY <1>2, <1>4
  <2>4. /\ \A m \in Methods : SkipProcessingFlag'[m] = SkipProcessingFlag[m] \/ SkipProcessingFlag'[m] = 1 \/ m \in ms
        /\ \A m \in Methods : SkipProcessingFlag[m] = 1 => SkipProcessingFlag'[m] = 1 \/ m \in ms
        /\ \A m \in {c, cc, f} : m \in ms \cup {NoMethod} \/ SkipProcessingFlag'[m] # 0
    BY <1>3, <2>2
  <2> QED BY ONLY <1>1, <1>3, <1>5, <1>7, <2>3, <2>4, NeedStep
<1> QED BY <1>3, <1>6, <1>7, NeededStep

LEMMA CallvirtNeeded == IInv /\ NeededInv /\ Callvirt => NeededInv'
<1> SUFFICES ASSUME IInv, NeededInv, Callvirt PROVE NeededInv'
  OBVIOUS
<1>1. At("callvirt") /\ TypeOK
  BY DEF Callvirt, IInv
<1>2. PICK i \in Instrs(IsProcessed) : i = Inst /\ i.op = "callvirt" /\ i.on \in Methods
  BY <1>1, InstType, InstNeeded DEF MethodOps
<1> DEFINE m == i.on
<1>3. /\ AddMethods({m}, New(m)) /\ IsInstantiated' = IsInstantiated
      /\ m \in IsVirtual => Skip(m) /\ VCallEntries' = VCallEntries \cup {m}
      /\ m \notin IsVirtual => UNCHANGED <<SkipProcessingFlag, VCallEntries>>
      /\ body' = body /\ IsProcessed' = IsProcessed
  BY <1>2 DEF Callvirt, At
<1>4. New(m) \in Seq(Methods) /\ ToSet(New(m)) \subseteq {m}
  BY <1>1, <1>2, QueueOf
<1>5. m \in IsVirtual => m \in EntriesOf(IsProcessed)
  BY <1>2 DEF EntriesOf, On
<1>6. ASSUME NEW ms, SelfContained(ms), NeedInv(ms) PROVE NeedInv(ms)'
  <2>1. i \in Instrs(ms)
    BY <1>2, <1>6 DEF NeedInv, Instrs
  <2>2. m \in ms \cup {NoMethod} \/ (m \in IsVirtual /\ SkipProcessingFlag'[m] # 0)
    BY <1>1, <1>2, <1>3, <1>6, <2>1, NeedFacts DEF Skip, TypeOK
  <2>3. /\ \A n \in Methods : SkipProcessingFlag'[n] = SkipProcessingFlag[n] \/ SkipProcessingFlag'[n] = 1 \/ n \in ms
        /\ \A n \in Methods : SkipProcessingFlag[n] = 1 => SkipProcessingFlag'[n] = 1 \/ n \in ms
        /\ \A n \in {m} : n \in ms \cup {NoMethod} \/ SkipProcessingFlag'[n] # 0
    BY <1>1, <1>2, <1>3, <2>2 DEF Skip, TypeOK
  <2>4. {m} \in SUBSET (Methods \cup {NoMethod})
    BY <1>2
  <2> QED BY ONLY <1>1, <1>3, <1>4, <1>6, <2>3, <2>4, NeedStep
<1> QED BY <1>3, <1>5, <1>6, NeededStep

LEMMA CallNeeded == IInv /\ NeededInv /\ Call => NeededInv'
<1> SUFFICES ASSUME IInv, NeededInv, Call PROVE NeededInv'
  OBVIOUS
<1>1. TypeOK /\ (At("call") \/ At("ldtoken")) /\ ~Replaced(Inst)
  BY DEF Call, IInv
<1>2. PICK i \in Instrs(IsProcessed) :
        i = Inst /\ i.op \in {"call", "ldtoken"} /\ i.on \in Methods /\ ~Replaced(i)
  BY <1>1, InstType, InstNeeded DEF MethodOps
<1> DEFINE m == i.on
           cc == IF m \in IsStatic THEN StaticCctor(DeclType[m]) ELSE NoMethod
           queue == New(m) \o Again(m) \o New(cc)
<1>3. /\ AddMethods({m, cc}, queue) /\ DontSkip(m)
      /\ IsInstantiated' = IsInstantiated /\ VCallEntries' = VCallEntries
      /\ body' = body /\ IsProcessed' = IsProcessed
  BY <1>1, <1>2 DEF Call, At
<1>4. /\ cc \in Methods \cup {NoMethod}
      /\ cc = NoMethod \/ (m \in IsStatic /\ cc = Cctor[DeclType[m]])
  BY <1>2 DEF StaticCctor
<1>5. queue \in Seq(Methods) /\ ToSet(queue) \subseteq {m, cc}
  BY <1>1, <1>2, <1>4, QueueOf
<1> HIDE DEF queue, cc
<1>6. ASSUME NEW ms, SelfContained(ms), NeedInv(ms) PROVE NeedInv(ms)'
  <2>1. i \in Instrs(ms)
    BY <1>2, <1>6 DEF NeedInv, Instrs
  <2>2. m \in ms /\ cc \in ms \cup {NoMethod}
    BY <1>2, <1>4, <1>6, <2>1, NeedFacts
  <2>3. /\ \A n \in Methods : SkipProcessingFlag'[n] = SkipProcessingFlag[n] \/ SkipProcessingFlag'[n] = 1 \/ n \in ms
        /\ \A n \in Methods : SkipProcessingFlag[n] = 1 => SkipProcessingFlag'[n] = 1 \/ n \in ms
        /\ \A n \in {m, cc} : n \in ms \cup {NoMethod} \/ SkipProcessingFlag'[n] # 0
    BY <1>1, <1>3, <2>2 DEF DontSkip, TypeOK
  <2>4. {m, cc} \in SUBSET (Methods \cup {NoMethod})
    BY <1>2, <1>4
  <2> QED BY ONLY <1>1, <1>3, <1>5, <1>6, <2>3, <2>4, NeedStep
<1> QED BY <1>3, <1>6, NeededStep

LEMMA CallReplacedNeeded == IInv /\ NeededInv /\ CallReplaced => NeededInv'
<1> SUFFICES ASSUME IInv, NeededInv, CallReplaced PROVE NeededInv'
  OBVIOUS
<1>1. At("call") /\ TypeOK
  BY DEF CallReplaced, IInv
<1>2. PICK i \in Instrs(IsProcessed) : i = Inst /\ i.on \in Methods /\ Replaced(i)
  BY <1>1, InstType, InstNeeded DEF MethodOps, CallReplaced
<1> DEFINE m == i.on
           r == Replace[m]
           queue == New(m) \o New(r)
<1>3. /\ AddMethods({m, r}, queue) /\ Skip(m)
      /\ IsInstantiated' = IsInstantiated /\ VCallEntries' = VCallEntries
      /\ body' = body /\ IsProcessed' = IsProcessed
  BY <1>2 DEF CallReplaced, At
<1>4. r \in Methods \cup {NoMethod}
  BY <1>2
<1>5. queue \in Seq(Methods) /\ ToSet(queue) \subseteq {m, r}
  BY <1>1, <1>2, <1>4, QueueOf
<1> HIDE DEF queue, r
<1>6. ASSUME NEW ms, SelfContained(ms), NeedInv(ms) PROVE NeedInv(ms)'
  <2>1. i \in Instrs(ms)
    BY <1>2, <1>6 DEF NeedInv, Instrs
  <2>2. r \in ms \cup {NoMethod}
    BY <1>2, <1>6, <2>1, NeedFacts DEF r
  <2>3. /\ \A n \in Methods : SkipProcessingFlag'[n] = SkipProcessingFlag[n] \/ SkipProcessingFlag'[n] = 1 \/ n \in ms
        /\ \A n \in Methods : SkipProcessingFlag[n] = 1 => SkipProcessingFlag'[n] = 1 \/ n \in ms
        /\ \A n \in {m, r} : n \in ms \cup {NoMethod} \/ SkipProcessingFlag'[n] # 0
    BY <1>1, <1>2, <1>3, <2>2 DEF Skip, TypeOK
  <2>4. {m, r} \in SUBSET (Methods \cup {NoMethod})
    BY <1>2, <1>4
  <2> QED BY ONLY <1>1, <1>3, <1>5, <1>6, <2>3, <2>4, NeedStep
<1> QED BY <1>3, <1>6, NeededStep

LEMMA LdsfldNeeded == IInv /\ NeededInv /\ Ldsfld => NeededInv'
<1> SUFFICES ASSUME IInv, NeededInv, Ldsfld PROVE NeededInv'
  OBVIOUS
<1>1. At("ldsfld") /\ TypeOK
  BY DEF Ldsfld, IInv
<1>2. PICK i \in Instrs(IsProcessed) : i = Inst /\ i.op = "ldsfld" /\ i.on \in Types
  BY <1>1, InstType, InstNeeded DEF TypeOps
<1> DEFINE cc == StaticCctor(i.on)
<1>3. /\ AddMethods({cc}, New(cc)) /\ SkipProcessingFlag' = SkipProcessingFlag
      /\ IsInstantiated' = IsInstantiated /\ VCallEntries' = VCallEntries
      /\ body' = body /\ IsProcessed' = IsProcessed
  BY <1>2 DEF Ldsfld, At
<1>4. cc \in Methods \cup {NoMethod} /\ cc \in {NoMethod, Cctor[i.on]}
  BY <1>2 DEF StaticCctor
<1>5. New(cc) \in Seq(Methods) /\ ToSet(New(cc)) \subseteq {cc}
  BY <1>1, <1>4, QueueOf
<1> HIDE DEF cc
<1>6. ASSUME NEW ms, SelfContained(ms), NeedInv(ms) PROVE NeedInv(ms)'
  <2>1. i \in Instrs(ms)
    BY <1>2, <1>6 DEF NeedInv, Instrs
  <2>2. cc \in ms \cup {NoMethod}
    BY <1>2, <1>4, <1>6, <2>1, NeedFacts
  <2>3. /\ \A n \in Methods : SkipProcessingFlag'[n] = SkipProcessingFlag[n] \/ SkipProcessingFlag'[n] = 1 \/ n \in ms
        /\ \A n \in Methods : SkipProcessingFlag[n] = 1 => SkipProcessingFlag'[n] = 1 \/ n \in ms
        /\ \A n \in {cc} : n \in ms \cup {NoMethod} \/ SkipProcessingFlag'[n] # 0
    BY <1>3, <2>2
  <2>4. {cc} \in SUBSET (Methods \cup {NoMethod})
    BY <1>4
  <2> QED BY ONLY <1>1, <1>3, <1>5, <1>6, <2>3, <2>4, NeedStep
<1> QED BY <1>3, <1>6, NeededStep

LEMMA TypesNeeded == IInv /\ NeededInv /\ (Box \/ Isinst \/ Ldstr) => NeededInv'
<1> SUFFICES ASSUME IInv, NeededInv, Box \/ Isinst \/ Ldstr PROVE NeededInv'
  OBVIOUS
<1>1. /\ UNCHANGED <<PendingMethods, SkipProcessingFlag, VCallEntries>>
      /\ body' = body /\ IsProcessed' = IsProcessed
  BY DEF Box, Isinst, Ldstr, At
<1>2. \A ms : NeedInv(ms) => NeedInv(ms)'
  BY <1>1 DEF NeedInv, Pending
<1>3. IsInstantiated' \subseteq IsInstantiated \cup InstantiatedBy(IsProcessed)
  <2>1. CASE Box
    <3>1. PICK i \in Instrs(IsProcessed) : i = Inst /\ i.op = "box"
      BY <2>1, InstType, InstNeeded DEF Box
    <3>2. {i.on, BoxedType[i.on]} \subseteq InstantiatedBy(IsProcessed)
      BY <3>1 DEF InstantiatedBy, TypesOf, On
    <3> QED BY <2>1, <3>1, <3>2 DEF Box
  <2>2. CASE Isinst
    BY <2>2 DEF Isinst
  <2>3. CASE Ldstr
    <3>1. PICK i \in Instrs(IsProcessed) : i = Inst /\ i.op = "ldstr" /\ i.on = StringType
      BY <2>3, InstType, InstNeeded DEF Ldstr
    <3>2. StringType \in InstantiatedBy(IsProcessed)
      BY <3>1 DEF InstantiatedBy, On
    <3> QED BY <2>3, <3>2 DEF Ldstr
  <2> QED BY <2>1, <2>2, <2>3
<1> QED BY <1>1, <1>2, <1>3, NeededStep

LEMMA DequeueNeeded == IInv /\ NeededInv /\ Dequeue => NeededInv'
<1> SUFFICES ASSUME IInv, NeededInv, Dequeue PROVE NeededInv'
  OBVIOUS
<1> DEFINE m == Head(PendingMethods)
           drop == SkipProcessingFlag[m] = 1 \/ m \in IsProcessed
<1>1. /\ PendingMethods # <<>> /\ PendingMethods' = Tail(PendingMethods)
      /\ IsProcessed' = IF drop THEN IsProcessed ELSE IsProcessed \cup {m}
      /\ UNCHANGED <<body, SkipProcessingFlag, VCallEntries, IsInstantiated>>
  BY DEF Dequeue, calls
<1>2. m \in Pending /\ Pending' \subseteq Pending
  <2>1. PendingMethods \in Seq(methodMap)
    BY DEF IInv, TypeOK
  <2>2. ToSet(PendingMethods) = {m} \cup ToSet(Tail(PendingMethods))
    BY ONLY <1>1, <2>1, TailSet
  <2> QED BY <1>1, <2>2 DEF Pending
<1> HIDE DEF m
<1>3. \A ms : NeedInv(ms) => NeedInv(ms)'
  <2> SUFFICES ASSUME NEW ms, NeedInv(ms) PROVE NeedInv(ms)'
    OBVIOUS
  <2>1. IsProcessed' \subseteq ms
    BY <1>1, <1>2 DEF NeedInv
  <2>2. \A n \in Pending' : SkipProcessingFlag'[n] # 1 => n \in ms
    BY <1>1, <1>2 DEF NeedInv
  <2>3. \A n \in Methods : SkipProcessingFlag'[n] = 2 => n \in ms
    BY <1>1 DEF NeedInv
  <2> QED BY <2>1, <2>2, <2>3 DEF NeedInv
<1>4. \A ms \in SUBSET Methods : SelfContained(ms)' => NeedInv(ms)'
  BY <1>1, <1>3, SameNeeds DEF NeededInv
<1>5. Instrs(IsProcessed) \subseteq Instrs(IsProcessed)'
  BY <1>1 DEF Instrs
<1>6. InstantiatedBy(IsProcessed) \subseteq InstantiatedBy(IsProcessed)'
  BY <1>5 DEF InstantiatedBy, TypesOf, Made, On
<1>7. EntriesOf(IsProcessed) \subseteq EntriesOf(IsProcessed)'
  BY <1>5 DEF EntriesOf, On
<1> QED BY <1>1, <1>4, <1>6, <1>7 DEF NeededInv

LEMMA VMethodNeeded ==
  ASSUME IInv, NeededInv, NEW p \in todo, ResolveVMethod(p[1], p[2])
  PROVE  NeededInv'
<1> DEFINE m == Impl[p[2]][p[1]]
           queue == New(m) \o Again(m)
<1>1. TypeOK /\ p \in Receivers(VCallEntries, IsInstantiated)
  BY DEF IInv, PhaseInv
<1>2. m \in Methods
  BY <1>1 DEF TypeOK, Receivers
<1>3. /\ AddMethods({m}, queue) /\ DontSkip(m)
      /\ IsInstantiated' = IsInstantiated /\ VCallEntries' = VCallEntries
      /\ body' = body /\ IsProcessed' = IsProcessed
  BY DEF ResolveVMethod
<1>4. queue \in Seq(Methods) /\ ToSet(queue) \subseteq {m}
  BY <1>1, <1>2, QueueOf
<1> HIDE DEF queue
<1>5. ASSUME NEW ms, SelfContained(ms), NeedInv(ms) PROVE NeedInv(ms)'
  <2>1. m \in ms
    BY <1>1, <1>5, NeedBound DEF NeedInv
  <2> HIDE DEF m
  <2>2. /\ \A n \in Methods : SkipProcessingFlag'[n] = SkipProcessingFlag[n] \/ SkipProcessingFlag'[n] = 1 \/ n \in ms
        /\ \A n \in Methods : SkipProcessingFlag[n] = 1 => SkipProcessingFlag'[n] = 1 \/ n \in ms
        /\ \A n \in {m} : n \in ms \cup {NoMethod} \/ SkipProcessingFlag'[n] # 0
    BY <1>1, <1>2, <1>3, <2>1 DEF DontSkip, TypeOK
  <2>3. {m} \in SUBSET (Methods \cup {NoMethod})
    BY <1>2
  <2> QED BY ONLY <1>1, <1>3, <1>4, <1>5, <2>2, <2>3, NeedStep
<1> QED BY <1>3, <1>5, NeededStep

LEMMA NeededNext == IInv /\ NeededInv /\ [Next]_vars => NeededInv'
<1> SUFFICES ASSUME IInv, NeededInv, [Next]_vars PROVE NeededInv'
  OBVIOUS
<1>1. ASSUME UNCHANGED <<body, PendingMethods, IsProcessed, SkipProcessingFlag, VCallEntries, IsInstantiated>>
      PROVE  NeededInv'
  <2>1. \A ms : NeedInv(ms) => NeedInv(ms)'
    BY <1>1 DEF NeedInv, Pending
  <2> QED BY <1>1, <2>1, NeededStep
<1>2. CASE StartVCalls \/ EndVCalls
  BY <1>1, <1>2 DEF StartVCalls, EndVCalls, methods, calls
<1>3. CASE UNCHANGED vars
  BY <1>1, <1>3 DEF vars, methods, calls
<1>4. ASSUME NEW p \in todo, ResolveVMethod(p[1], p[2]) PROVE NeededInv'
  BY <1>4, VMethodNeeded
<1> QED
  BY <1>2, <1>3, <1>4, NewobjNeeded, CallvirtNeeded, CallNeeded, CallReplacedNeeded,
     LdsfldNeeded, TypesNeeded, DequeueNeeded
  DEF Next

\* The least subset: no smaller set of methods than the processed ones needs no
\* other, and what is instantiated or entered has an instruction of theirs as
\* its cause.
THEOREM NothingIsUnneeded == Spec => []NothingUnneeded
<1>1. Init => NeededInv
  <2> SUFFICES ASSUME Init PROVE NeededInv
    OBVIOUS
  <2>1. Pending = {Entry} /\ Entry \in Methods
    BY DEF Init, Pending, ToSet
  <2>2. ASSUME NEW ms, SelfContained(ms) PROVE NeedInv(ms)
    BY <2>1, <2>2 DEF NeedInv, Init, SelfContained, Closed
  <2> QED BY <2>2 DEF NeededInv, Init
<1>2. Spec => []NeededInv
  BY <1>1, NeededNext, Invariance, PTL DEF Spec
<1>3. IInv /\ NeededInv => NothingUnneeded
  <2> SUFFICES ASSUME IInv, NeededInv PROVE NothingUnneeded
    OBVIOUS
  <2>1. IsProcessed \subseteq Methods
    BY DEF IInv, TypeOK
  <2> QED BY <2>1 DEF NeededInv, NeedInv, NothingUnneeded
<1> QED BY <1>2, <1>3, Invariance, PTL
=============================================================================
