------------------------------ MODULE Resolver ------------------------------
(***************************************************************************)
(* TypeManager.ResolveAll: the analysis that finds, from the entry method, *)
(* the methods, the instantiated types and the targets of virtual calls    *)
(* that code is generated for.                                             *)
(*                                                                         *)
(* A queue holds the methods to process; an instruction adds what it       *)
(* refers to.  The method a virtual call names is not processed for that   *)
(* (SkipProcessingFlag): when the queue is empty, every such entry is      *)
(* bound in every instantiated type, the implementations join the queue,   *)
(* and so on until nothing is added.                                       *)
(*                                                                         *)
(* The graph of types (Derived) and the method tables (Impl, Replace) are  *)
(* given; a program is the bodies of the methods.  An instruction is a     *)
(* record: op, and the method or the type it is on.                        *)
(***************************************************************************)
EXTENDS Naturals, FiniteSets, Sequences, SequencesExt

CONSTANTS
  Methods, Types,
  NoMethod,
  DeclType,    \* DeclType[m]: the type that declares m
  IsVirtual,   \* the virtual methods
  IsStatic,    \* the static methods, static constructors among them
  Cctor,       \* Cctor[t]: the static constructor t declares, or NoMethod
  Declared,    \* Declared[t]: the finalizer t declares, or NoMethod
  Finalizer,   \* Finalizer[t]: the one t has, its own or the nearest above it
  Bases,       \* Bases[t]: the classes above t
  Derived,     \* Derived[t]: the types derived from t
  BoxedType,   \* BoxedType[t]: the type of a boxed t, for a value type t
  StringType,
  Replace,     \* Replace[m]: the method of the same type that replaces m in
               \* calls that are not virtual, or NoMethod
  Impl,        \* Impl[t][m]: the method a virtual call of m runs on a t
  Entry,       \* the entry method
  Programs     \* bodies: functions from methods to sequences of instructions

MethodOps == {"newobj", "callvirt", "call", "ldtoken"}
TypeOps == {"ldsfld", "box", "isinst"}
Instructions ==
  [op : MethodOps, on : Methods] \cup [op : TypeOps, on : Types]
    \cup [op : {"ldstr"}, on : {StringType}]

Chain(t) == {t} \cup Bases[t]
Below(t, u) == {v \in Chain(t) : u \in Bases[v]}

ASSUME MethodAssumption ==
  /\ NoMethod \notin Methods
  /\ Entry \in Methods \ IsVirtual
  /\ DeclType \in [Methods -> Types]
  /\ IsStatic \subseteq Methods \ IsVirtual
  /\ Cctor \in [Types -> (Methods \ IsVirtual) \cup {NoMethod}]
  /\ Replace \in [Methods -> Methods \cup {NoMethod}]
  /\ Impl \in [Types -> [Methods -> Methods]]
  /\ Programs \subseteq [Methods -> Seq(Instructions)]

ASSUME TypeAssumption ==
  /\ StringType \in Types
  /\ BoxedType \in [Types -> Types]
  /\ Derived \in [Types -> SUBSET Types]

\* The classes above a type are a chain that ends.
ASSUME BasesAssumption ==
  /\ Bases \in [Types -> SUBSET Types]
  /\ \A t \in Types : t \notin Bases[t]
  /\ \A t \in Types : \A u \in Bases[t] : Bases[u] \subseteq Bases[t]
  /\ \A t \in Types : \A S \in SUBSET Chain(t) : S # {} => \E u \in S : S \subseteq Chain(u)
  /\ \A t \in Types : \E u \in Chain(t) : Bases[u] = {}

\* Finalizer is what it says: the first declaration on the chain.
ASSUME FinalizerAssumption ==
  /\ Declared \in [Types -> (Methods \cap IsVirtual) \cup {NoMethod}]
  /\ Finalizer \in [Types -> Methods \cup {NoMethod}]
  /\ \A t \in Types : Declared[t] # NoMethod => Finalizer[t] = Declared[t]
  /\ \A t \in Types : Declared[t] = NoMethod /\ Bases[t] = {} => Finalizer[t] = NoMethod
  /\ \A t \in Types : \A u \in Chain(t) :
       (\A v \in Below(t, u) : Declared[v] = NoMethod) => Finalizer[t] = Finalizer[u]

\* Virtual calls, and calls that run a replacement, name neither finalizers,
\* which C# does not let a program call, nor methods that replace others: the
\* mark that skips such a method would not be cleared again.
ASSUME EntriesAssumption ==
  \A b \in Programs : \A m \in Methods : \A k \in DOMAIN b[m] :
    LET i == b[m][k] IN
      (i.op = "callvirt" \/ (i.op = "call" /\ Replace[i.on] # NoMethod)) /\ i.on \in IsVirtual
        => /\ \A t \in Types : Finalizer[t] # i.on
           /\ \A n \in Methods : Replace[n] # i.on

\* newobj runs a constructor.
ASSUME ConstructorAssumption ==
  \A b \in Programs : \A m \in Methods : \A k \in DOMAIN b[m] :
    b[m][k].op = "newobj" => b[m][k].on \notin IsVirtual

VARIABLES
  body,                \* the program
  phase,               \* "methods", "vcalls" or "done"
  current, ip,         \* the method being processed, and its next instruction
  todo,                \* the pairs of entry and type ResolveVCalls has yet to bind
  PendingMethods,
  methodMap,           \* the methods AddMethod has entered
  IsProcessed,
  SkipProcessingFlag,
  VCallEntries,
  OverrideImpls,       \* triples: entry, type, implementation
  typeMap,             \* the types that have been resolved
  IsInstantiated,
  IsCctorGenerated,
  IsFinalizerGenerated, FinalizerMethod,
  IsStringTypeResolved

control == <<phase, current, ip, todo>>
methods == <<PendingMethods, methodMap, IsProcessed, SkipProcessingFlag>>
calls == <<VCallEntries, OverrideImpls>>
special == <<IsCctorGenerated, IsFinalizerGenerated, FinalizerMethod, IsStringTypeResolved>>
vars == <<body, control, methods, calls, typeMap, IsInstantiated, special>>

Init ==
  /\ body \in Programs
  /\ phase = "methods"
  /\ current = NoMethod
  /\ ip = 1
  /\ todo = {}
  /\ PendingMethods = <<Entry>>
  /\ methodMap = {Entry}
  /\ IsProcessed = {}
  /\ SkipProcessingFlag = [m \in Methods |-> 0]
  /\ VCallEntries = {}
  /\ OverrideImpls = {}
  /\ typeMap = {DeclType[Entry]}
  /\ IsInstantiated = {}
  /\ IsCctorGenerated = {}
  /\ IsFinalizerGenerated = {}
  /\ FinalizerMethod = [t \in Types |-> NoMethod]
  /\ IsStringTypeResolved = FALSE

-----------------------------------------------------------------------------
(* AddMethod, and the static constructors and finalizers that join with a  *)
(* type.                                                                   *)

\* What AddMethod queues: a method it has not entered yet.
New(m) == IF m = NoMethod \/ m \in methodMap THEN <<>> ELSE <<m>>

\* Mutant: AddPendingMethod queues processed methods too.
AgainAlways(m) == <<m>>

\* Mutant: a method is queued once, by AddMethod.
AgainNever(m) == <<>>

\* What AddPendingMethod queues.
Again(m) == IF m \in IsProcessed THEN <<>> ELSE <<m>>

\* The methods are entered, and those of queue join the queue.
AddMethods(ms, queue) ==
  /\ methodMap' = methodMap \cup (ms \ {NoMethod})
  /\ PendingMethods' = PendingMethods \o queue

\* Mutant: the methods virtual calls name are processed like all others.
SkipNothing(m) == UNCHANGED SkipProcessingFlag

\* IsSkipProcessing = true, which leaves a flag that is set as it is.
Skip(m) == SkipProcessingFlag' = [SkipProcessingFlag EXCEPT ![m] = IF @ = 0 THEN 1 ELSE @]
\* IsSkipProcessing = false.
DontSkip(m) == SkipProcessingFlag' = [SkipProcessingFlag EXCEPT ![m] = 2]

\* Resolving a type resolves all that is above it.
Resolve(t) == typeMap' = typeMap \cup {t} \cup {s \in Types : t \in Derived[s]}

\* GenStaticCctor: the method it adds, if any.
StaticCctor(t) == IF t \in IsCctorGenerated THEN NoMethod ELSE Cctor[t]
GenStaticCctor(t) == IsCctorGenerated' = IsCctorGenerated \cup {t}

\* GenFinalizerMethod climbs from t up to a type that has been there before,
\* or declares a finalizer, or has no base type.
Stops(v) == v \in IsFinalizerGenerated \/ Declared[v] # NoMethod \/ Bases[v] = {}
Climbed(t) == {u \in Chain(t) : \A v \in Below(t, u) : ~Stops(v)}
Top(t) == CHOOSE u \in Climbed(t) : Stops(u)
\* The finalizer it adds, if any.
NewFinalizer(t) == IF Top(t) \in IsFinalizerGenerated THEN NoMethod ELSE Declared[Top(t)]
\* Mutant: what a type without a finalizer of its own inherits is forgotten.
GenOwnFinalizer(t) ==
  /\ IsFinalizerGenerated' = IsFinalizerGenerated \cup {t}
  /\ FinalizerMethod' = [FinalizerMethod EXCEPT ![t] = Declared[t]]

GenFinalizer(t) ==
  LET found == IF Top(t) \in IsFinalizerGenerated THEN FinalizerMethod[Top(t)] ELSE Declared[Top(t)] IN
  /\ IsFinalizerGenerated' = IsFinalizerGenerated \cup Climbed(t)
  /\ FinalizerMethod' = [u \in Types |-> IF u \in Climbed(t) THEN found ELSE FinalizerMethod[u]]

-----------------------------------------------------------------------------
(* BuildInstructions: one step per instruction (ResolveOperand).           *)

Building == current # NoMethod /\ ip <= Len(body[current])
Inst == body[current][ip]

At(op) ==
  /\ phase = "methods"
  /\ Building
  /\ Inst.op = op
  /\ ip' = ip + 1
  /\ UNCHANGED <<body, phase, current, todo, IsProcessed, OverrideImpls>>

Newobj ==
  LET c == Inst.on
      t == DeclType[c]
  IN
  /\ At("newobj")
  /\ Resolve(t)
  /\ IsInstantiated' = IsInstantiated \cup {t}
  /\ AddMethods({c, StaticCctor(t), NewFinalizer(t)},
                New(c) \o New(StaticCctor(t)) \o New(NewFinalizer(t)))
  /\ GenStaticCctor(t)
  /\ GenFinalizer(t)
  /\ UNCHANGED <<SkipProcessingFlag, VCallEntries, IsStringTypeResolved>>

\* A virtual call: AddVCallEntry.  On a method that is not virtual the
\* instruction becomes a direct call, and the method is added only.
Callvirt ==
  LET m == Inst.on IN
  /\ At("callvirt")
  /\ Resolve(DeclType[m])
  /\ AddMethods({m}, New(m))
  /\ IF m \in IsVirtual
     THEN Skip(m) /\ VCallEntries' = VCallEntries \cup {m}
     ELSE UNCHANGED <<SkipProcessingFlag, VCallEntries>>
  /\ UNCHANGED <<IsInstantiated, special>>

\* Does the direct call i run the replacement of its method?
Replaced(i) == i.op = "call" /\ i.on \in IsVirtual /\ Replace[i.on] # NoMethod

\* A direct call, or a token, of a method that is not replaced.
Call ==
  LET m == Inst.on
      cctor == IF m \in IsStatic THEN StaticCctor(DeclType[m]) ELSE NoMethod
  IN
  /\ At("call") \/ At("ldtoken")
  /\ ~Replaced(Inst)
  /\ Resolve(DeclType[m])
  /\ AddMethods({m, cctor}, New(m) \o Again(m) \o New(cctor))
  /\ DontSkip(m)
  /\ IF m \in IsStatic THEN GenStaticCctor(DeclType[m]) ELSE UNCHANGED IsCctorGenerated
  /\ UNCHANGED <<IsInstantiated, VCallEntries, IsFinalizerGenerated, FinalizerMethod,
                 IsStringTypeResolved>>

\* QueryCallReplace: the replacement is added, and m is to be skipped.
CallReplaced ==
  LET m == Inst.on IN
  /\ At("call")
  /\ Replaced(Inst)
  /\ Resolve(DeclType[m])
  /\ AddMethods({m, Replace[m]}, New(m) \o New(Replace[m]))
  /\ Skip(m)
  /\ UNCHANGED <<IsInstantiated, VCallEntries, special>>

\* A static field: only its type matters here.
Ldsfld ==
  LET t == Inst.on IN
  /\ At("ldsfld")
  /\ Resolve(t)
  /\ AddMethods({StaticCctor(t)}, New(StaticCctor(t)))
  /\ GenStaticCctor(t)
  /\ UNCHANGED <<IsInstantiated, SkipProcessingFlag, VCallEntries, IsFinalizerGenerated,
                 FinalizerMethod, IsStringTypeResolved>>

\* ResolveBoxedType.
Box ==
  LET t == Inst.on IN
  /\ At("box")
  /\ typeMap' = typeMap \cup {t, BoxedType[t]}
                  \cup {s \in Types : {t, BoxedType[t]} \cap Derived[s] # {}}
  /\ IsInstantiated' = IsInstantiated \cup {t, BoxedType[t]}
  /\ UNCHANGED <<PendingMethods, methodMap, SkipProcessingFlag, VCallEntries, special>>

\* Isinst and Castclass resolve a type.
Isinst ==
  /\ At("isinst")
  /\ Resolve(Inst.on)
  /\ UNCHANGED <<PendingMethods, methodMap, SkipProcessingFlag, VCallEntries, IsInstantiated, special>>

\* ResolveStringType: once, and not if String has been resolved before.
Ldstr ==
  /\ At("ldstr")
  /\ IsStringTypeResolved' = TRUE
  /\ IF IsStringTypeResolved \/ StringType \in typeMap
     THEN UNCHANGED <<typeMap, IsInstantiated>>
     ELSE Resolve(StringType) /\ IsInstantiated' = IsInstantiated \cup {StringType}
  /\ UNCHANGED <<PendingMethods, methodMap, SkipProcessingFlag, VCallEntries, IsCctorGenerated,
                 IsFinalizerGenerated, FinalizerMethod>>

-----------------------------------------------------------------------------
(* ResolveAll and ResolveVCalls.                                           *)

\* The next method of the queue is dropped, or processed.
Dequeue ==
  LET m == Head(PendingMethods)
      drop == SkipProcessingFlag[m] = 1 \/ m \in IsProcessed
  IN
  /\ phase = "methods"
  /\ ~Building
  /\ PendingMethods # <<>>
  /\ PendingMethods' = Tail(PendingMethods)
  /\ IsProcessed' = IF drop THEN IsProcessed ELSE IsProcessed \cup {m}
  /\ current' = IF drop THEN NoMethod ELSE m
  /\ ip' = 1
  /\ UNCHANGED <<body, phase, todo, methodMap, SkipProcessingFlag, calls, typeMap,
                 IsInstantiated, special>>

\* The instantiated types that a virtual call of each entry can meet.
Receivers(entries, types) ==
  {p \in entries \X types : p[2] \in {DeclType[p[1]]} \cup Derived[DeclType[p[1]]]}

\* Mutant: an entry that has been bound is not looked at again.
StartNewVCalls ==
  /\ phase = "methods"
  /\ ~Building
  /\ PendingMethods = <<>>
  /\ phase' = "vcalls"
  /\ todo' = Receivers(VCallEntries \ {b[1] : b \in OverrideImpls}, IsInstantiated)
  /\ UNCHANGED <<body, current, ip, methods, calls, typeMap, IsInstantiated, special>>

\* The queue is empty: ResolveVCalls starts.
StartVCalls ==
  /\ phase = "methods"
  /\ ~Building
  /\ PendingMethods = <<>>
  /\ phase' = "vcalls"
  /\ todo' = Receivers(VCallEntries, IsInstantiated)
  /\ UNCHANGED <<body, current, ip, methods, calls, typeMap, IsInstantiated, special>>

\* ResolveVMethod: the entry is bound in the type, and what it is bound to is
\* processed.
ResolveVMethod(entry, t) ==
  LET impl == Impl[t][entry] IN
  /\ phase = "vcalls"
  /\ <<entry, t>> \in todo
  /\ todo' = todo \ {<<entry, t>>}
  /\ AddMethods({impl}, New(impl) \o Again(impl))
  /\ OverrideImpls' = OverrideImpls \cup {<<entry, t, impl>>}
  /\ DontSkip(impl)
  /\ UNCHANGED <<body, phase, current, ip, IsProcessed, VCallEntries, typeMap, IsInstantiated, special>>

EndVCalls ==
  /\ phase = "vcalls"
  /\ todo = {}
  /\ phase' = IF PendingMethods = <<>> THEN "done" ELSE "methods"
  /\ UNCHANGED <<body, current, ip, todo, methods, calls, typeMap, IsInstantiated, special>>

Next ==
  \/ Newobj \/ Callvirt \/ Call \/ CallReplaced
  \/ Ldsfld \/ Box \/ Isinst \/ Ldstr
  \/ Dequeue \/ StartVCalls \/ EndVCalls
  \/ \E p \in todo : ResolveVMethod(p[1], p[2])

\* ResolveAll is one thread that does not wait for anything.
Spec == Init /\ [][Next]_vars /\ WF_vars(Next)

-----------------------------------------------------------------------------
(* What a program needs: the methods ms need methods, types and entries,   *)
(* and so do the entries es in the types ts.                               *)

Instrs(ms) == UNION {ToSet(body[m]) : m \in ms}
On(ops, ms) == {i.on : i \in {j \in Instrs(ms) : j.op \in ops}}

Called(ms) ==
  On({"newobj", "ldtoken"}, ms) \cup (On({"callvirt"}, ms) \ IsVirtual)
    \cup {IF Replaced(i) THEN Replace[i.on] ELSE i.on : i \in {j \in Instrs(ms) : j.op = "call"}}
Initialised(ms) ==
  On({"ldsfld"}, ms) \cup {DeclType[m] : m \in On({"newobj"}, ms)}
    \cup {DeclType[m] : m \in On({"call", "ldtoken"}, ms) \cap IsStatic}
Made(ms) == {DeclType[m] : m \in On({"newobj"}, ms)}
MethodsOf(ms) ==
  (Called(ms) \cup {Cctor[t] : t \in Initialised(ms)} \cup {Finalizer[t] : t \in Made(ms)}) \ {NoMethod}
TypesOf(ms) == Made(ms) \cup On({"box"}, ms) \cup {BoxedType[t] : t \in On({"box"}, ms)}
EntriesOf(ms) == On({"callvirt"}, ms) \cap IsVirtual
Bound(es, ts) == {Impl[p[2]][p[1]] : p \in Receivers(es, ts)}

Closed(ms, ts, es) ==
  /\ Entry \in ms
  /\ MethodsOf(ms) \cup Bound(es, ts) \subseteq ms
  /\ TypesOf(ms) \subseteq ts
  /\ EntriesOf(ms) \subseteq es

\* What ms instantiates, string literals included, and a set of methods that
\* needs no other.
InstantiatedBy(ms) == TypesOf(ms) \cup On({"ldstr"}, ms)
SelfContained(ms) == Closed(ms, InstantiatedBy(ms), EntriesOf(ms))

-----------------------------------------------------------------------------
TypeOK ==
  /\ body \in [Methods -> Seq(Instructions)]
  /\ phase \in {"methods", "vcalls", "done"}
  /\ current \in IsProcessed \cup {NoMethod}
  /\ ip \in Nat \ {0}
  /\ todo \subseteq VCallEntries \X IsInstantiated
  /\ PendingMethods \in Seq(methodMap)
  /\ methodMap \in SUBSET Methods
  /\ IsProcessed \subseteq methodMap
  /\ SkipProcessingFlag \in [Methods -> 0..2]
  /\ VCallEntries \subseteq methodMap \cap IsVirtual
  /\ OverrideImpls \subseteq VCallEntries \X IsInstantiated \X methodMap
  /\ typeMap \in SUBSET Types
  /\ IsInstantiated \subseteq typeMap
  /\ IsCctorGenerated \subseteq Types
  /\ IsFinalizerGenerated \subseteq Types
  /\ FinalizerMethod \in [Types -> methodMap \cup {NoMethod}]
  /\ IsStringTypeResolved \in BOOLEAN

\* At the end everything the processed methods need is there: the methods they
\* call directly, static constructors, finalizers, and for each virtual call
\* the implementation of every type that is ever instantiated, in whatever
\* order calls and instantiations were found.
NothingMissing == phase = "done" => Closed(IsProcessed, IsInstantiated, VCallEntries)

\* At the end every entry is bound in the types it can meet, in each to the
\* implementation of that type, and in no other: the cases of the generated
\* dispatch function.
CallsBound ==
  phase = "done" =>
    OverrideImpls = {<<p[1], p[2], Impl[p[2]][p[1]]>> : p \in Receivers(VCallEntries, IsInstantiated)}

\* "The least subset that is needed" (README): no part of what is processed
\* would be enough, and nothing is instantiated or entered but by what is
\* processed.
NothingUnneeded ==
  phase = "done" =>
    /\ \A ms \in SUBSET IsProcessed : SelfContained(ms) => ms = IsProcessed
    /\ IsInstantiated \subseteq InstantiatedBy(IsProcessed)
    /\ VCallEntries \subseteq EntriesOf(IsProcessed)

\* The finalizer a type has been given, however many types below it came
\* first, is the nearest one on its chain.
FinalizersRight ==
  /\ \A t \in IsFinalizerGenerated : FinalizerMethod[t] = Finalizer[t]
  /\ phase = "done" => Made(IsProcessed) \subseteq IsFinalizerGenerated

\* ResolveAll ends: the rounds of methods and virtual calls do not go on for ever.
Ends == <>(phase = "done")
=============================================================================
