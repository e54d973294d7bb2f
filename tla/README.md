# A TLA+ model of il2cpp

il2cpp reads .NET modules, finds what a program needs of them, prints it as
C++, and comes with a small runtime and a build tool for the result. These
modules model the parts of it whose correctness depends on an order of steps or
on a boundary: the analysis of the program (types, virtual tables, needed
methods), the exception handling of the printed code and the order in which it
is printed, the initialisation of classes by several threads, locks, finalizers
with and without a thread of their own, checked arithmetic, the roots of the
collector, and the incremental build. TLC checks them on small instances, TLAPS
proves what it can for all instances. `PROJECT.json` lists the runs, the
mutants, the theorems, the lines each definition models and the hazards each
property is about.

## 1. Inventory

How the parts follow each other:

    IL modules --dnlib--> TypeManager (ResolveAll) --TypeX, MethodX, MethodTable-->
      GeneratorContext (TypeGenerator, MethodGenerator, StringGenerator)
      --> il2cppUnit_N.h/.cpp --BuildTheCode--> program, linked with src/runtime

| component | state | operations | what is hard | what makes it correct |
|---|---|---|---|---|
| TypeManager, resolution | queue of methods, VCallEntries, marks on types and methods | ResolveAll, BuildInstructions, AddMethod, ResolveVCalls, GenStaticCctor, GenFinalizerMethod | calls and instantiations found in any order; methods dropped from the queue and needed later | everything needed is processed, nothing else is, every virtual call is bound in every instantiated type, it ends |
| TypeManager, type graph | TypeMap, DerivedTypes, VarianceBaseTypes, groups of variant instances | ExpandType, ResolveVariances, TryLinkVariance | comparisons resolve types while groups are walked; links and expansions interleave | derivation is transitive, acyclic, sound and complete for variance |
| MethodTable | slots, EntryMap, NewSlotEntryMap, SameTypeReplaceMap | ResolveTable, ExpandTable, QueryCallVirt | overrides by slot, by name and by .override, generic instances, redirections | the method the CLI would run; queries end |
| MethodGenerator, exceptions | ExHandlerList; in the printed code lastException, leaveTarget, the variable of slot 0 | sort and combine clauses, GenExHandlerStart/End, GenLeave, GenEndfinally | one variable for all the handlers of a method | the code does what IL does |
| MethodGenerator, instructions | type stack, branch targets | one operation for each opcode | merges of stacks at branches | types agree at merges |
| MethodGenerator, dispatch | OverrideImpls of an entry | GenerateVFtn | one case for each type | no type is missing or named twice |
| GeneratorContext | units, their dependencies, type numbers | Generate, CompileUnitMerger | order by sums of orders, merging | declarations precede their uses |
| TypeGenerator, FieldX, StringGenerator | layouts, string numbers | print | text | compiles |
| Runtime, CallOnce | onceFlag, lockTid for each class | il2cpp_CallOnce | plain reads beside a CAS, nested and cyclic constructors, exceptions | a class is initialised once, before it is used, without deadlock |
| Runtime, finalizer thread | IsNotify_, IsExit_, condition variable, the collector's queue | Notify, WorkingThread, destructor | wait without predicate, notify without mutex | no finalizer is forgotten, exit ends |
| Runtime, locks | a flag of each object | SpinLock, SpinUnlock, CompareExchange | no owner, not re-entrant, finalizers run on threads that have locks | mutual exclusion, whoever is let in leaves a free lock |
| Runtime, numbers | none | checked arithmetic and conversions | boundaries of the integer types, short mantissas | the mathematical result or an overflow |
| Runtime, arrays, strings, roots | registered static fields | range checks, AddRoots, CommitRoots | ranges that touch, a bounded table | every static field is scanned, nothing else is handed over |
| bdwgc, finalization | fo_head, finalize_now, finalizer_nested, finalizer_skipped | GC_finalize, GC_invoke_finalizers, GC_notify_or_invoke_finalizers | finalizers inside allocations inside finalizers | nothing in use is freed, each finalizer runs once and some time |
| RuntimeInternals | none | C++ bodies of library methods | - | - |
| BuildTheCode | files, .comd and .hash files, .d files | Maker.Invoke, ActionUnit, CompileUnit, CompletedUpdate, PatchTextFile | builds that fail or are killed, hashes shared by stages, patched files | a finished build is fresh, and is not done twice |

`Il2cppContext` calls ResolveAll and Generate, `CodePrinter`, `Helper` and
`HierarchyDump` format text. dnlib, SharpZipLib and bdwgc are third-party code;
of bdwgc we model what the runtime configures and calls, the finalization and
GC_add_roots, without the abort of a full table. `src/deprecated` is an earlier
generator. PROJECT.json lists the status of each.

The components interact as follows. The queue of methods, the graph of types
and the method tables are filled by one thread, in one recursion: processing an
instruction resolves types, which expands others; when the queue is empty the
virtual calls and then the variances are resolved, which fills the queue again.
The generators only read what results. The printed code calls `il2cpp_CallOnce`
from every thread of the program, and `il2cpp_New` with a finalizer, which the
collector queues and the finalizer thread runs, or in a single-threaded build
whatever allocates. Locks and finalizers meet there: a finalizer may enter the
lock its own thread is in. The build tool only sees files.

## 2. Modules

### OnceSpec, CallOnce, MCCallOnce, CallOnceProofs

The static constructors of the printed program. `CallOnce` has one action for
each read, write or compare-and-swap of `il2cpp_CallOnce` (il2cpp.cpp):
`TestFlag` is the fast path, `Cas` the swap from 0 to 1, `Own` the write of
lockTid and the call of the constructor, `ReadTid` and `Recheck` the branch for
a thread that lost the swap to itself, `Spin` the last turn of the waiting
loop, `Commit` the swap to 2, `Throw` an exception that skips it. Constructors
touch other classes (`Uses`), so that calls nest (`chain`). `onceFlag` and
`lockTid` are the variables of the code, `pc` and `cls` the frame of the
innermost call; `passed` is a history variable. Memory is sequentially
consistent: plain accesses are to single bytes and words beside a full barrier.
`OnceSpec` is what callers rely on; `CallOnce` implements it under the mapping
at the end of the module.

### IlMethod, IlExceptions, ExceptionCode, MCExceptionCode

The exception handling MethodGenerator prints. `IlMethod` is a body:
instructions and clauses. `IlExceptions` says what `leave`, `rethrow`,
`endfinally`, `endfilter` and an exception mean in IL. `ExceptionCode` has the
translation (`HandlerList` sorts and combines the clauses as BuildInstructions
does, `LeaveThrough` is GetLeaveThroughHandlers, `Ending` the handlers whose
code is printed for an endfinally) and executes the C++ it prints, with its
variables `lastException`, `leaveTarget` and `tmp0`. Both run side by side: a
step is `CppStep(outcome) /\ IlStep(outcome)`. If the two disagreed on what can
be executed next TLC would report a deadlock or a violation of
`SameInstruction`; `Terminated` is the only other step.

### TypeGraph, MCTypeGraph, TypeGraphProofs

Types are pushed on a stack when they are resolved (`Push` is AddType and the
call of ExpandType), expand their parents first (`ResolveParent`) and then tell
everything above them (`FinishExpand`). `NextGroup`, `LinkPair`, `SkipPair`,
`ResolveArgument` and `EndTurn` are ResolveVariances, one step for each pair of
instances; `Compare` is IsDerivedType on signatures, by recursion on the elements of arrays
(`Compared` is one level of it), which may need a type that
is not resolved yet and then resolves it in the middle of the walk.
AddDerivedTypeRecursive is the least set closed under what it visits
(`Visited`), so that the module needs no recursive operator.

### Resolver, MCResolver, ResolverProofs

The queue of ResolveAll. There is one action for each kind of instruction that
refers to something (`Newobj`, `Callvirt`, `Call`, `CallReplaced`, `Ldsfld`,
`Box`, `Isinst`, `Ldstr`), one for taking a method from the queue (`Dequeue`),
and three for ResolveVCalls (`StartVCalls`, `ResolveVMethod`, `EndVCalls`).
Each adds to `methodMap`, `PendingMethods`, `IsInstantiated` and the marks of
static constructors and finalizers what the code adds, with
`SkipProcessingFlag` in its three values. The graph of types (`Derived`) and
the method tables (`Impl`, `Replace`) are constants: they change while the code
runs, but only in ways TypeGraph checks, and ResolveVCalls runs after them.
`Closed` and `SelfContained` say what a program needs, without a queue.

### FinalizerThread, MCFinalizerThread, FinalizerThreadProofs

The worker, its notifier and its destructor (il2cppGC.cpp), against a collector
that queues any set of objects at any collection, also in a finalizer. The
condition variable is the value "asleep" of the worker: `NotifyOne` wakes it
there and nowhere else, and it may wake for no reason.

### ObjectLife, Finalization, MCFinalization, FinalizationProofs

The other build: no thread, the collector runs the finalizers. A heap of
objects with one field, threads that allocate (`New`), `Store`, `Load`, `Drop`
and `Return`, and `Collect`, one stop of the world: `Finalize` is GC_finalize,
which puts the registered objects that are not marked in front of the queue,
`Reclaim` the sweep. Because il2cpp registers with
GC_REGISTER_FINALIZER_NO_ORDER and sets no java finalization, a queued object is
kept and what it refers to is freed. `SkipNested` and `Invoke` are
GC_notify_or_invoke_finalizers with the counters of GC_check_finalizer_nested,
`RunFinalizer` and `EndLoop` the loop of GC_invoke_finalizers, `frames` the C
stack of such loops and finalizers. `ObjectLife` is the promise: live, queued,
finalized, in this order and once; `LivesOnce` is the refinement.

### SpinLock, MCSpinLock, RuntimeProofs

Monitor. `Enter` starts to spin, `Acquire` is the compare and swap that
succeeds, `Exit` the end of the lock statement, `CarelessExit` a Monitor.Exit by
a thread that may not be in the lock, which the code does not notice: `opened`
remembers it, and mutual exclusion is claimed for the other locks. The locks a
thread is in and the finalizers it runs are one stack (`entered`).

### Numbers, RuntimeProofs

The macros IL2CPP_CHECK_*_OVERFLOW* and il2cpp_ConvOverflow. A type of
integers is named by its largest signed number, so that the widths are
parameters; reals are halves with a mantissa of a given length and the rounding
of IEEE 754. A behaviour is one call: `call` gets its `answer`.

### Roots, MCLibrary, RuntimeProofs

il2cpp_CommitRoots: `Begin`, `Extend` and `Finish` are the loop over the sorted
static fields, `AddRoots` is GC_add_roots_inner with its two tables (Windows
joins what overlaps, elsewhere only equal starts are found again); `Look` is one
turn of the second loop of the Windows table. MCLibrary runs it beside Numbers; a
behaviour is one call of either.

### MethodTable

A behaviour declares the classes of a chain one after the other, each the base of
the next, and resolves the table of each in the order of ResolveTable, one step for
each turn of its loops: `Start` copies the table of the base (DerivedTable),
`OverrideImplicitly` is ProcessMethod of the next method (by signature, those that
reuse a slot first), `StartPending` and `BindPending` give the interface entries that
an abstract base left open to the slots of their signature, `StartInterfaces` and
`BindInterface` bind one signature of a listed interface, `StartOverrides` and
`OverrideExplicitly` do one `.override`, or refuse it, and `FinishTable` adds the
openers of reused slots (`ExpandNewSlots`), checks that nothing is left unimplemented
and keeps the table. `table` is the table that is being built, `step` the loop and
`left` what the loop has left. The fields of a table are SlotMap, EntryMap,
SameTypeReplaceMap, NewSlotEntryMap and NotImplInterfaces. `Turn` is one turn of
QueryCallVirtImpl and `Query` as many as could make progress. What the tables are
compared with is written from the declarations alone: `Slot` (who opened the slot of
a method), `LastWord` and `Redirect` (who overrides it last, and how), `Runs`, and
`Binding` for interfaces.

### UnitMerger, MCGenerator, GeneratorProofs

CompileUnitMerger. `CompareUnit` is a comparison of the sort that needs an order
not yet known. GetDependOrder calls itself: `calls` is the stack of these calls,
each with the dependencies it has still to add, in any order since DeclDepends is
a HashSet, and with its sum; `AddOrder` is one turn of its loop and may start a
call, `ReturnOrder` saves the order. What is in `stackUnitNames` counts as 0.
`Sort` allows every order of equal units. `CollectUnit` and `EndPass` are the
passes that fill the bridge, `PlaceUnit` and `Finish` the units after it, full
whenever a nondeterministic choice says so. MCGenerator runs MethodTable and
UnitMerger; a behaviour is one chain or one merge.

### IncrementalBuild, MCIncrementalBuild, IncrementalBuildProofs

BuildTheCode. A content of a file is a version, or what it was made from; a
saved hash is the content it was computed from. `IsNeedDoAction`,
`IsFileChanged` and `IsHashChanged` are the tests of ActionUnit, `DoAction` the
command with its outcomes, `UpdateCommand` and `UpdateHash` CompletedUpdate one
file at a time, `PatchTextFile` the rewriting of an intermediate file,
`NextStage` and `Stop` Maker.Invoke. `Edit` and `ChangeOptions` are the user,
between two builds; `Kill` ends a build between any two steps. What BuildTheCode
makes of its arguments is in three assumptions, which the stages of Maker.Invoke
meet. BuildAssumption: a command has something on its command line, and reads at
least what its unit knows of, `Seen`: that, and what the .d file lists. It may read
more. StagesInOrder: a unit is of one stage and reads what earlier stages made, and
a patched file is a target that no stage before the patch reads. KeptAlone: a unit
that keeps its target when it fails, an llvm-link, is alone in its stage.

Two units of the last compile stage show what these leave open. il2cppGC.cpp
includes il2cpp.h, as the generated units of the first stage do, and there is one
hash file for each dependency: the first stage saves the hash of an edited il2cpp.h
and il2cppGC.cpp.bc is skipped. And the .d file of bdwgc/extra/gc.c has the name
that EscapePath gives the target, where ExpandDepends does not look for it, so the
unit knows of nothing that gc.c includes. FinishedIsFresh says that a finished build
is fresh for all the rest: whatever is in `Seen` and not in `SeenEarlier`.

## 3. Runs

| run | instance | shows |
|---|---|---|
| once_race | 3 threads, 2 classes, A's constructor uses B | InitialisedWhenUsed, OneActivation, SomeoneRuns (never all wait), CallsReturn under fairness |
| once_cyclic | 2 threads, 3 classes: A and B use each other, C itself; A and C may throw | WaitHasCause, ImplementsOnce |
| exc_tested | five bodies shaped like those of TestException, up to 27 instructions and 8 clauses, every choice of throwing calls and filter answers | SameInstruction, NoFinallySkipped, HandlerSeesException |
| exc_nested_return | return out of two try-finally blocks | finding: the inner finally block is skipped |
| variance | the program of the test Variance, and 168 orders of uses of variant interfaces and delegates, cut into rounds in every way | DerivedClosed, NoMutualDerivation, LinksJustified, LinksComplete |
| finalizer | 2 threads, 2 objects | NoneOverlooked; QueuedIsFinalized and ExitFromSleep under fairness |
| finalizers_inline | 2 threads, 4 objects, 3 with a finalizer | HeldIsKept, DanglingBehindFinalizer, LivesOnce; QueuedIsRun under fairness |
| locks | 2 threads, one of them careless, 2 locks, 3 levels of locks and finalizers | Excludes, NeverReentered; GoesIn under fairness |
| library | 5-bit arithmetic, conversions between 2 and 8 bits, mantissas of 3 and 6 bits; one to three variables at the addresses 1 to 10, up to 2 data segments, both platforms | SumExact, MulExact, ConvIntExact, ConvRealExact; RangesRight, WordsScanned |
| resolve | 10,944 programs over 12 methods and 6 types | NothingMissing, CallsBound, NothingUnneeded, FinalizersRight, Ends |
| generator | chains of three classes with up to three methods, three interfaces one of which extends another; every acyclic graph of 4 units and every graph of 3, with every set of bridge types | QueriesEnd, MostDerived, InterfaceBound; DeclaredFirst |
| build_versions | two generated units, the collector's two in a later stage, what links and optimises them: 7 units in 5 stages, 6 sources, 3 builds, 1 edit | FinishedIsFresh, NothingTwice |

The runs spend their properties on behaviour. The type invariants of CallOnce,
TypeGraph, FinalizerThread, Finalization, SpinLock and Resolver are proved
(section 4) and not run again; those of ExceptionCode and IncrementalBuild say
what the variables hold and are not checked.

Bounds, and why they are enough:

- CallOnce has no bound but the sets. Two threads already race for one class;
  the third is there for a chain of waits (a waits for b, which waits for c).
  Two classes are needed for nesting, three for a cycle beside a class that uses
  itself. The theorems hold for all sets.
- In the bodies of ExceptionCode a loop (`Retry`) leads back to a state seen
  before, so no bound is needed. The bodies hold every kind of clause, combined
  clauses, clauses of one block, nested blocks that start together.
- In TypeGraph the programs are short and their order and their rounds are
  free: an order matters only through which type, link or group came first. The
  kinds of variance, arrays and value types each occur as an argument.
- In Resolver the bodies are short (two instructions in the entry method, one
  elsewhere) and every combination is tried. An effect has one instruction as
  its cause and each method may be reached through another one, so a call found
  before or after an instantiation, in the same round or in a later one, occurs;
  the theorems hold for all bodies.
- FinalizerThread: a second object is queued while the first is finalized, a
  second thread notifies while the first does.
- Finalization: of the objects with a finalizer two may refer to others, one to
  an object without a finalizer (whose memory goes first) and one to another with
  a finalizer; three finalizers nest three deep on one thread, so that skipped
  allocations matter, while the other thread allocates or runs finalizers too.
- SpinLock: with two locks two threads may wait for each other, with three
  levels a thread may be in a lock, in a finalizer, and in a lock again.
- Numbers: the macros compare with the largest and the smallest number, so all
  boundaries occur at any width; 5 bits let every pair be tried. Mantissas of 3
  and 6 bits are shorter than some targets and longer than others, like float
  and double against 32 and 64 bits. All of it is proved for all widths and all
  mantissas.
- Roots: three ranges are needed for one that touches two; words of two cells
  and variables of 1, 2 and 4 cells give every alignment. Proved for all sets.
- MethodTable: three classes are a base that opens a slot, one that overrides it
  or hides it, and one that overrides again; a chain of redirections, of explicit
  overrides that swap two methods, and a class that lists an interface its base
  has bound already all occur. The third interface has a signature of its own, so that
  a class may bind two slots.
- UnitMerger: a chain of four with a shortcut tells a sum of orders from a
  depth; cycles have up to three units. Every order of every set is tried, which
  makes generator the longest run (372,711 distinct states). Proved for all
  graphs.
- IncrementalBuild: MaxBuilds and MaxEdits. A wrong skip takes one build that
  records, one edit and one build that believes the record; a third build leaves
  room for one that fails or is killed in between, and for NothingTwice. That is enough to
  find il2cppGC.bc out of date when `SeenEarlier` is taken out of FinishedIsFresh.
  The stage that optimises the file linked of all is like the one before the
  collector's and left out. Proved for any units, stages, builds and edits.

Deadlock is checked in once_race, exc_tested, variance, finalizer and
finalizers_inline. In once_cyclic constructors may wait for one that threw or for
each other in a cycle, which the CLI allows to break and this code does not; in
locks threads may wait for each other or themselves as any program with locks
may; Resolver, IncrementalBuild, library and generator end.

Fairness:

- CallOnce: each thread is scheduled again while it is in il2cpp_CallOnce or in
  a constructor, WF of `Step(t)`: the waiting loop yields. Nothing makes a
  program touch a class or throw.
- FinalizerThread: WF of the worker's own steps, of the steps of a thread that
  is in the notifier or the destructor, and of `Collect(m, {})`: the program goes
  on allocating, so it goes on collecting, as the loops of the test TestObject
  do. Without this a lost wakeup delays a finalizer for ever, and the code does
  not exclude that. A sleeping worker is not woken by fairness.
- Finalization: WF of each thread's steps in the collector, `Finalizers(t)`,
  which includes that it allocates again while the queue is not empty, and of
  `Return(t)`: finalizers end.
- SpinLock: WF of `Acquire(t)` and of `Leave(t)`: who spins is scheduled, and who
  is in a lock or a finalizer comes to its end if it does not wait. The lock is
  not fair, so a thread may wait for ever while others take the lock in turn:
  GoesIn says that there is no other reason.
- Resolver: WF of Next. ResolveAll is one thread that waits for nothing.

### Where code and texts disagree

exc_nested_return is a finding of PROJECT.json: a return out of two try-finally
blocks runs the outer one only, against the comment it quotes. Met on the way,
and described here without a run of their own:

- A try-finally inside of a catch block breaks the Debug.Assert at
  MethodGenerator.cs:997.
- A try-catch inside of a finally block clears lastException
  (MethodGenerator.cs:2948), so the exception under way is lost, and the
  endfinally finds none to throw again; in docs/异常处理.txt each try-finally has a
  variable of its own, currException.
- ResolveStringType marks String as instantiated only if the literal is what
  resolves the type (TypeManager.cs:1706).
- The hash of a header two stages include is saved by the first of them
  (Program.cs:401), so il2cppGC.cpp is not compiled again for an edit of il2cpp.h;
  nor is bdwgc/extra/gc.c for an edit of what it includes, since its .d file is
  not found (line 454). build_versions has both, and FinishedIsFresh names them.
- MethodTable: an explicit override of a method that itself reuses a slot is
  lost, since the query goes to the opener first; one of a method of another
  class sets EntryMap and not the slot (MethodTable.cs:709), so that a later
  class that lists an interface, or a call through the interface, finds the
  overridden method; one by a newslot body is not followed when that is
  overridden further. An interface method bound by signature in a derived class
  stays in its old slot (line 615), and a later override of that slot, or a class
  that binds another interface to it, takes the entry back. Where a class hides a
  method it also reuses and that method overrides explicitly, SlotMap of the signature
  is already the hiding method's. Explicit
  overrides that lead to each other make QueryCallVirtImpl loop for ever. A class
  that is not abstract is accepted when an abstract base left an interface open,
  though the check at line 735 is there for that. `Kept`, `Ring` and the
  premises of InterfaceBound leave exactly these chains out.
- Units that need each other, one through a field and the other through a
  parameter passed by value, are in an order that depends on the sort: the order
  of a unit computed in the middle of a cycle is memoised. DeclaredFirst says
  that all others are in order.

## 4. Proofs

All theorems are about the specifications the runs check, for all values of
the constants that satisfy the named assumptions.

**CallOnceProofs** (assumption: CallOnceAssumption, which only types the
constants). `InitialisedWhenUsed` is not inductive: that a thread past a touch of
a class is its owner needs that lockTid is only written by the thread that won
the CAS. The invariant adds: lockTid is unset while the flag is 0 (TidInv); at
most one thread is between CAS and write, and then the flag is 1 and lockTid
unset (OwnInv); a class on a chain has flag 1 and its thread in lockTid, once
(ChainInv); what each label knows (LabelInv). From it follow TypeCorrect,
UsesInitialised, NoSecondActivation, RecheckSucceeds, WaitsHaveCauses and
Refinement (`Spec => ImplementsOnce`). DeadlockFreedom assumes a rank that
decreases along `Uses`, and a second invariant that ranks decrease along chains:
of the waiting threads take the one in the class of least rank; whoever runs
that constructor does not wait.

**TypeGraphProofs** (TypeAssumption, SigAssumption, InstanceAssumption,
DefinitionsAcyclic, ComponentsAcyclic: what the compiler that wrote the module
guarantees of definitions and signatures). DerivedAlwaysClosed:
derivation is transitive along parents and links at every moment of every
order. It needs that what is above an expanded type is expanded (AboveInv), that
types on the stack have no links and nothing derived from them (ExpandedInv,
StackInv), and that a walk only compares expanded types (PairInv). Acyclicity
is used for the stack: a type in the middle of its expansion is not its own
parent. LinksStayJustified: a link is made when the comparison of each pair of
arguments holds, and the comparison looks at signatures, which are constant, or
at the derived types of an expanded type, which only grow.

NoCycles: no two types derive from each other and none from itself, so
AddDerivedTypeRecursive ends. That is not local: a cycle could run through links
made in different groups and rounds, over parents, contravariant arguments and
arrays. The invariant adds that links are between different instances of one
definition (LinkInv, GroupInv) and that the derived types are no more than what
climbs to a type (ReachedInv: every set that holds all above a type and all
above its own members holds what the type is derived from). Then suppose types
derive from each other, a knot. Since definitions are acyclic, a knot contains
no parent of its members, only instances of one definition with links between
them (KnotPeers). A link is justified position by position, so the arguments at
each position lead by conversions from any of them to all others, forwards or
backwards: they are tangled (KnotArguments). Tangled arrays have tangled
elements (TangledArrays), tangled signatures that are not arrays are classes
(TangledClasses), and tangled classes are a knot. Of all tangled signatures take
one that has none among its components: contradiction (NoTangles). For this the
recursion of IsDerivedType has to be unfolded: AnswersExist and CompareDef show
that a function with that recursion exists, by the simplest signature without one.
Conversion is not transitive as the code has it (an array converts to IList<>,
but not to what IList<> converts to), which is why the argument speaks of
tangled sets rather than of an order.

**FinalizerThreadProofs** (MainAssumption). NothingOverlooked: with the fact that
announced objects are not live, and the types (Typing), the two parts of
NoneOverlooked are inductive together.

**FinalizationProofs** (NAssumption). The invariant: the types (Typing), what is
held or queued is not freed (NothingHeldIsFreed), dangling references are behind
finalizers (OnlyQueuedDangle), the queue has no object twice and none that is
still registered, and objects not yet allocated refer to nothing. That the
reachable objects contain the roots and are closed under references is all that
is used of the mark phase (ReachableFacts). FinalizedOnce: Finalization
implements ObjectLife; a collection maps to Queue, taking from the queue to
Finalize, the rest to stutters.

**RuntimeProofs** has the proofs about SpinLock, Numbers and Roots, which share
nothing.

- SpinLock (LocksAssumption). Excluding: mutual exclusion and the meaning of the
  flag are inductive together; the thread that wins the swap saw 0, so nobody was
  in the lock, and the one that leaves was the only one. NotReentrant follows: who
  spins on a lock it is in finds the flag 1.
- Numbers (MaxAssumption, WidthAssumption, RealAssumption). Sums, Products and Conversions: the
  tests of add.ovf, sub.ovf, mul.ovf and the conversions of integers are exact for
  every width, but for the two products with -1, from one lemma for each operator.
  That of the products rests on AboveQuotient: a number is larger than a quotient
  rounded towards zero exactly if its product is larger than what was divided.
  RealConversionsExact: conversions of reals, for all widths and all mantissas of
  two bits or more, up to any `Halves`. The question is what max() + 1 and
  lowest() - 1 are once both the limit and the sum have been rounded to the
  mantissa of the source. AboveIs: always max() + 1, which is a power of two; the
  limit itself may round up to it, or (a tie) to the even one of two, and the sum
  then rounds back. BelowIs: lowest() - 1 while the target is no longer than the
  mantissa, and lowest() itself beyond, so the lowest number is refused. Then
  lowest() - 1/2 would be refused too, although it truncates to lowest(), but a
  real that long has no fraction (RoundMultiple: in halves it is even). The powers are a recursive function: that it exists
  (PowerExists) and grows is shown by least counterexamples.
- Roots (Distinct, WordAssumption, SegmentsAssumption). HandedApart: the variables
  are sorted and do not overlap, so the range in hand is what was taken since it
  began and ends before what comes next; cell by cell, a cell was handed over or
  is in hand exactly if its variable was taken. ScannedWhole adds the collector's
  table: every item the loop has passed is inside one range (HomeInv), every range
  inside one entry when its ends are rounded to words (TableInv), and no step
  makes an entry smaller or drops one that no other holds (AddKeeps). The second
  loop of the Windows table is a recursive function; that it exists, and that each
  of its turns keeps this, is shown by the least turn at which it would fail.

**IncrementalBuildProofs** (BuildAssumption, StagesInOrder, KeptAlone). That a
finished build is fresh depends on all that earlier builds have left: records of
builds that failed or were killed, hashes that another stage saved, targets that a
later command has replaced. A hash that fits a file says something only if it is not
that of an older content that has come back. So the invariant gives every content a
file has had, or a hash was saved of, the time it was first written (`Ages`): no two
contents of a file have one age, none has an age after now, and of two targets of a
unit the later one was made from no earlier sources, options and targets. What is on
the disk is the newest of its file (`Latest`), which is what a command reads
(ReadNewest); and a saved hash is no newer than what the units that own the file were
made from (`Saved`), where a unit owns the dependencies that no earlier stage has
(`Own`). Hence a hash that fits was computed from what the unit was made from
(HashFits), and a unit that is skipped is up to date for what it owns
(SkippedSettled). FinishedBuildsAreFresh follows stage by stage. The ages are
a bound variable of the invariant, and each step that writes extends them
(NewContent, HashWritten). NothingIsDoneTwice is the converse: what is
settled is skipped (SettledSkipped), whether its unit owns it or not.

**GeneratorProofs** (GraphsAreFinite, DeclarationAssumption). NeedsComeFirst: the orders are saved while
they are computed, so a unit may have an order that leaves out the units being
computed around it. These are the ones that need it (CallsInv: each call was made
by one whose unit needs its unit), hence an order is larger than those of all the
unit depends on, but for those that need it (`After`). The passes take units out
of a sorted list and leave the rest sorted, with each unit once (CollectInv); a
pass that takes none has left nothing that the bridge names, so the bridge is
closed (BridgeDone); the files continue the order of the list (FilesSorted).
EveryQueryEnds and CallsRunLastOverride are about tables, for chains of any length
whose explicit overrides name entries of interfaces (`InterfaceOverrides`, which is
said of the chain so far, whatever else can be declared; the run generator has such
chains, with overrides that a later class overrides or binds away). A table is `Good` for a set of methods if each of
its slots was opened by the current opener of its signature and holds exactly the
methods with that opener, and if each of these leads to the last override. Who opens
a slot (`OpensIn`, `Current`, `SlotIs`) and who is last (`LastIs`) is said of a set of
methods and without naming one by CHOOSE, so that the table in the making is good for
the methods processed so far (`Known`), and ProcessMethod is a lemma about one method
more (`Grows`, ProcessGood): those of a class come in an order in which a method that
reuses a slot is never after one that hides it. The lemmas from NearestIs to RunsLast
lead back to the definitions of MethodTable. A query ends in two turns because only
methods that reuse a slot are redirected, to an opener, and an opener is not.

InterfaceCallsBound, under the same hypothesis, is about the entries of interfaces,
with a second invariant (`BInv`): in every state the table says of each entry what
the classes so far bind it to. Between two classes (`Settled`) an entry that has a
binding leads to the last override of the slot of this method and is in that slot; one
that is listed and has none waits under its signature (`Waits`), which has no slot
(`Apart`); one that no class lists is nowhere. In the middle of a class `Mid`,
`AfterInterfaces` and `Claimed` say the same of each loop, up to an entry of a concrete
class that finds no slot (`Doomed`), for which the class is refused. Being in one slot
is not inductive: a class that binds an entry anew by its signature leaves it in the
slot an earlier `.override` put it in, and the next method processed for that slot
would take it back. `Stale` are those slots, and the last premise of InterfaceBound
(`Fair`) is what keeps their table entries untouched (StaleQuiet). What a class binds
an entry to is said step by step (`BindStep`), so that one class more is one step
(BindingShorter); BindingIs shows that Binding, which chooses a function with its
recursion, is one of the functions the invariant is about.

**ResolverProofs** (MethodAssumption, TypeAssumption, BasesAssumption,
FinalizerAssumption, EntriesAssumption, ConstructorAssumption). The invariant:
processed instructions have left their effects (EffectInv), a method that is
not to be skipped is processed or queued (KnownInv), only methods that virtual
or replaced calls may name are skipped (FlagInv), marked types have their static
constructor entered (CctorInv) and the finalizer of their chain (FinalizerInv),
the pairs ResolveVCalls is done with are bound (BoundInv) and nothing is bound
wrongly (BindingsInv). At the end the queue and the pairs are empty, and
NothingIsMissing, CallsAreBound and FinalizersCorrect follow. The lemma behind
the finalizers (ClimbFacts) is about chains of base types of any length: the
climb of GenFinalizerMethod ends, and every type it passes has the finalizer of
the type it ends at. NothingIsUnneeded needs no definition of what is reachable:
whatever is processed, and whatever waits and is not to be skipped, is in every
set of processed methods that contains what its own members need (NeededInv), so
at the end there is only one such set. The assumptions say that base types form chains, that
virtual calls do not name finalizers or methods that replace others, and that
newobj runs a constructor, which is not virtual.

Where a proof needs an induction over data it takes the least element of the set
of counterexamples (Least, LeastNumber), since no theorem with an operator as a
parameter can be used here.

Only model-checked: liveness (CallsReturn, QueuedIsFinalized, ExitFromSleep,
QueuedIsRun, GoesIn, Ends), which is beyond this prover; LinksComplete, which fails
when an argument is itself an instance of the group and comes late;
QueriesEnd, MostDerived and InterfaceBound where a class explicitly overrides a method
of a class, which the tables keep only in the cases `Kept` names; SameInstruction, NoFinallySkipped and HandlerSeesException, which hold
for the bodies of the run and fail for others.

## 5. What is left out

- Exceptions: the search for a handler and the running of finally blocks are
  one pass, as in C++; the two passes of the CLI differ when a filter has side
  effects. Filters do not throw. A null exception that is tested is a crash. Bodies
  in which a filter changes the slot the next handler tests are not in the run.
- Type graph: fields, enums, delegates, and the completion of GetHashCode and
  Equals. LinksComplete is checked for programs in which a variant instance is an
  argument of an instance of the same group only in the order of the test:
  in other orders a link of the last turn may be missing.
- Resolver: exception and runtime types that instructions add, fields, metadata.
  A virtual call of a method that replaces another is excluded by assumption.
- Build: edits happen between builds and make new contents: an edit that
  restores an old content, after a build that was killed, would find its old
  hash. Writes are atomic; commands do not fail without a word, though the code
  ignores exit codes; arguments and .d files are not parsed. Nothing is said of
  files that a command reads and its unit does not know of, nor of edits of those
  that an earlier stage has too.
- Finalizers: IsExit_ is a plain bool read by another thread; it is modelled as
  atomic. ExitFromSleep is about an exit while the worker sleeps: between its test
  of IsExit_ and its wait the wakeup of the destructor is lost.
- Finalization: memory is not used again, resurrected objects are not
  registered again, and the marker is exact; a conservative one keeps more.
- Locks: only Monitor.ReliableEnter and Exit have bodies (RuntimeInternals.cs:252).
- Numbers: conversions between reals, and the builtins some compilers have for
  the checks. Arrays and strings: range checks (CheckRange admits a range of
  length zero at the end), Array.Copy with its overlaps, the size of a new array,
  which is computed without a test for overflow, are translated by the C++
  compiler or covered by the tests.
- MethodTable: generic instances (ExpandTable replaces the parameters of a
  resolved table), the search of variant and array interfaces in QueryEntryMap.
- UnitMerger: the text of the units and what fills DeclDepends; 64-bit orders
  that wrap.
- CallOnce: the variant for single-threaded builds.
- The components marked not_modelled in PROJECT.json, with reasons there.

## 6. Plan

Done in this order: CallOnce, ExceptionCode, TypeGraph, Resolver,
FinalizerThread, IncrementalBuild; then SpinLock, Finalization, Numbers, Roots,
MethodTable, UnitMerger. Left, each where it has something to check that a test
would not reach:

1. A composition of MethodTable and Resolver in place of the constants `Impl` and
   `Replace`, which would check EntriesAssumption. It needs the methods of
   Resolver's programs to be declarations of MethodTable.
2. The expansion of tables of generic classes (ExpandTable), and the variant
   lookup of QueryEntryMap on top of TypeGraph.
3. `Dispatch`: the switch of GenerateVFtn from OverrideImpls: each instantiated
   receiver has one case.
4. `StackSim`: types of stack slots over branches.

Proofs to add: ExceptionCode for bodies without nested finally blocks, from facts about
HandlerList stated as assumptions; MethodTable for explicit overrides of class
methods, with a count of turns in place of two.
