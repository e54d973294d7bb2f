---------------------------- MODULE Finalization ----------------------------
(***************************************************************************)
(* Finalizers in a build without the finalizer thread.  The collector      *)
(* queues unreachable objects that il2cpp_New registered, and any thread   *)
(* that allocates may find the queue and run the finalizers inside its     *)
(* allocation: inside the code of the program or of another finalizer.     *)
(* Finalizers are registered with GC_REGISTER_FINALIZER_NO_ORDER and       *)
(* GC_java_finalization is 0, so a queued object is kept by its mark bit   *)
(* and what it refers to is not.                                           *)
(*                                                                         *)
(* An object has one field; objects are numbered as they are allocated,    *)
(* their memory is not used again and their fields have static types.      *)
(***************************************************************************)
EXTENDS Naturals, Sequences, FiniteSets

CONSTANTS
  Threads,
  N,              \* how many objects the program allocates (a bound)
  HasFinalizer,   \* those whose class has a finalizer
  CanRefer        \* <<o, p>> if the field of o has a type that p fits

ASSUME NAssumption ==
  N \in Nat /\ HasFinalizer \subseteq 1..N /\ CanRefer \subseteq (1..N) \X (1..N)

Object == 1..N
Null == 0         \* in a field
Loop == 0         \* in frames: the loop of GC_invoke_finalizers

VARIABLES
  allocated,      \* objects 1..allocated exist
  freed,          \* those the sweep has freed
  field,          \* field[o]: the object it refers to
  stack,          \* stack[t]: the references thread t holds
  fo_head,        \* objects with a registered finalizer
  finalize_now,   \* the queue, first to run first
  frames,         \* frames[t]: innermost first, finalizers (their objects) and loops
  nested,         \* nested[t]: finalizer_nested
  skipped         \* skipped[t]: finalizer_skipped

heap == <<allocated, freed, field, stack>>
queue == <<fo_head, finalize_now>>
level == <<nested, skipped>>
vars == <<heap, queue, frames, level>>

Elements(s) == {s[i] : i \in DOMAIN s}
Used == 1..allocated \ freed
Running(t) == Elements(frames[t]) \ {Loop}
Holds(t) == stack[t] \cup Running(t)

\* Thread t executes code of the program or of a finalizer.
InCode(t) == frames[t] # <<>> => Head(frames[t]) # Loop

Push(t, frame) == frames' = [frames EXCEPT ![t] = <<frame>> \o @]
Pop(t) == frames' = [frames EXCEPT ![t] = Tail(@)]

Init ==
  /\ allocated = 0
  /\ freed = {}
  /\ field = [o \in Object |-> Null]
  /\ stack = [t \in Threads |-> {}]
  /\ fo_head = {}
  /\ finalize_now = <<>>
  /\ frames = [t \in Threads |-> <<>>]
  /\ nested = [t \in Threads |-> 0]
  /\ skipped = [t \in Threads |-> 0]

-----------------------------------------------------------------------------
(* Code of the program and of finalizers.                                  *)

\* il2cpp_New, and il2cpp_GC_RegisterFinalizer.
New(t) ==
  /\ InCode(t) /\ allocated < N
  /\ allocated' = allocated + 1
  /\ stack' = [stack EXCEPT ![t] = @ \cup {allocated'}]
  /\ fo_head' = fo_head \cup ({allocated'} \cap HasFinalizer)
  /\ UNCHANGED <<freed, field, finalize_now, frames, level>>

Store(t, o, p) ==
  /\ InCode(t) /\ o \in Holds(t)
  /\ p = Null \/ (p \in Holds(t) /\ <<o, p>> \in CanRefer)
  /\ field' = [field EXCEPT ![o] = p]
  /\ UNCHANGED <<allocated, freed, stack, queue, frames, level>>

\* To load a reference to freed memory is undefined; the model stops there.
Load(t, o) ==
  /\ InCode(t) /\ o \in Holds(t) /\ field[o] \in Used
  /\ stack' = [stack EXCEPT ![t] = @ \cup {field[o]}]
  /\ UNCHANGED <<allocated, freed, field, queue, frames, level>>

Drop(t, o) ==
  /\ InCode(t) /\ o \in stack[t]
  /\ stack' = [stack EXCEPT ![t] = @ \ {o}]
  /\ UNCHANGED <<allocated, freed, field, queue, frames, level>>

Return(t) ==
  /\ InCode(t) /\ frames[t] # <<>>
  /\ Pop(t)
  /\ UNCHANGED <<heap, queue, level>>

-----------------------------------------------------------------------------
(* A collection, with the world stopped.                                   *)

Closed(M) == \A o \in M : field[o] \in M \cup {Null}

\* Mutant: the mark phase does not follow what it marks.
ReachableInOneStep(R) == R \cup ({field[o] : o \in R} \ {Null})

\* What the mark phase marks, starting from the objects of R.
Reachable(R) == {o \in Object : \A M \in SUBSET Object : R \subseteq M /\ Closed(M) => o \in M}

\* Mutant: the queue is not a root.
RootsWithoutQueue == UNION {Holds(t) : t \in Threads}

\* Stacks, the queue, and the entries whose finalizer runs.
Roots == Elements(finalize_now) \cup UNION {Holds(t) : t \in Threads}
Marked == Reachable(Roots)

\* GC_finalize: registered objects that are not marked, in the order in which
\* the table holds them, are put in front of the queue and get a mark bit.
Dead == fo_head \ Marked
Orders(S) == {s \in [1..Cardinality(S) -> S] : Elements(s) = S}

\* Mutant: a queued object stays in the table.
FinalizeAgain ==
  /\ \E s \in Orders(Dead) : finalize_now' = s \o finalize_now
  /\ UNCHANGED fo_head

Finalize ==
  /\ \E s \in Orders(Dead) : finalize_now' = s \o finalize_now
  /\ fo_head' = fo_head \ Dead

\* Everything without a mark bit is freed.
Reclaim ==
  /\ freed' = 1..allocated \ (Marked \cup Dead)
  /\ field' = [o \in Object |-> IF o \in freed' THEN Null ELSE field[o]]

Collect(t) ==
  /\ InCode(t) /\ Finalize /\ Reclaim
  /\ UNCHANGED <<allocated, stack, frames, level>>

-----------------------------------------------------------------------------
(* GC_notify_or_invoke_finalizers, which slow allocations and GC.Collect   *)
(* call; GC_check_finalizer_nested decides.                                *)

Due(t) == nested[t] = 0 \/ skipped[t] + 1 >= 2^nested[t]

SkipNested(t) ==
  /\ InCode(t) /\ finalize_now # <<>> /\ ~Due(t)
  /\ skipped' = [skipped EXCEPT ![t] = @ + 1]
  /\ UNCHANGED <<heap, queue, frames, nested>>

\* Mutant: finalizers are run on demand, and nothing demands it.
InvokeOnDemand(t) == FALSE /\ UNCHANGED vars

Invoke(t) ==
  /\ InCode(t) /\ finalize_now # <<>> /\ Due(t)
  /\ nested' = [nested EXCEPT ![t] = @ + 1]
  /\ skipped' = [skipped EXCEPT ![t] = IF nested[t] = 0 THEN @ ELSE 0]
  /\ Push(t, Loop)
  /\ UNCHANGED <<heap, queue>>

\* GC_invoke_finalizers takes the next object and calls its finalizer.
RunFinalizer(t) ==
  /\ ~InCode(t) /\ finalize_now # <<>>
  /\ finalize_now' = Tail(finalize_now)
  /\ Push(t, Head(finalize_now))
  /\ UNCHANGED <<heap, fo_head, level>>

\* The queue is empty: back into the allocation.
EndLoop(t) ==
  /\ ~InCode(t) /\ finalize_now = <<>>
  /\ nested' = [nested EXCEPT ![t] = 0]
  /\ Pop(t)
  /\ UNCHANGED <<heap, queue, skipped>>

-----------------------------------------------------------------------------
Code(t) ==
  \/ New(t) \/ Collect(t) \/ Return(t)
  \/ \E o \in Object : Load(t, o) \/ Drop(t, o) \/ \E p \in Object \cup {Null} : Store(t, o, p)

Finalizers(t) == SkipNested(t) \/ Invoke(t) \/ RunFinalizer(t) \/ EndLoop(t)

Next == \E t \in Threads : Code(t) \/ Finalizers(t)

Spec == Init /\ [][Next]_vars

\* Threads go on: finalizers return, and allocations come again and again.
FairSpec == Spec /\ \A t \in Threads : WF_vars(Finalizers(t)) /\ WF_vars(Return(t))

-----------------------------------------------------------------------------
(* Properties.                                                             *)

TypeOK ==
  /\ allocated \in 0..N
  /\ freed \subseteq 1..allocated
  /\ field \in [Object -> 0..allocated]
  /\ stack \in [Threads -> SUBSET (1..allocated)]
  /\ fo_head \subseteq 1..allocated \cap HasFinalizer
  /\ finalize_now \in Seq(1..allocated \cap HasFinalizer)
  /\ frames \in [Threads -> Seq(0..allocated)]
  /\ nested \in [Threads -> Nat] /\ skipped \in [Threads -> Nat]

\* Whatever a thread holds, waits in the queue or is being finalized has not
\* been freed.
HeldIsKept ==
  freed \cap (Elements(finalize_now) \cup UNION {Holds(t) : t \in Threads}) = {}

\* A reference to freed memory is in an object with a finalizer that has been
\* queued, and nowhere else: the collector frees what a queued object refers
\* to before its finalizer runs, and nothing more than that.
DanglingBehindFinalizer ==
  \A o \in Used : field[o] \in freed => o \in HasFinalizer \ fo_head

\* Each finalizer runs once, for an object that was queued.
Life == INSTANCE ObjectLife WITH
  Objects <- HasFinalizer,
  state <- [o \in HasFinalizer |->
              IF o \in Elements(finalize_now) THEN "queued"
              ELSE IF o > allocated \/ o \in fo_head THEN "live" ELSE "finalized"]
LivesOnce == Life!Spec

\* Every queued object has its finalizer run, however many allocations skip.
QueuedIsRun ==
  \A o \in HasFinalizer : o \in Elements(finalize_now) ~> o \notin Elements(finalize_now)
=============================================================================
