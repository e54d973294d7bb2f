--------------------------- MODULE FinalizerThread --------------------------
(***************************************************************************)
(* The finalizer thread of the runtime (IL2CPP_ENABLE_FINALIZER_THREAD).   *)
(* A collection puts unreachable objects that have a finalizer in a queue  *)
(* of the collector; the first thread that allocates slowly after it and   *)
(* sees the queue calls Notify, once for each collection.  The worker      *)
(* sleeps on a condition variable without a predicate: IsNotify is set and *)
(* the variable notified without the mutex, so a notification that comes   *)
(* while the worker is not asleep wakes nobody.                            *)
(***************************************************************************)
EXTENDS Naturals, FiniteSets

CONSTANTS
  Mutators,   \* the threads of the program
  Main,       \* the one that runs the static destructors at exit
  Objects     \* objects with a finalizer

ASSUME MainAssumption == Main \in Mutators

VARIABLES
  state,      \* state[o]: "live", "queued" or "finalized"
  IsNotify,
  IsExit,
  worker,     \* where the worker is
  caller,     \* caller[m]: where m is in Notify or in the destructor
  noted,      \* last_finalizer_notification = GC_gc_no: this collection was announced
  announced   \* history: the objects that were queued when IsNotify was set

vars == <<state, IsNotify, IsExit, worker, caller, noted, announced>>

Queued == {o \in Objects : state[o] = "queued"}

\* il2cpp_GC_Init has started the worker.
Init ==
  /\ state = [o \in Objects |-> "live"]
  /\ IsNotify = FALSE
  /\ IsExit = FALSE
  /\ worker = "test"
  /\ caller = [m \in Mutators |-> "run"]
  /\ noted = TRUE
  /\ announced = {}

Call(m, label) == caller' = [caller EXCEPT ![m] = label]

-----------------------------------------------------------------------------
(* The threads of the program.                                             *)

\* GC_finalize: the objects of S are unreachable.
Enqueue(S) == state' = [o \in Objects |-> IF o \in S THEN "queued" ELSE state[o]]

\* Thread m collects, and the number of collections grows.
Collect(m, S) ==
  /\ caller[m] = "run"
  /\ \A o \in S : state[o] = "live"
  /\ Enqueue(S)
  /\ noted' = FALSE
  /\ UNCHANGED <<IsNotify, IsExit, worker, caller, announced>>

\* GC_notify_or_invoke_finalizers finds a queue that this collection has not
\* announced.
FindQueue == Queued # {} /\ ~noted /\ noted' = TRUE

\* Thread m allocates and finds it.
Announce(m) ==
  /\ caller[m] = "run"
  /\ FindQueue
  /\ Call(m, "set")
  /\ UNCHANGED <<state, IsNotify, IsExit, worker, announced>>

SetNotify ==
  /\ IsNotify' = TRUE
  /\ announced' = announced \cup Queued

\* Mutant: the flag is set and the variable is not notified.
NotifyNone == UNCHANGED worker

\* notify_one: wakes the worker if it is asleep, else does nothing.
NotifyOne == worker' = IF worker = "asleep" THEN "awake" ELSE worker

\* Notify, in its two steps, then back to the program or to the destructor.
Notify(m, set, notify, back) ==
  \/ /\ caller[m] = set
     /\ SetNotify
     /\ Call(m, notify)
     /\ UNCHANGED <<state, IsExit, worker, noted>>
  \/ /\ caller[m] = notify
     /\ NotifyOne
     /\ Call(m, back)
     /\ UNCHANGED <<state, IsNotify, IsExit, noted, announced>>

FinalizerNotifier(m) == Notify(m, "set", "notify", "run")

\* ~FinalizerThread, when the program exits.
Exit ==
  /\ caller[Main] = "run"
  /\ IsExit' = TRUE
  /\ Call(Main, "exit set")
  /\ UNCHANGED <<state, IsNotify, worker, noted, announced>>

ExitNotify == Notify(Main, "exit set", "exit notify", "join")

Join ==
  /\ caller[Main] = "join"
  /\ worker = "done"
  /\ Call(Main, "joined")
  /\ UNCHANGED <<state, IsNotify, IsExit, worker, noted, announced>>

-----------------------------------------------------------------------------
(* WorkingThread.                                                          *)

At(label, next) == worker = label /\ worker' = next

\* Mutant: the loop does not look at IsExit_.
TestExitNever ==
  /\ At("test", "enter wait")
  /\ UNCHANGED <<state, IsNotify, IsExit, caller, noted, announced>>

TestExit ==
  /\ At("test", IF IsExit THEN "done" ELSE "enter wait")
  /\ UNCHANGED <<state, IsNotify, IsExit, caller, noted, announced>>

Wait ==
  /\ At("enter wait", "asleep")
  /\ UNCHANGED <<state, IsNotify, IsExit, caller, noted, announced>>

SpuriousWakeup ==
  /\ At("asleep", "awake")
  /\ UNCHANGED <<state, IsNotify, IsExit, caller, noted, announced>>

TestNotify ==
  /\ At("awake", IF IsNotify THEN "clear" ELSE "test")
  /\ UNCHANGED <<state, IsNotify, IsExit, caller, noted, announced>>

ClearNotify ==
  /\ At("clear", "invoke")
  /\ IsNotify' = FALSE
  /\ UNCHANGED <<state, IsExit, caller, noted, announced>>

\* Mutant: one finalizer for each turn of the loop.
InvokeOne ==
  /\ At("invoke", "awake")
  /\ IF Queued = {} THEN UNCHANGED state
     ELSE \E o \in Queued : state' = [state EXCEPT ![o] = "finalized"]
  /\ UNCHANGED <<IsNotify, IsExit, caller, noted, announced>>

\* GC_invoke_finalizers: until the queue is empty.
InvokeFinalizers ==
  /\ IF Queued = {} THEN At("invoke", "awake") /\ UNCHANGED state
     ELSE /\ At("invoke", "invoke")
          /\ \E o \in Queued : state' = [state EXCEPT ![o] = "finalized"]
  /\ UNCHANGED <<IsNotify, IsExit, caller, noted, announced>>

\* A finalizer allocates and so collects.
CollectInFinalizer(S) ==
  /\ At("invoke", "invoke")
  /\ \A o \in S : state[o] = "live"
  /\ Enqueue(S)
  /\ noted' = FALSE
  /\ UNCHANGED <<IsNotify, IsExit, caller, announced>>

\* It allocates again and finds the queue: the notifier runs on the worker.
AnnounceInFinalizer ==
  /\ At("invoke", "invoke")
  /\ FindQueue
  /\ SetNotify
  /\ UNCHANGED <<state, IsExit, caller>>

Work ==
  \/ TestExit \/ Wait \/ TestNotify \/ ClearNotify \/ InvokeFinalizers

Next ==
  \/ \E m \in Mutators : FinalizerNotifier(m) \/ Announce(m) \/ \E S \in SUBSET Objects : Collect(m, S)
  \/ Exit \/ ExitNotify \/ Join
  \/ Work \/ SpuriousWakeup
  \/ AnnounceInFinalizer \/ \E S \in SUBSET Objects : CollectInFinalizer(S)

Spec == Init /\ [][Next]_vars

\* Threads go on once they are in the runtime, the worker goes on unless it
\* sleeps, and the program keeps allocating until it exits, so that it keeps
\* collecting (what the loop of the test TestObject does).
FairSpec ==
  /\ Spec
  /\ WF_vars(Work)
  /\ WF_vars(ExitNotify \/ Join)
  /\ \A m \in Mutators :
       WF_vars(FinalizerNotifier(m)) /\ WF_vars(Announce(m)) /\ WF_vars(Collect(m, {}))

-----------------------------------------------------------------------------
(* Properties.                                                             *)

TypeOK ==
  /\ state \in [Objects -> {"live", "queued", "finalized"}]
  /\ IsNotify \in BOOLEAN
  /\ IsExit \in BOOLEAN
  /\ worker \in {"test", "enter wait", "asleep", "awake", "clear", "invoke", "done"}
  /\ caller \in [Mutators -> {"run", "set", "notify", "exit set", "exit notify", "join", "joined"}]
  /\ noted \in BOOLEAN
  /\ announced \subseteq Objects

\* A notification that woke nobody is not forgotten: as long as an announced
\* object waits for its finalizer, IsNotify is set or the worker is in the
\* loop that empties the queue.
StillAnnounced == announced \cap Queued # {} => IsNotify \/ worker = "invoke"

\* One announcement for each collection is enough: if an object is queued and
\* was not announced, the next allocation announces it or a thread is about to.
QueuedIsAnnounced ==
  Queued \ announced # {} => ~noted \/ \E m \in Mutators : caller[m] \in {"set", "exit set"}

\* No object that waits for its finalizer is overlooked.
NoneOverlooked == StillAnnounced /\ QueuedIsAnnounced

\* While the program keeps collecting, every queued object is finalized,
\* unless the program exits: a lost wakeup delays a finalizer until the next
\* collection.
QueuedIsFinalized ==
  \A o \in Objects : (state[o] = "queued") ~> (state[o] = "finalized" \/ IsExit)

\* A program that exits while the worker sleeps gets its join.
ExitFromSleep ==
  (caller[Main] = "exit set" /\ worker = "asleep") ~> (caller[Main] = "joined")
=============================================================================
