------------------------------ MODULE SpinLock ------------------------------
(***************************************************************************)
(* The locks of System.Threading.Monitor.  Every object has a flag; Enter  *)
(* spins until it changes the flag from 0 to 1, Exit changes it from 1 to  *)
(* 0.  The flag does not say which thread has it, nor how often it was     *)
(* entered.  A thread may run finalizers inside an allocation, so the code *)
(* of a finalizer runs on a thread that already has some of the locks.     *)
(***************************************************************************)
EXTENDS Integers, Sequences, FiniteSets

CONSTANTS
  Threads,
  Locks,       \* the objects used as locks
  Careless,    \* threads that call Exit on a lock they may not have entered
  NoLock,
  MaxEntered   \* bound on the locks and finalizers a thread is in

ASSUME LocksAssumption ==
  /\ NoLock \notin Locks
  /\ Careless \subseteq Threads
  /\ MaxEntered \in Nat

Finalizer == NoLock    \* marks the start of a finalizer among the entered locks

VARIABLES
  flag,        \* flag[l]: Flags[0] of the object
  waiting,     \* waiting[t]: the lock that t spins on, or NoLock
  entered,     \* entered[t]: the locks t is in and the finalizers it runs, outermost first
  opened       \* history: locks opened by a thread that was not in them

vars == <<flag, waiting, entered, opened>>

\* IL2CPP_ATOMIC_CAS_8: the new contents of a word.
CAS(word, comparand, value) == IF word = comparand THEN value ELSE word

In(t, l) == \E i \in DOMAIN entered[t] : entered[t][i] = l
Last(s) == s[Len(s)]
Front(s) == SubSeq(s, 1, Len(s) - 1)

Init ==
  /\ flag = [l \in Locks |-> 0]
  /\ waiting = [t \in Threads |-> NoLock]
  /\ entered = [t \in Threads |-> <<>>]
  /\ opened = {}

Runs(t) == waiting[t] = NoLock
HasRoom(t) == Len(entered[t]) < MaxEntered

-----------------------------------------------------------------------------
\* The C# lock statement: Monitor.Enter calls ReliableEnter, which calls
\* il2cpp_SpinLock.
Enter(t, l) ==
  /\ Runs(t) /\ HasRoom(t)
  /\ waiting' = [waiting EXCEPT ![t] = l]
  /\ UNCHANGED <<flag, entered, opened>>

\* Mutant: the flag is read, and then set whatever it has become.
AcquireUnchecked(t) ==
  /\ ~Runs(t)
  /\ flag' = [flag EXCEPT ![waiting[t]] = 1]
  /\ entered' = [entered EXCEPT ![t] = Append(@, waiting[t])]
  /\ waiting' = [waiting EXCEPT ![t] = NoLock]
  /\ UNCHANGED opened

\* Mutant: the thread that is in the lock enters it again.
AcquireAgain(t) ==
  /\ ~Runs(t)
  /\ flag[waiting[t]] = 0 \/ In(t, waiting[t])
  /\ flag' = [flag EXCEPT ![waiting[t]] = 1]
  /\ entered' = [entered EXCEPT ![t] = Append(@, waiting[t])]
  /\ waiting' = [waiting EXCEPT ![t] = NoLock]
  /\ UNCHANGED opened

\* The compare and swap of il2cpp_SpinLock succeeds; one that fails changes
\* nothing, and is tried again after some yields or a millisecond of sleep.
Acquire(t) ==
  /\ ~Runs(t)
  /\ flag[waiting[t]] = 0
  /\ flag' = [flag EXCEPT ![waiting[t]] = CAS(@, 0, 1)]
  /\ entered' = [entered EXCEPT ![t] = Append(@, waiting[t])]
  /\ waiting' = [waiting EXCEPT ![t] = NoLock]
  /\ UNCHANGED opened

\* Mutant: the flag is not reset.
SpinUnlockNothing(l) == UNCHANGED flag

SpinUnlock(l) == flag' = [flag EXCEPT ![l] = CAS(@, 1, 0)]

\* The end of the lock statement, in its finally.
Exit(t) ==
  /\ Runs(t) /\ entered[t] # <<>> /\ Last(entered[t]) \in Locks
  /\ SpinUnlock(Last(entered[t]))
  /\ entered' = [entered EXCEPT ![t] = Front(@)]
  /\ UNCHANGED <<waiting, opened>>

\* Monitor.Exit outside of a lock statement.
CarelessExit(t, l) ==
  /\ t \in Careless /\ Runs(t)
  /\ SpinUnlock(l)
  /\ opened' = IF flag[l] = 1 THEN opened \cup {l} ELSE opened
  /\ UNCHANGED <<waiting, entered>>

\* An allocation runs a finalizer.
StartFinalizer(t) ==
  /\ Runs(t) /\ HasRoom(t)
  /\ entered' = [entered EXCEPT ![t] = Append(@, Finalizer)]
  /\ UNCHANGED <<flag, waiting, opened>>

EndFinalizer(t) ==
  /\ Runs(t) /\ entered[t] # <<>> /\ Last(entered[t]) = Finalizer
  /\ entered' = [entered EXCEPT ![t] = Front(@)]
  /\ UNCHANGED <<flag, waiting, opened>>

Leave(t) == Exit(t) \/ EndFinalizer(t)

Next ==
  \E t \in Threads :
    \/ Acquire(t) \/ Leave(t) \/ StartFinalizer(t)
    \/ \E l \in Locks : Enter(t, l) \/ CarelessExit(t, l)

Spec == Init /\ [][Next]_vars

\* A thread that spins tries again, and code in a lock or a finalizer ends.
FairSpec == Spec /\ \A t \in Threads : WF_vars(Acquire(t)) /\ WF_vars(Leave(t))

-----------------------------------------------------------------------------
(* Properties.                                                             *)

TypeOK ==
  /\ flag \in [Locks -> {0, 1}]
  /\ waiting \in [Threads -> Locks \cup {NoLock}]
  /\ entered \in [Threads -> Seq(Locks \cup {Finalizer})]
  /\ opened \subseteq Locks

\* A lock that no careless Exit has opened is entered once at most, by one
\* thread, its own finalizers included.
MutualExclusion ==
  \A l \in Locks \ opened, t, u \in Threads :
    \A i \in DOMAIN entered[t], j \in DOMAIN entered[u] :
      entered[t][i] = l /\ entered[u][j] = l => t = u /\ i = j

\* The flag of such a lock tells whether a thread is in it: when the last one
\* has left, the next may enter.
FlagIsTrue == \A l \in Locks \ opened : flag[l] = 1 <=> \E t \in Threads : In(t, l)

\* What programs rely on as long as they use Enter and Exit in pairs.
Excludes == MutualExclusion /\ FlagIsTrue

\* The lock is not re-entrant: a thread that enters what it is in, from a
\* nested lock statement or from a finalizer inside of one, spins until a
\* careless Exit opens the lock.
NeverReentered ==
  [][\A t \in Threads :
       LET l == waiting[t]
       IN  l # NoLock /\ In(t, l) /\ l \notin opened' => waiting'[t] = l]_vars

\* A thread spins for ever only on a lock that threads are in again and again,
\* or one of them for ever, perhaps itself: a lock that all have left, or that
\* a careless Exit has opened, lets it in.
GoesIn ==
  \A t \in Threads, l \in Locks :
    <>[](waiting[t] = l) => []<>(\E u \in Threads : In(u, l))
=============================================================================
