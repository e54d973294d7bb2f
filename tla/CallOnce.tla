------------------------------ MODULE CallOnce ------------------------------
(***************************************************************************)
(* Static constructors of the translated program.  The translator wraps    *)
(* every cctor in a function whose body is IL2CPP_CALL_CCTOR, that is      *)
(* il2cpp_CallOnce on a byte onceFlag and a word lockTid that are static   *)
(* to the wrapper, and puts a call of the wrapper before every use of a    *)
(* static field of the class from another class, at the start of its       *)
(* constructors and of its static methods that use its static fields.      *)
(*                                                                         *)
(* Each read, write and compare-and-swap of onceFlag and lockTid is one    *)
(* action.  Memory is sequentially consistent: the CAS is a full barrier   *)
(* and the plain accesses are single bytes or words.                       *)
(***************************************************************************)
EXTENDS Naturals, Sequences

CONSTANTS
  Threads,    \* threads of the translated program
  Classes,    \* classes that have a static constructor
  Uses,       \* Uses[c]: the classes the cctor of c may touch
  MayFail,    \* the classes whose cctor may end with an exception
  NoThread    \* lockTid before it is written

ASSUME CallOnceAssumption ==
  /\ Uses \in [Classes -> SUBSET Classes]
  /\ MayFail \subseteq Classes
  /\ NoThread \notin Threads

VARIABLES
  onceFlag,   \* onceFlag[c]: 0 not begun, 1 begun, 2 finished
  lockTid,    \* lockTid[c]: the thread that won the CAS, once it has said so
  pc,         \* pc[t]: where t is in il2cpp_CallOnce, "body" outside of it
  cls,        \* cls[t]: the class of the call t is in
  chain,      \* chain[t]: the classes whose cctor t is running, outermost first
  todo,       \* todo[c]: what the cctor of c may still touch
  passed      \* history: the classes t has returned from a call for

vars == <<onceFlag, lockTid, pc, cls, chain, todo, passed>>

Labels == {"body", "test", "cas", "own", "readTid", "recheck", "spin", "unreachable"}

Running(t) == chain[t][Len(chain[t])]       \* the innermost cctor of t
Unwind(t) == [chain EXCEPT ![t] = SubSeq(@, 1, Len(@) - 1)]
Goto(t, label) == pc' = [pc EXCEPT ![t] = label]

Return(t) ==
  /\ Goto(t, "body")
  /\ passed' = [passed EXCEPT ![t] = @ \cup {cls[t]}]

Init ==
  /\ onceFlag = [c \in Classes |-> 0]
  /\ lockTid = [c \in Classes |-> NoThread]
  /\ pc = [t \in Threads |-> "body"]
  /\ cls \in [Threads -> Classes]
  /\ chain = [t \in Threads |-> <<>>]
  /\ todo = Uses
  /\ passed = [t \in Threads |-> {}]

-----------------------------------------------------------------------------
(* Calls of the wrapper.                                                   *)

\* Code outside any cctor touches a class.
Touch(t, c) ==
  /\ pc[t] = "body"
  /\ chain[t] = <<>>
  /\ Goto(t, "test")
  /\ cls' = [cls EXCEPT ![t] = c]
  /\ UNCHANGED <<onceFlag, lockTid, chain, todo, passed>>

\* Mutant: a wrapper call is generated for classes the cctor does not use.
TouchAnyInCctor(t, c) ==
  /\ pc[t] = "body"
  /\ chain[t] # <<>>
  /\ Goto(t, "test")
  /\ cls' = [cls EXCEPT ![t] = c]
  /\ UNCHANGED <<onceFlag, lockTid, chain, todo, passed>>

\* The innermost cctor of t touches one of the classes it uses.
TouchInCctor(t, c) ==
  /\ pc[t] = "body"
  /\ chain[t] # <<>>
  /\ c \in todo[Running(t)]
  /\ Goto(t, "test")
  /\ cls' = [cls EXCEPT ![t] = c]
  /\ todo' = [todo EXCEPT ![Running(t)] = @ \ {c}]
  /\ UNCHANGED <<onceFlag, lockTid, chain, passed>>

-----------------------------------------------------------------------------
(* il2cpp_CallOnce.                                                        *)

\* Mutant: the fast path is taken by any flag that is not 0.
TestFlagBegun(t) ==
  /\ pc[t] = "test"
  /\ IF onceFlag[cls[t]] # 0 THEN Return(t) ELSE Goto(t, "cas") /\ UNCHANGED passed
  /\ UNCHANGED <<onceFlag, lockTid, cls, chain, todo>>

TestFlag(t) ==
  /\ pc[t] = "test"
  /\ \/ onceFlag[cls[t]] = 2 /\ Return(t)
     \/ onceFlag[cls[t]] # 2 /\ Goto(t, "cas") /\ UNCHANGED passed
  /\ UNCHANGED <<onceFlag, lockTid, cls, chain, todo>>

\* Mutant: a store in place of the compare-and-swap.
PlainStore(t) ==
  /\ pc[t] = "cas"
  /\ onceFlag' = [onceFlag EXCEPT ![cls[t]] = 1]
  /\ Goto(t, "own")
  /\ UNCHANGED <<lockTid, cls, chain, todo, passed>>

Cas(t) ==
  /\ pc[t] = "cas"
  /\ \/ /\ onceFlag[cls[t]] = 0
        /\ onceFlag' = [onceFlag EXCEPT ![cls[t]] = 1]
        /\ Goto(t, "own")
     \/ /\ onceFlag[cls[t]] # 0
        /\ Goto(t, "readTid")
        /\ UNCHANGED onceFlag
  /\ UNCHANGED <<lockTid, cls, chain, todo, passed>>

\* lockTid = il2cpp_ThreadID(), and invokeFunc() begins.
Own(t) ==
  /\ pc[t] = "own"
  /\ lockTid' = [lockTid EXCEPT ![cls[t]] = t]
  /\ chain' = [chain EXCEPT ![t] = Append(@, cls[t])]
  /\ Goto(t, "body")
  /\ UNCHANGED <<onceFlag, cls, todo, passed>>

\* Mutants: the second CAS adds 2 to the flag; or it is left out.
CommitAs(t, flag) ==
  /\ pc[t] = "body"
  /\ chain[t] # <<>>
  /\ todo[Running(t)] = {}
  /\ onceFlag' = [onceFlag EXCEPT ![Running(t)] = flag]
  /\ chain' = Unwind(t)
  /\ passed' = [passed EXCEPT ![t] = @ \cup {Running(t)}]
  /\ UNCHANGED <<lockTid, pc, cls, todo>>
CommitForgotten(t) == CommitAs(t, 1)

\* invokeFunc() returns; the second CAS only stores 2 over 1.
Commit(t) ==
  /\ pc[t] = "body"
  /\ chain[t] # <<>>
  /\ todo[Running(t)] = {}
  /\ onceFlag' = [onceFlag EXCEPT ![Running(t)] = IF @ = 1 THEN 2 ELSE @]
  /\ chain' = Unwind(t)
  /\ passed' = [passed EXCEPT ![t] = @ \cup {Running(t)}]
  /\ UNCHANGED <<lockTid, pc, cls, todo>>

\* An exception leaves invokeFunc(): the stores after it are skipped.  The
\* caller, if it is a cctor, may catch it (and go on) or fail in its turn.
Throw(t) ==
  /\ pc[t] = "body"
  /\ chain[t] # <<>>
  /\ Running(t) \in MayFail
  /\ chain' = Unwind(t)
  /\ UNCHANGED <<onceFlag, lockTid, pc, cls, todo, passed>>

\* Mutant: a thread does not recognise itself in lockTid.
ReadTidSpins(t) ==
  /\ pc[t] = "readTid"
  /\ Goto(t, "spin")
  /\ UNCHANGED <<onceFlag, lockTid, cls, chain, todo, passed>>

ReadTid(t) ==
  /\ pc[t] = "readTid"
  /\ Goto(t, IF lockTid[cls[t]] # t THEN "spin" ELSE "recheck")
  /\ UNCHANGED <<onceFlag, lockTid, cls, chain, todo, passed>>

\* The class is being initialised by this very thread: let it through.
Recheck(t) ==
  /\ pc[t] = "recheck"
  /\ IF onceFlag[cls[t]] = 1 THEN Return(t)
     ELSE Goto(t, "unreachable") /\ UNCHANGED passed
  /\ UNCHANGED <<onceFlag, lockTid, cls, chain, todo>>

\* Mutant: no waiting loop.
NoSpin(t) ==
  /\ pc[t] = "spin"
  /\ Return(t)
  /\ UNCHANGED <<onceFlag, lockTid, cls, chain, todo>>

\* The last turn of the loop that yields while onceFlag # 2.
Spin(t) ==
  /\ pc[t] = "spin"
  /\ onceFlag[cls[t]] = 2
  /\ Return(t)
  /\ UNCHANGED <<onceFlag, lockTid, cls, chain, todo>>

-----------------------------------------------------------------------------
Step(t) ==
  \/ \E c \in Classes : TouchInCctor(t, c)
  \/ TestFlag(t) \/ Cas(t) \/ Own(t) \/ Commit(t)
  \/ ReadTid(t) \/ Recheck(t) \/ Spin(t)

Next ==
  \E t \in Threads :
    \/ Step(t)
    \/ Throw(t)
    \/ \E c \in Classes : Touch(t, c)

Spec == Init /\ [][Next]_vars

\* A thread inside il2cpp_CallOnce or inside a cctor is scheduled again and
\* again, and cctors do not run forever; nothing makes a program touch a class.
FairSpec == Spec /\ \A t \in Threads : WF_vars(Step(t))

-----------------------------------------------------------------------------
(* Properties.                                                             *)

TypeOK ==
  /\ onceFlag \in [Classes -> 0..2]
  /\ lockTid \in [Classes -> Threads \cup {NoThread}]
  /\ pc \in [Threads -> Labels]
  /\ cls \in [Threads -> Classes]
  /\ chain \in [Threads -> Seq(Classes)]
  /\ todo \in [Classes -> SUBSET Classes]
  /\ passed \in [Threads -> SUBSET Classes]

\* Code never runs past a touch of a class that is not initialised, unless it
\* belongs to the thread that began the cctor: what il2cpp_CallOnce is for.
InitialisedWhenUsed ==
  \A t \in Threads : \A c \in passed[t] : onceFlag[c] = 2 \/ lockTid[c] = t

\* No cctor has two activations at a time, in two threads or nested in one.
InCctor(t, c) ==
  \/ pc[t] = "own" /\ cls[t] = c
  \/ \E i \in 1..Len(chain[t]) : chain[t][i] = c

OneActivation ==
  /\ \A t, u \in Threads, c \in Classes : InCctor(t, c) /\ InCctor(u, c) => t = u
  /\ \A t \in Threads : \A i, j \in 1..Len(chain[t]) : chain[t][i] = chain[t][j] => i = j

\* The branch marked IL2CPP_UNREACHABLE is: a thread that finds its own id in
\* lockTid after a failed CAS finds 1 in onceFlag.
UnreachableIsUnreachable == \A t \in Threads : pc[t] # "unreachable"

\* A cctor that threw: begun, never to be finished, and run by nobody.
Abandoned(c) == onceFlag[c] = 1 /\ \A t \in Threads : ~InCctor(t, c)

Blocked(t) == pc[t] = "spin" /\ onceFlag[cls[t]] # 2

\* A thread waits only for a cctor that another thread is running (never for
\* its own, which would be a deadlock of one), or that an exception left.
WaitHasCause ==
  \A t \in Threads : Blocked(t) =>
    \/ Abandoned(cls[t])
    \/ \E u \in Threads \ {t} : InCctor(u, cls[t])

\* When the cctors do not use each other in a cycle, the threads never all
\* wait: some thread can go on, or waits for a class whose cctor threw.
SomeoneRuns ==
  (\A t \in Threads : Blocked(t)) => \E t \in Threads : Abandoned(cls[t])

\* Every call of il2cpp_CallOnce returns.
CallsReturn == \A t \in Threads : (pc[t] # "body") ~> (pc[t] = "body")

\* The code implements OnceSpec; a cctor counts as begun when its thread has
\* written lockTid.
Once == INSTANCE OnceSpec WITH
  phase <- [c \in Classes |-> IF onceFlag[c] = 2 THEN "done"
                              ELSE IF lockTid[c] = NoThread THEN "idle" ELSE "running"],
  owner <- lockTid
ImplementsOnce == Once!Spec
=============================================================================
