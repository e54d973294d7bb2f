------------------------------ MODULE OnceSpec ------------------------------
(***************************************************************************)
(* What the translated program relies on when a piece of code touches a    *)
(* class: the static constructor (cctor) of the class is begun by at most  *)
(* one thread, at most once, and a thread goes past the touch only when    *)
(* the cctor has finished or when that thread itself is running it (the    *)
(* cctor touching its own class, directly or through other cctors).        *)
(***************************************************************************)
CONSTANTS
  Threads,    \* threads of the translated program
  Classes,    \* classes that have a static constructor
  NoThread    \* the owner of a cctor nobody has begun

VARIABLES
  phase,      \* phase[c]: "idle", "running" or "done"
  owner,      \* owner[c]: the thread that began the cctor of c
  passed      \* passed[t]: the classes t went past a touch of

vars == <<phase, owner, passed>>

Init ==
  /\ phase = [c \in Classes |-> "idle"]
  /\ owner = [c \in Classes |-> NoThread]
  /\ passed = [t \in Threads |-> {}]

Begin(t, c) ==
  /\ phase[c] = "idle"
  /\ phase' = [phase EXCEPT ![c] = "running"]
  /\ owner' = [owner EXCEPT ![c] = t]
  /\ UNCHANGED passed

\* The owner finishes its cctor and, with it, the touch that started it.
Finish(t, c) ==
  /\ phase[c] = "running"
  /\ owner[c] = t
  /\ phase' = [phase EXCEPT ![c] = "done"]
  /\ passed' = [passed EXCEPT ![t] = @ \cup {c}]
  /\ UNCHANGED owner

Pass(t, c) ==
  /\ phase[c] = "done" \/ (phase[c] = "running" /\ owner[c] = t)
  /\ passed' = [passed EXCEPT ![t] = @ \cup {c}]
  /\ UNCHANGED <<phase, owner>>

Next == \E t \in Threads, c \in Classes : Begin(t, c) \/ Finish(t, c) \/ Pass(t, c)

Spec == Init /\ [][Next]_vars
=============================================================================
