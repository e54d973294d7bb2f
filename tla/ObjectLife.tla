----------------------------- MODULE ObjectLife -----------------------------
(***************************************************************************)
(* What the runtime promises about objects with a finalizer: an object is  *)
(* live until a collection queues it, a queued object is not collected and *)
(* its finalizer runs once, whoever runs it.                               *)
(***************************************************************************)
CONSTANT Objects    \* objects with a finalizer

VARIABLE state      \* state[o]: "live", "queued" or "finalized"

Init == state = [o \in Objects |-> "live"]

\* A collection finds that the objects of S are unreachable.
Queue(S) ==
  /\ \A o \in S : state[o] = "live"
  /\ state' = [o \in Objects |-> IF o \in S THEN "queued" ELSE state[o]]

\* The finalizer of a queued object starts.
Finalize(o) ==
  /\ state[o] = "queued"
  /\ state' = [state EXCEPT ![o] = "finalized"]

Next == (\E S \in SUBSET Objects : Queue(S)) \/ (\E o \in Objects : Finalize(o))

Spec == Init /\ [][Next]_state
=============================================================================
