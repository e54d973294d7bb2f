----------------------- MODULE FinalizerThreadProofs ------------------------
(* Proofs about FinalizerThread, for all sets of threads and of objects.   *)
EXTENDS FinalizerThread, TLAPS

\* An announced object has been queued, and is never live again.
AnnouncedNotLive == \A o \in announced : state[o] # "live"

IInv == TypeOK /\ AnnouncedNotLive /\ StillAnnounced /\ QueuedIsAnnounced

LEMMA InitInv == Init => IInv
  BY DEF Init, IInv, TypeOK, AnnouncedNotLive, StillAnnounced, QueuedIsAnnounced, Queued

\* A collection queues live objects only: none of them is announced, and all
\* that were queued still are.
LEMMA EnqueueLive ==
  ASSUME IInv, NEW S \in SUBSET Objects, \A o \in S : state[o] = "live", Enqueue(S)
  PROVE  /\ state' \in [Objects -> {"live", "queued", "finalized"}]
         /\ Queued' = Queued \cup S
         /\ announced \cap S = {}
         /\ \A o \in announced : state'[o] # "live"
  BY DEF IInv, TypeOK, AnnouncedNotLive, Enqueue, Queued

\* Every step keeps the invariant.
LEMMA InvStep == IInv /\ [Next]_vars => IInv'
<1> SUFFICES ASSUME IInv, [Next]_vars PROVE IInv'
  OBVIOUS
<1> USE MainAssumption DEF Call, At
<1>1. ASSUME NEW m \in Mutators, NEW S \in SUBSET Objects, Collect(m, S) PROVE IInv'
  <2>1. /\ state' \in [Objects -> {"live", "queued", "finalized"}]
        /\ Queued' = Queued \cup S
        /\ announced \cap S = {}
        /\ \A o \in announced : state'[o] # "live"
    BY <1>1, EnqueueLive DEF Collect
  <2>2. TypeOK' /\ AnnouncedNotLive'
    BY <1>1, <2>1 DEF Collect, IInv, TypeOK, AnnouncedNotLive
  <2>3. StillAnnounced'
    BY <1>1, <2>1 DEF Collect, IInv, StillAnnounced
  <2>4. QueuedIsAnnounced'
    BY <1>1, <2>1 DEF Collect, IInv, TypeOK, QueuedIsAnnounced
  <2> QED BY <2>2, <2>3, <2>4 DEF IInv
<1>2. ASSUME NEW m \in Mutators, NEW set, NEW notify, NEW back,
             {notify, back} \subseteq {"run", "notify", "exit notify", "join"},
             set \in {"set", "exit set"}, notify \notin {"set", "exit set"},
             Notify(m, set, notify, back)
      PROVE  IInv'
  <2>1. CASE caller[m] = set /\ SetNotify /\ Call(m, notify) /\ UNCHANGED <<state, IsExit, worker, noted>>
    BY <2>1, <1>2 DEF SetNotify, Queued, IInv, TypeOK, AnnouncedNotLive, StillAnnounced, QueuedIsAnnounced
  <2>2. CASE caller[m] = notify /\ NotifyOne /\ Call(m, back) /\ UNCHANGED <<state, IsNotify, IsExit, noted, announced>>
    <3>1. TypeOK' /\ AnnouncedNotLive'
      BY <2>2, <1>2 DEF NotifyOne, IInv, TypeOK, AnnouncedNotLive
    <3>2. StillAnnounced'
      BY <2>2 DEF NotifyOne, Queued, IInv, StillAnnounced
    <3>3. QueuedIsAnnounced'
      BY <2>2, <1>2 DEF Queued, IInv, TypeOK, QueuedIsAnnounced
    <3> QED BY <3>1, <3>2, <3>3 DEF IInv
  <2> QED BY <1>2, <2>1, <2>2 DEF Notify
<1>3. ASSUME NEW m \in Mutators, FinalizerNotifier(m) PROVE IInv'
  <2>1. Notify(m, "set", "notify", "run")
    BY <1>3 DEF FinalizerNotifier
  <2>2. /\ {"notify", "run"} \subseteq {"run", "notify", "exit notify", "join"}
        /\ "set" \in {"set", "exit set"} /\ "notify" \notin {"set", "exit set"}
    OBVIOUS
  <2> QED BY ONLY <2>1, <2>2, <1>2
<1>4. CASE ExitNotify
  <2>1. Notify(Main, "exit set", "exit notify", "join") /\ Main \in Mutators
    BY <1>4 DEF ExitNotify
  <2>2. /\ {"exit notify", "join"} \subseteq {"run", "notify", "exit notify", "join"}
        /\ "exit set" \in {"set", "exit set"} /\ "exit notify" \notin {"set", "exit set"}
    OBVIOUS
  <2> QED BY ONLY <2>1, <2>2, <1>2
<1>5. CASE Exit
  BY <1>5 DEF Exit, Queued, IInv, TypeOK, AnnouncedNotLive, StillAnnounced, QueuedIsAnnounced
<1>6. CASE Join
  BY <1>6 DEF Join, Queued, IInv, TypeOK, AnnouncedNotLive, StillAnnounced, QueuedIsAnnounced
<1>7. CASE TestExit \/ Wait \/ TestNotify \/ SpuriousWakeup
  <2>1. UNCHANGED <<state, IsNotify, IsExit, caller, noted, announced>>
    BY <1>7 DEF TestExit, Wait, TestNotify, SpuriousWakeup
  <2>2. worker' \in {"done", "enter wait", "asleep", "awake", "clear", "test"} /\ worker # "invoke"
    BY <1>7 DEF TestExit, Wait, TestNotify, SpuriousWakeup
  <2>3. TypeOK' /\ AnnouncedNotLive'
    BY <2>1, <2>2 DEF IInv, TypeOK, AnnouncedNotLive
  <2> QED BY <2>1, <2>2, <2>3 DEF Queued, IInv, StillAnnounced, QueuedIsAnnounced
<1>8. CASE ClearNotify
  BY <1>8 DEF ClearNotify, Queued, IInv, TypeOK, AnnouncedNotLive, StillAnnounced, QueuedIsAnnounced
<1>9. CASE InvokeFinalizers
  <2>1. CASE Queued = {}
    BY <1>9, <2>1 DEF InvokeFinalizers, Queued, IInv, TypeOK, AnnouncedNotLive,
                      StillAnnounced, QueuedIsAnnounced
  <2>2. CASE Queued # {}
    <3>1. PICK o \in Queued : state' = [state EXCEPT ![o] = "finalized"]
      BY <1>9, <2>2 DEF InvokeFinalizers
    <3>2. worker = "invoke" /\ worker' = "invoke" /\ UNCHANGED <<IsNotify, IsExit, caller, noted, announced>>
      BY <1>9, <2>2 DEF InvokeFinalizers
    <3>3. TypeOK' /\ AnnouncedNotLive' /\ Queued' = Queued \ {o}
      BY <3>1, <3>2 DEF Queued, IInv, TypeOK, AnnouncedNotLive
    <3> QED BY <3>2, <3>3 DEF IInv, StillAnnounced, QueuedIsAnnounced
  <2> QED BY <2>1, <2>2
<1>10. ASSUME NEW S \in SUBSET Objects, CollectInFinalizer(S) PROVE IInv'
  <2>1. /\ state' \in [Objects -> {"live", "queued", "finalized"}]
        /\ Queued' = Queued \cup S
        /\ announced \cap S = {}
        /\ \A o \in announced : state'[o] # "live"
    BY <1>10, EnqueueLive DEF CollectInFinalizer
  <2>2. TypeOK' /\ AnnouncedNotLive'
    BY <1>10, <2>1 DEF CollectInFinalizer, IInv, TypeOK, AnnouncedNotLive
  <2>3. StillAnnounced' /\ QueuedIsAnnounced'
    BY <1>10, <2>1 DEF CollectInFinalizer, IInv, StillAnnounced, QueuedIsAnnounced
  <2> QED BY <2>2, <2>3 DEF IInv
<1>12. ASSUME NEW m \in Mutators, Announce(m) PROVE IInv'
  <2>1. caller[m] = "run" /\ caller' = [caller EXCEPT ![m] = "set"] /\ noted' = TRUE
        /\ UNCHANGED <<state, IsNotify, IsExit, worker, announced>>
    BY <1>12 DEF Announce, FindQueue
  <2>2. TypeOK' /\ AnnouncedNotLive' /\ StillAnnounced'
    BY <2>1 DEF Queued, IInv, TypeOK, AnnouncedNotLive, StillAnnounced
  <2>3. caller'[m] = "set"
    BY <2>1 DEF IInv, TypeOK
  <2> QED BY <2>2, <2>3 DEF IInv, QueuedIsAnnounced
<1>13. CASE AnnounceInFinalizer
  BY <1>13 DEF AnnounceInFinalizer, FindQueue, SetNotify, Queued, IInv, TypeOK,
               AnnouncedNotLive, StillAnnounced, QueuedIsAnnounced
<1>11. CASE UNCHANGED vars
  BY <1>11 DEF vars, Queued, IInv, TypeOK, AnnouncedNotLive, StillAnnounced, QueuedIsAnnounced
<1> QED
  BY <1>1, <1>3, <1>4, <1>5, <1>6, <1>7, <1>8, <1>9, <1>10, <1>11,
     <1>12, <1>13 DEF Next, Work

LEMMA AlwaysInv == Spec => []IInv
<1> QED BY InitInv, InvStep, PTL DEF Spec

\* The variables keep their types.
THEOREM Typing == Spec => []TypeOK
<1>1. IInv => TypeOK
  BY DEF IInv
<1> QED BY <1>1, AlwaysInv, PTL

\* A notification that wakes nobody is not forgotten.
THEOREM NotificationsSurvive == Spec => []StillAnnounced
<1>1. IInv => StillAnnounced
  BY DEF IInv
<1> QED BY <1>1, AlwaysInv, PTL

\* Whatever is queued is announced, or about to be.
THEOREM QueueIsAnnounced == Spec => []QueuedIsAnnounced
<1>1. IInv => QueuedIsAnnounced
  BY DEF IInv
<1> QED BY <1>1, AlwaysInv, PTL

\* Nothing that waits for its finalizer is overlooked.
THEOREM NothingOverlooked == Spec => []NoneOverlooked
<1>1. StillAnnounced /\ QueuedIsAnnounced => NoneOverlooked
  BY DEF NoneOverlooked
<1> QED BY <1>1, NotificationsSurvive, QueueIsAnnounced, PTL
=============================================================================
