------------------------- MODULE FinalizationProofs -------------------------
(***************************************************************************)
(* Proofs about Finalization, for any threads and objects, any classes     *)
(* with finalizers and any depth of finalizers that run inside each other. *)
(***************************************************************************)
EXTENDS Finalization, FiniteSetTheorems, TLAPS

Distinct(s) == \A i, j \in DOMAIN s : s[i] = s[j] => i = j

\* An object is queued once, and is then no longer registered.
QueueInv == Distinct(finalize_now) /\ Elements(finalize_now) \cap fo_head = {}

\* Objects that do not exist yet refer to nothing.
FreshInv == \A o \in Object : o > allocated => field[o] = Null

IInv == TypeOK /\ HeldIsKept /\ DanglingBehindFinalizer /\ QueueInv /\ FreshInv

-----------------------------------------------------------------------------
(* Sequences.                                                              *)

LEMMA ConcatFacts ==
  ASSUME NEW S, NEW s \in Seq(S), NEW r \in Seq(S)
  PROVE  /\ s \o r \in Seq(S)
         /\ Elements(s \o r) = Elements(s) \cup Elements(r)
<1>1. /\ s \o r \in Seq(S) /\ Len(s) \in Nat /\ Len(r) \in Nat
      /\ DOMAIN s = 1..Len(s) /\ DOMAIN r = 1..Len(r)
      /\ DOMAIN (s \o r) = 1..Len(s) + Len(r)
      /\ \A i \in 1..Len(s) + Len(r) :
           (s \o r)[i] = IF i <= Len(s) THEN s[i] ELSE r[i - Len(s)]
  OBVIOUS
<1>2. Elements(s \o r) \subseteq Elements(s) \cup Elements(r)
  <2>. SUFFICES ASSUME NEW i \in DOMAIN (s \o r)
                PROVE  (s \o r)[i] \in Elements(s) \cup Elements(r)
    BY DEF Elements
  <2>1. CASE i <= Len(s)
    BY <1>1, <2>1 DEF Elements
  <2>2. CASE ~(i <= Len(s))
    <3>1. i - Len(s) \in DOMAIN r /\ (s \o r)[i] = r[i - Len(s)]
      BY <1>1, <2>2
    <3>. QED BY <3>1 DEF Elements
  <2>. QED BY <2>1, <2>2
<1>3. Elements(s) \subseteq Elements(s \o r)
  <2>. SUFFICES ASSUME NEW i \in DOMAIN s PROVE s[i] \in Elements(s \o r)
    BY DEF Elements
  <2>1. i \in DOMAIN (s \o r) /\ (s \o r)[i] = s[i]
    BY <1>1
  <2>. QED BY <2>1 DEF Elements
<1>4. Elements(r) \subseteq Elements(s \o r)
  <2>. SUFFICES ASSUME NEW i \in DOMAIN r PROVE r[i] \in Elements(s \o r)
    BY DEF Elements
  <2>1. Len(s) + i \in DOMAIN (s \o r) /\ (s \o r)[Len(s) + i] = r[i]
    BY <1>1
  <2>. QED BY <2>1 DEF Elements
<1>. QED BY <1>1, <1>2, <1>3, <1>4

LEMMA ConcatDistinct ==
  ASSUME NEW S, NEW s \in Seq(S), NEW r \in Seq(S), Distinct(s), Distinct(r),
         Elements(s) \cap Elements(r) = {}
  PROVE  Distinct(s \o r)
<1>1. /\ Len(s) \in Nat /\ Len(r) \in Nat
      /\ DOMAIN s = 1..Len(s) /\ DOMAIN r = 1..Len(r)
      /\ DOMAIN (s \o r) = 1..Len(s) + Len(r)
      /\ \A i \in 1..Len(s) + Len(r) :
           (s \o r)[i] = IF i <= Len(s) THEN s[i] ELSE r[i - Len(s)]
  OBVIOUS
<1>2. \A i \in DOMAIN s, j \in DOMAIN r : s[i] # r[j]
  BY DEF Elements
<1>. SUFFICES ASSUME NEW i \in DOMAIN (s \o r), NEW j \in DOMAIN (s \o r),
                     (s \o r)[i] = (s \o r)[j]
              PROVE  i = j
  BY DEF Distinct
<1>3. CASE i <= Len(s) /\ j <= Len(s)
  BY <1>1, <1>3 DEF Distinct
<1>4. CASE ~(i <= Len(s)) /\ ~(j <= Len(s))
  <2>1. i - Len(s) \in DOMAIN r /\ j - Len(s) \in DOMAIN r /\ r[i - Len(s)] = r[j - Len(s)]
    BY <1>1, <1>4
  <2>2. i - Len(s) = j - Len(s)
    BY <2>1 DEF Distinct
  <2>. QED BY <1>1, <2>2
<1>5. CASE i <= Len(s) /\ ~(j <= Len(s))
  BY <1>1, <1>2, <1>5
<1>6. CASE ~(i <= Len(s)) /\ j <= Len(s)
  BY <1>1, <1>2, <1>6
<1>. QED BY <1>3, <1>4, <1>5, <1>6

LEMMA TailFacts ==
  ASSUME NEW S, NEW s \in Seq(S), s # <<>>
  PROVE  /\ Tail(s) \in Seq(S) /\ Head(s) \in S
         /\ Elements(s) = Elements(Tail(s)) \cup {Head(s)}
         /\ Distinct(s) => Distinct(Tail(s)) /\ Head(s) \notin Elements(Tail(s))
<1>1. /\ Tail(s) \in Seq(S) /\ Head(s) \in S /\ Head(s) = s[1]
      /\ Len(s) \in Nat /\ Len(s) > 0 /\ DOMAIN s = 1..Len(s)
      /\ DOMAIN Tail(s) = 1..Len(s) - 1
      /\ \A i \in 1..Len(s) - 1 : Tail(s)[i] = s[i + 1]
  OBVIOUS
<1>2. Elements(s) \subseteq Elements(Tail(s)) \cup {Head(s)}
  <2>. SUFFICES ASSUME NEW i \in DOMAIN s, i # 1 PROVE s[i] \in Elements(Tail(s))
    BY <1>1 DEF Elements
  <2>1. i - 1 \in DOMAIN Tail(s) /\ Tail(s)[i - 1] = s[i]
    BY <1>1
  <2>. QED BY <2>1 DEF Elements
<1>3. Elements(Tail(s)) \cup {Head(s)} \subseteq Elements(s)
  <2>1. \A i \in DOMAIN Tail(s) : i + 1 \in DOMAIN s /\ Tail(s)[i] = s[i + 1]
    BY <1>1
  <2>2. 1 \in DOMAIN s
    BY <1>1
  <2>. QED BY <1>1, <2>1, <2>2 DEF Elements
<1>4. ASSUME Distinct(s) PROVE Distinct(Tail(s))
  <2>. SUFFICES ASSUME NEW i \in DOMAIN Tail(s), NEW j \in DOMAIN Tail(s),
                       Tail(s)[i] = Tail(s)[j]
                PROVE  i = j
    BY DEF Distinct
  <2>1. i + 1 \in DOMAIN s /\ j + 1 \in DOMAIN s /\ s[i + 1] = s[j + 1]
    BY <1>1
  <2>2. i + 1 = j + 1
    BY <2>1, <1>4 DEF Distinct
  <2>. QED BY <2>2, <1>1
<1>5. ASSUME Distinct(s) PROVE Head(s) \notin Elements(Tail(s))
  <2>. SUFFICES ASSUME NEW i \in DOMAIN Tail(s), Tail(s)[i] = Head(s) PROVE FALSE
    BY DEF Elements
  <2>1. i + 1 \in DOMAIN s /\ 1 \in DOMAIN s /\ s[i + 1] = s[1] /\ i + 1 # 1
    BY <1>1
  <2>. QED BY <2>1, <1>5 DEF Distinct
<1>. QED BY <1>1, <1>2, <1>3, <1>4, <1>5

LEMMA PushFacts ==
  ASSUME NEW S, NEW s \in Seq(S), NEW e \in S
  PROVE  /\ <<e>> \o s \in Seq(S)
         /\ Elements(<<e>> \o s) = Elements(s) \cup {e}
<1>. DEFINE first == <<e>>
<1>1. first \in Seq(S) /\ Elements(first) = {e}
  BY DEF Elements
<1>. HIDE DEF first
<1>2. first \o s \in Seq(S) /\ Elements(first \o s) = {e} \cup Elements(s)
  BY <1>1, ConcatFacts
<1>. QED BY <1>2 DEF first

-----------------------------------------------------------------------------
(* The parts of a step.                                                    *)

\* What a thread holds exists.
LEMMA HoldsFacts ==
  ASSUME TypeOK, NEW t \in Threads
  PROVE  Holds(t) \subseteq 1..allocated
<1>1. frames[t] \in Seq(0..allocated) /\ stack[t] \subseteq 1..allocated /\ allocated \in Nat
  BY NAssumption DEF TypeOK
<1>2. Elements(frames[t]) \subseteq 0..allocated
  BY <1>1 DEF Elements
<1>. QED BY <1>1, <1>2 DEF Holds, Running, Loop

\* A thread that enters a finalizer or a loop holds its object in addition.
LEMMA PushHolds ==
  ASSUME TypeOK, NEW t \in Threads, NEW e \in 0..allocated, Push(t, e), UNCHANGED stack
  PROVE  /\ frames' \in [Threads -> Seq(0..allocated)]
         /\ \A u \in Threads : Holds(u)' \subseteq Holds(u) \cup ({e} \ {Loop})
<1>1. frames[t] \in Seq(0..allocated)
  BY DEF TypeOK
<1>2. frames'[t] = <<e>> \o frames[t] /\ \A u \in Threads \ {t} : frames'[u] = frames[u]
  BY DEF Push, TypeOK
<1>3. frames'[t] \in Seq(0..allocated) /\ Elements(frames'[t]) = Elements(frames[t]) \cup {e}
  <2>. DEFINE F == 0..allocated
             s == frames[t]
  <2>. HIDE DEF F, s
  <2>1. s \in Seq(F) /\ e \in F
    BY <1>1 DEF F, s
  <2>2. <<e>> \o s \in Seq(F) /\ Elements(<<e>> \o s) = Elements(s) \cup {e}
    BY <2>1, PushFacts
  <2>. QED BY <1>2, <2>2 DEF F, s
<1>4. frames' \in [Threads -> Seq(0..allocated)]
  BY <1>2, <1>3 DEF Push, TypeOK
<1>5. ASSUME NEW u \in Threads PROVE Holds(u)' \subseteq Holds(u) \cup ({e} \ {Loop})
  BY <1>2, <1>3 DEF Holds, Running
<1>. QED BY <1>4, <1>5

LEMMA PopHolds ==
  ASSUME TypeOK, NEW t \in Threads, frames[t] # <<>>, Pop(t), UNCHANGED stack
  PROVE  /\ frames' \in [Threads -> Seq(0..allocated)]
         /\ \A u \in Threads : Holds(u)' \subseteq Holds(u)
<1>1. frames[t] \in Seq(0..allocated)
  BY DEF TypeOK
<1>2. frames'[t] = Tail(frames[t]) /\ \A u \in Threads \ {t} : frames'[u] = frames[u]
  BY DEF Pop, TypeOK
<1>3. frames'[t] \in Seq(0..allocated) /\ Elements(frames'[t]) \subseteq Elements(frames[t])
  <2>. DEFINE F == 0..allocated
             s == frames[t]
  <2>. HIDE DEF F, s
  <2>1. s \in Seq(F) /\ s # <<>>
    BY <1>1 DEF F, s
  <2>2. Tail(s) \in Seq(F) /\ Elements(Tail(s)) \subseteq Elements(s)
    BY <2>1, TailFacts
  <2>. QED BY <1>2, <2>2 DEF F, s
<1>4. frames' \in [Threads -> Seq(0..allocated)]
  BY <1>2, <1>3 DEF Pop, TypeOK
<1>5. ASSUME NEW u \in Threads PROVE Holds(u)' \subseteq Holds(u)
  BY <1>2, <1>3 DEF Holds, Running
<1>. QED BY <1>4, <1>5

\* The mark phase keeps its roots and what they refer to.
LEMMA ReachableFacts ==
  ASSUME TypeOK, NEW R \in SUBSET Object
  PROVE  /\ R \subseteq Reachable(R) /\ Reachable(R) \subseteq Object
         /\ \A o \in Reachable(R) : field[o] # Null => field[o] \in Reachable(R)
<1>1. R \subseteq Reachable(R) /\ Reachable(R) \subseteq Object
  BY DEF Reachable
<1>2. ASSUME NEW o \in Reachable(R), field[o] # Null PROVE field[o] \in Reachable(R)
  <2>1. o \in Object /\ field[o] \in Object
    BY <1>1, <1>2, NAssumption DEF TypeOK, Object, Null
  <2>2. \A M \in SUBSET Object : R \subseteq M /\ Closed(M) => field[o] \in M
    BY <1>2 DEF Reachable, Closed
  <2>. QED BY <2>1, <2>2 DEF Reachable
<1>. QED BY <1>1, <1>2

\* A collection queues each dead object once.
LEMMA OrderFacts ==
  ASSUME NEW S, IsFiniteSet(S), NEW s \in Orders(S)
  PROVE  s \in Seq(S) /\ Elements(s) = S /\ Distinct(s)
<1>1. Cardinality(S) \in Nat
  BY FS_CardinalityType
<1>2. s \in [1..Cardinality(S) -> S] /\ Elements(s) = S
  BY DEF Orders
<1>3. s \in Surjection(1..Cardinality(S), S)
  BY <1>2 DEF Surjection, Elements
<1>4. IsFiniteSet(1..Cardinality(S)) /\ Cardinality(1..Cardinality(S)) = Cardinality(S)
  BY <1>1, FS_Interval
<1>5. s \in Injection(1..Cardinality(S), S)
  BY <1>3, <1>4, FS_SurjSameCardinalityImpliesInj
<1>6. Distinct(s)
  BY <1>2, <1>5 DEF Injection, IsInjective, Distinct
<1>7. s \in Seq(S)
  BY <1>1, <1>2
<1>. QED BY <1>2, <1>6, <1>7

LEMMA QueueFacts ==
  ASSUME TypeOK
  PROVE  /\ Elements(finalize_now) \subseteq 1..allocated \cap HasFinalizer
         /\ 1..allocated \subseteq Object
         /\ IsFiniteSet(fo_head)
<1>1. allocated \in Nat /\ allocated <= N /\ N \in Nat
  BY NAssumption DEF TypeOK
<1>2. IsFiniteSet(1..allocated)
  BY <1>1, FS_Interval
<1>3. fo_head \subseteq 1..allocated
  BY DEF TypeOK
<1>4. IsFiniteSet(fo_head)
  BY <1>2, <1>3, FS_Subset
<1>5. Elements(finalize_now) \subseteq 1..allocated \cap HasFinalizer
  BY DEF TypeOK, Elements
<1>. QED BY <1>1, <1>4, <1>5 DEF Object

LEMMA InitInv == Init => IInv
<1>. SUFFICES ASSUME Init PROVE IInv
  OBVIOUS
<1>1. Elements(finalize_now) = {} /\ \A t \in Threads : Elements(frames[t]) = {}
  BY DEF Init, Elements
<1>2. TypeOK
  BY NAssumption DEF Init, TypeOK, Object, Null
<1>3. HeldIsKept /\ DanglingBehindFinalizer
  BY <1>1 DEF Init, HeldIsKept, DanglingBehindFinalizer, Used
<1>4. QueueInv /\ FreshInv
  BY <1>1 DEF Init, QueueInv, FreshInv, Distinct
<1>. QED BY <1>2, <1>3, <1>4 DEF IInv

\* A new object is not freed, not queued, and refers to nothing.
LEMMA NewKeeps == ASSUME IInv, NEW t \in Threads, New(t) PROVE IInv'
<1>0. TypeOK /\ Elements(finalize_now) \subseteq 1..allocated /\ allocated \in Nat /\ N \in Nat
  BY QueueFacts, NAssumption DEF IInv, TypeOK
<1>1. allocated' = allocated + 1 /\ allocated' \in 1..N
  BY <1>0 DEF New
<1>2. /\ UNCHANGED <<freed, field, finalize_now, frames, nested, skipped>>
      /\ stack' = [stack EXCEPT ![t] = @ \cup {allocated'}]
      /\ fo_head' = fo_head \cup ({allocated'} \cap HasFinalizer)
  BY DEF New, level
<1>3. 1..allocated \subseteq 1..allocated' /\ 0..allocated \subseteq 0..allocated'
  BY <1>0, <1>1
<1>4. TypeOK'
  <2>. DEFINE before == 1..allocated \cap HasFinalizer
             after == 1..allocated' \cap HasFinalizer
  <2>1. finalize_now' \in Seq(after)
    <3>1. finalize_now \in Seq(before) /\ before \subseteq after
      BY <1>0, <1>3 DEF TypeOK
    <3>. HIDE DEF before, after
    <3>. QED BY <1>2, <3>1
  <2>2. frames' \in [Threads -> Seq(0..allocated')]
    <3>. DEFINE old == 0..allocated
               new == 0..allocated'
    <3>1. frames \in [Threads -> Seq(old)] /\ old \subseteq new
      BY <1>0, <1>3 DEF TypeOK
    <3>. HIDE DEF old, new
    <3>2. \A u \in Threads : frames[u] \in Seq(new)
      BY <3>1
    <3>3. frames \in [Threads -> Seq(new)]
      BY <3>1, <3>2
    <3>. QED BY <1>2, <3>3 DEF new
  <2>3. stack' \in [Threads -> SUBSET (1..allocated')]
    BY <1>0, <1>1, <1>2, <1>3 DEF TypeOK
  <2>4. field' \in [Object -> 0..allocated']
    BY <1>0, <1>2, <1>3 DEF TypeOK
  <2>5. fo_head' \subseteq after /\ freed' \subseteq 1..allocated'
    BY <1>0, <1>1, <1>2, <1>3 DEF TypeOK
  <2>6. allocated' \in 0..N /\ nested' \in [Threads -> Nat] /\ skipped' \in [Threads -> Nat]
    BY <1>0, <1>1, <1>2 DEF TypeOK
  <2>. QED BY <2>1, <2>2, <2>3, <2>4, <2>5, <2>6 DEF TypeOK
<1>5. allocated' \notin freed /\ allocated' \notin Elements(finalize_now)
  BY <1>0, <1>1 DEF TypeOK
<1>6. HeldIsKept'
  <2>1. \A u \in Threads : Holds(u)' \subseteq Holds(u) \cup {allocated'}
    BY <1>0, <1>2 DEF Holds, Running, TypeOK
  <2>. QED BY <1>2, <1>5, <2>1 DEF IInv, HeldIsKept
<1>7. FreshInv'
  BY <1>0, <1>1, <1>2 DEF IInv, FreshInv, Object
<1>8. DanglingBehindFinalizer'
  <2>. SUFFICES ASSUME NEW o \in Used', field[o] \in freed
                PROVE  o \in HasFinalizer \ fo_head'
    BY <1>2 DEF DanglingBehindFinalizer
  <2>1. field[allocated'] = Null
    BY <1>0, <1>1 DEF IInv, FreshInv, Object
  <2>2. o # allocated'
    BY <1>0, <2>1 DEF TypeOK, Null
  <2>3. o \in Used
    BY <1>0, <1>1, <1>2, <2>2 DEF Used
  <2>. QED BY <1>2, <2>2, <2>3 DEF IInv, DanglingBehindFinalizer
<1>9. QueueInv'
  BY <1>2, <1>5 DEF IInv, QueueInv
<1>. QED BY <1>4, <1>6, <1>7, <1>8, <1>9 DEF IInv

\* A thread stores and loads what it holds, or what an object in use refers to.
LEMMA StoreKeeps ==
  ASSUME IInv, NEW t \in Threads, NEW o \in Object, NEW p \in Object \cup {Null}, Store(t, o, p)
  PROVE  IInv'
<1>0. TypeOK /\ Holds(t) \subseteq 1..allocated /\ allocated \in Nat /\ N \in Nat
  BY HoldsFacts, NAssumption DEF IInv, TypeOK
<1>1. /\ UNCHANGED <<allocated, freed, stack, fo_head, finalize_now, frames, nested, skipped>>
      /\ field' = [field EXCEPT ![o] = p] /\ o \in Holds(t) /\ (p = Null \/ p \in Holds(t))
  BY DEF Store, queue, level
<1>2. p \in 0..allocated /\ p \notin freed /\ o \in 1..allocated
  BY <1>0, <1>1 DEF IInv, HeldIsKept, TypeOK, Null
<1>3. TypeOK'
  BY <1>0, <1>1, <1>2 DEF TypeOK
<1>4. HeldIsKept' /\ QueueInv'
  BY <1>1 DEF IInv, HeldIsKept, QueueInv, Holds, Running
<1>5. DanglingBehindFinalizer'
  BY <1>0, <1>1, <1>2 DEF IInv, DanglingBehindFinalizer, Used, TypeOK
<1>6. FreshInv'
  BY <1>0, <1>1, <1>2 DEF IInv, FreshInv, TypeOK
<1>. QED BY <1>3, <1>4, <1>5, <1>6 DEF IInv

LEMMA LoadKeeps ==
  ASSUME IInv, NEW t \in Threads, NEW o \in Object, Load(t, o)
  PROVE  IInv'
<1>1. /\ UNCHANGED <<allocated, freed, field, fo_head, finalize_now, frames, nested, skipped>>
      /\ stack' = [stack EXCEPT ![t] = @ \cup {field[o]}] /\ field[o] \in Used
  BY DEF Load, queue, level
<1>2. TypeOK'
  BY <1>1 DEF IInv, TypeOK, Used
<1>3. HeldIsKept'
  <2>1. \A u \in Threads : Holds(u)' \subseteq Holds(u) \cup {field[o]}
    BY <1>1 DEF IInv, TypeOK, Holds, Running
  <2>. QED BY <1>1, <2>1 DEF IInv, HeldIsKept, Used
<1>4. DanglingBehindFinalizer' /\ QueueInv' /\ FreshInv'
  BY <1>1 DEF IInv, DanglingBehindFinalizer, QueueInv, FreshInv, Used
<1>. QED BY <1>2, <1>3, <1>4 DEF IInv

LEMMA DropKeeps ==
  ASSUME IInv, NEW t \in Threads, NEW o \in Object, Drop(t, o)
  PROVE  IInv'
<1>1. /\ UNCHANGED <<allocated, freed, field, fo_head, finalize_now, frames, nested, skipped>>
      /\ stack' = [stack EXCEPT ![t] = @ \ {o}]
  BY DEF Drop, queue, level
<1>2. TypeOK'
  BY <1>1 DEF IInv, TypeOK
<1>3. HeldIsKept'
  <2>1. \A u \in Threads : Holds(u)' \subseteq Holds(u)
    BY <1>1 DEF IInv, TypeOK, Holds, Running
  <2>. QED BY <1>1, <2>1 DEF IInv, HeldIsKept
<1>4. DanglingBehindFinalizer' /\ QueueInv' /\ FreshInv'
  BY <1>1 DEF IInv, DanglingBehindFinalizer, QueueInv, FreshInv, Used
<1>. QED BY <1>2, <1>3, <1>4 DEF IInv

\* Steps that change the frames of a thread and not the heap: what threads
\* hold does not grow, or grows by an object that was queued.
LEMMA FramesKeep ==
  ASSUME IInv, UNCHANGED <<heap, fo_head>>,
         frames' \in [Threads -> Seq(0..allocated)],
         nested' \in [Threads -> Nat], skipped' \in [Threads -> Nat],
         finalize_now' \in Seq(1..allocated \cap HasFinalizer), Distinct(finalize_now'),
         Elements(finalize_now') \subseteq Elements(finalize_now),
         \A u \in Threads : Holds(u)' \subseteq Holds(u) \cup Elements(finalize_now)
  PROVE  IInv'
<1>1. UNCHANGED <<allocated, freed, field, stack, fo_head>>
  BY DEF heap
<1>2. TypeOK'
  BY <1>1 DEF IInv, TypeOK
<1>3. Elements(finalize_now)' = Elements(finalize_now')
  BY DEF Elements
<1>4. HeldIsKept'
  BY <1>1, <1>3 DEF IInv, HeldIsKept
<1>5. QueueInv'
  BY <1>1, <1>3 DEF IInv, QueueInv, Distinct
<1>6. DanglingBehindFinalizer' /\ FreshInv'
  BY <1>1 DEF IInv, DanglingBehindFinalizer, FreshInv, Used
<1>. QED BY <1>2, <1>4, <1>5, <1>6 DEF IInv

LEMMA ReturnKeeps == ASSUME IInv, NEW t \in Threads, Return(t) PROVE IInv'
<1>1. UNCHANGED <<heap, fo_head, finalize_now, nested, skipped, stack>> /\ Pop(t) /\ frames[t] # <<>>
  BY DEF Return, queue, level, heap
<1>2. frames' \in [Threads -> Seq(0..allocated)] /\ \A u \in Threads : Holds(u)' \subseteq Holds(u)
  BY <1>1, PopHolds DEF IInv
<1>. QED BY <1>1, <1>2, FramesKeep DEF IInv, TypeOK, QueueInv

LEMMA SkipNestedKeeps == ASSUME IInv, NEW t \in Threads, SkipNested(t) PROVE IInv'
<1>1. UNCHANGED <<heap, fo_head, finalize_now, frames, nested>>
      /\ skipped' = [skipped EXCEPT ![t] = @ + 1]
  BY DEF SkipNested, queue
<1>2. \A u \in Threads : Holds(u)' = Holds(u)
  BY <1>1 DEF Holds, Running, heap
<1>3. skipped' \in [Threads -> Nat]
  BY <1>1 DEF IInv, TypeOK
<1>. QED BY <1>1, <1>2, <1>3, FramesKeep DEF IInv, TypeOK, QueueInv

LEMMA InvokeKeeps == ASSUME IInv, NEW t \in Threads, Invoke(t) PROVE IInv'
<1>1. UNCHANGED <<heap, fo_head, finalize_now, stack>> /\ Push(t, Loop)
  BY DEF Invoke, queue, heap
<1>2. nested' \in [Threads -> Nat] /\ skipped' \in [Threads -> Nat]
  BY DEF Invoke, IInv, TypeOK
<1>3. Loop \in 0..allocated
  BY NAssumption DEF IInv, TypeOK, Loop
<1>4. frames' \in [Threads -> Seq(0..allocated)] /\ \A u \in Threads : Holds(u)' \subseteq Holds(u)
  BY <1>1, <1>3, PushHolds DEF IInv
<1>. QED BY <1>1, <1>2, <1>4, FramesKeep DEF IInv, TypeOK, QueueInv

LEMMA RunFinalizerKeeps == ASSUME IInv, NEW t \in Threads, RunFinalizer(t) PROVE IInv'
<1>. DEFINE o == Head(finalize_now)
<1>1. /\ UNCHANGED <<heap, fo_head, nested, skipped, stack>> /\ Push(t, o)
      /\ finalize_now # <<>> /\ finalize_now' = Tail(finalize_now)
  BY DEF RunFinalizer, level, heap
<1>2. /\ Tail(finalize_now) \in Seq(1..allocated \cap HasFinalizer)
      /\ o \in 1..allocated \cap HasFinalizer
      /\ Elements(finalize_now) = Elements(Tail(finalize_now)) \cup {o}
      /\ Distinct(Tail(finalize_now))
  <2>. DEFINE F == 1..allocated \cap HasFinalizer
             s == finalize_now
  <2>1. s \in Seq(F) /\ s # <<>> /\ Distinct(s)
    BY <1>1 DEF IInv, TypeOK, QueueInv
  <2>. HIDE DEF F, s
  <2>2. /\ Tail(s) \in Seq(F) /\ Head(s) \in F
        /\ Elements(s) = Elements(Tail(s)) \cup {Head(s)} /\ Distinct(Tail(s))
    BY <2>1, TailFacts
  <2>. QED BY <2>2 DEF F, s
<1>3. o \in 0..allocated
  BY <1>2 DEF IInv, TypeOK
<1>4. frames' \in [Threads -> Seq(0..allocated)]
      /\ \A u \in Threads : Holds(u)' \subseteq Holds(u) \cup {o}
  BY <1>1, <1>3, PushHolds DEF IInv
<1>5. \A u \in Threads : Holds(u)' \subseteq Holds(u) \cup Elements(finalize_now)
  BY <1>2, <1>4
<1>. QED BY <1>1, <1>2, <1>4, <1>5, FramesKeep DEF IInv, TypeOK

LEMMA EndLoopKeeps == ASSUME IInv, NEW t \in Threads, EndLoop(t) PROVE IInv'
<1>1. UNCHANGED <<heap, fo_head, finalize_now, skipped, stack>> /\ Pop(t) /\ frames[t] # <<>>
  BY DEF EndLoop, InCode, queue, heap
<1>2. frames' \in [Threads -> Seq(0..allocated)] /\ \A u \in Threads : Holds(u)' \subseteq Holds(u)
  BY <1>1, PopHolds DEF IInv
<1>3. nested' \in [Threads -> Nat]
  BY DEF EndLoop, IInv, TypeOK
<1>. QED BY <1>1, <1>2, <1>3, FramesKeep DEF IInv, TypeOK, QueueInv

\* A collection frees what is neither marked nor queued. The roots are
\* marked, so is what marked objects refer to, and the dead are queued.
LEMMA CollectKeeps == ASSUME IInv, NEW t \in Threads, Collect(t) PROVE IInv'
<1>0. /\ TypeOK /\ Elements(finalize_now) \subseteq 1..allocated \cap HasFinalizer
      /\ 1..allocated \subseteq Object /\ IsFiniteSet(fo_head) /\ allocated \in Nat
  <2>1. TypeOK /\ allocated \in Nat
    BY NAssumption DEF IInv, TypeOK
  <2>. QED BY <2>1, QueueFacts
<1>1. Roots \subseteq Object
  <2>1. \A u \in Threads : Holds(u) \subseteq 1..allocated
    BY <1>0, HoldsFacts
  <2>2. UNION {Holds(u) : u \in Threads} \subseteq Object
    BY <1>0, <2>1
  <2>3. Elements(finalize_now) \subseteq Object
    BY <1>0
  <2>. QED BY <2>2, <2>3 DEF Roots
<1>2. /\ Roots \subseteq Marked
      /\ \A o \in Marked : field[o] # Null => field[o] \in Marked
  BY <1>0, <1>1, ReachableFacts DEF Marked
<1>3. Dead \subseteq fo_head /\ Dead \subseteq 1..allocated \cap HasFinalizer /\ IsFiniteSet(Dead)
  BY <1>0, FS_Subset DEF Dead, TypeOK
<1>4. PICK s \in Orders(Dead) : finalize_now' = s \o finalize_now
  BY DEF Collect, Finalize
<1>5. s \in Seq(Dead) /\ Elements(s) = Dead /\ Distinct(s)
  BY <1>3, OrderFacts
<1>6. /\ UNCHANGED <<allocated, stack, frames, nested, skipped>>
      /\ fo_head' = fo_head \ Dead
      /\ freed' = 1..allocated \ (Marked \cup Dead)
      /\ field' = [o \in Object |-> IF o \in freed' THEN Null ELSE field[o]]
  BY DEF Collect, Finalize, Reclaim, level
<1>7. /\ finalize_now' \in Seq(1..allocated \cap HasFinalizer)
      /\ Elements(finalize_now') = Dead \cup Elements(finalize_now)
      /\ Distinct(finalize_now')
  <2>. DEFINE F == 1..allocated \cap HasFinalizer
             q == finalize_now
  <2>1. s \in Seq(F)
    <3>1. s \in Seq(Dead) /\ Dead \subseteq F
      BY <1>3, <1>5
    <3>. HIDE DEF F
    <3>. QED BY <3>1
  <2>2. q \in Seq(F) /\ Distinct(q) /\ Elements(s) \cap Elements(q) = {}
    BY <1>3, <1>5 DEF IInv, TypeOK, QueueInv
  <2>. HIDE DEF F, q
  <2>3. s \o q \in Seq(F) /\ Elements(s \o q) = Elements(s) \cup Elements(q)
    BY <2>1, <2>2, ConcatFacts
  <2>4. Distinct(s \o q)
    BY <2>1, <2>2, <1>5, ConcatDistinct
  <2>. QED BY <2>3, <2>4, <1>4, <1>5 DEF F, q
<1>8. TypeOK'
  <2>1. field' \in [Object -> 0..allocated]
    BY <1>0, <1>6 DEF TypeOK, Null
  <2>. QED BY <2>1, <1>0, <1>3, <1>6, <1>7 DEF TypeOK
<1>9. Elements(finalize_now)' = Elements(finalize_now')
  BY DEF Elements
<1>10. HeldIsKept'
  <2>1. \A u \in Threads : Holds(u)' = Holds(u)
    BY <1>6 DEF Holds, Running
  <2>2. Elements(finalize_now) \subseteq Marked /\ \A u \in Threads : Holds(u) \subseteq Marked
    <3>1. \A u \in Threads : Holds(u) \subseteq UNION {Holds(w) : w \in Threads}
      BY Zenon
    <3>2. UNION {Holds(w) : w \in Threads} \subseteq Roots /\ Elements(finalize_now) \subseteq Roots
      BY DEF Roots
    <3>. QED BY <1>2, <3>1, <3>2
  <2>3. Elements(finalize_now)' \cap freed' = {}
    BY <2>2, <1>6, <1>7, <1>9
  <2>4. \A u \in Threads : Holds(u)' \cap freed' = {}
    BY <2>1, <2>2, <1>6
  <2>. QED BY <2>3, <2>4 DEF HeldIsKept
<1>11. DanglingBehindFinalizer'
  <2>. SUFFICES ASSUME NEW o \in Used', field'[o] \in freed'
                PROVE  o \in HasFinalizer \ fo_head'
    BY DEF DanglingBehindFinalizer
  <2>1. o \in Marked \cup Dead /\ o \in Object
    BY <1>0, <1>6 DEF Used
  <2>2. field'[o] = field[o] /\ field[o] # Null
    BY <1>6, <2>1 DEF Used, Null
  <2>3. o \notin Marked
    BY <1>2, <1>6, <2>2
  <2>. QED BY <1>3, <1>6, <2>1, <2>3
<1>12. QueueInv'
  BY <1>6, <1>7, <1>9 DEF IInv, QueueInv, Distinct
<1>13. FreshInv'
  BY <1>0, <1>6 DEF IInv, FreshInv
<1>. QED BY <1>8, <1>10, <1>11, <1>12, <1>13 DEF IInv

-----------------------------------------------------------------------------
LEMMA NextInv == IInv /\ [Next]_vars => IInv'
<1>. SUFFICES ASSUME IInv, [Next]_vars PROVE IInv'
  OBVIOUS
<1>1. CASE UNCHANGED vars
  BY <1>1 DEF IInv, vars, heap, queue, level, TypeOK, HeldIsKept, DanglingBehindFinalizer,
              QueueInv, FreshInv, Used, Holds, Running
<1>2. ASSUME NEW t \in Threads, Code(t) PROVE IInv'
  BY <1>2, NewKeeps, CollectKeeps, ReturnKeeps, LoadKeeps, DropKeeps, StoreKeeps DEF Code
<1>3. ASSUME NEW t \in Threads, Finalizers(t) PROVE IInv'
  BY <1>3, SkipNestedKeeps, InvokeKeeps, RunFinalizerKeeps, EndLoopKeeps DEF Finalizers
<1>. QED BY <1>1, <1>2, <1>3 DEF Next

LEMMA Invariance == Spec => []IInv
  BY InitInv, NextInv, PTL DEF Spec

\* The variables have their types.
THEOREM Typing == Spec => []TypeOK
<1>1. IInv => TypeOK
  BY DEF IInv
<1>. QED BY <1>1, Invariance, PTL

\* A collection never frees what a thread holds, what waits for its finalizer,
\* or what is being finalized.
THEOREM NothingHeldIsFreed == Spec => []HeldIsKept
<1>1. IInv => HeldIsKept
  BY DEF IInv
<1>. QED BY <1>1, Invariance, PTL

\* Only an object that has been queued can refer to freed memory.
THEOREM OnlyQueuedDangle == Spec => []DanglingBehindFinalizer
<1>1. IInv => DanglingBehindFinalizer
  BY DEF IInv
<1>. QED BY <1>1, Invariance, PTL

-----------------------------------------------------------------------------
(* The refinement of ObjectLife.                                           *)

StateOf(o) ==
  IF o \in Elements(finalize_now) THEN "queued"
  ELSE IF o > allocated \/ o \in fo_head THEN "live" ELSE "finalized"

LEMMA LifeInit == Init => Life!Init
<1>. SUFFICES ASSUME Init PROVE Life!Init
  OBVIOUS
<1>1. Elements(finalize_now) = {}
  BY DEF Init, Elements
<1>2. \A o \in HasFinalizer : o > allocated
  BY NAssumption DEF Init
<1>. QED BY <1>1, <1>2 DEF Life!Init

\* Allocations, loads, stores and the bookkeeping of loops change no state: a
\* new object is as live as one that does not exist yet. A collection queues
\* the dead, RunFinalizer finalizes the first of the queue.
LEMMA LifeNext ==
  IInv /\ IInv' /\ [Next]_vars => [Life!Next]_[o \in HasFinalizer |-> StateOf(o)]
<1>. DEFINE state == [o \in HasFinalizer |-> StateOf(o)]
<1>. SUFFICES ASSUME IInv, IInv', [Next]_vars PROVE Life!Next \/ UNCHANGED state
  BY DEF StateOf
<1>0. /\ TypeOK /\ Elements(finalize_now) \subseteq 1..allocated \cap HasFinalizer
      /\ allocated \in Nat /\ HasFinalizer \subseteq Nat
  <2>1. TypeOK /\ allocated \in Nat /\ HasFinalizer \subseteq Nat
    BY NAssumption DEF IInv, TypeOK
  <2>. QED BY <2>1, QueueFacts
<1>1. ASSUME UNCHANGED <<allocated, fo_head, finalize_now>> PROVE UNCHANGED state
  <2>1. Elements(finalize_now)' = Elements(finalize_now)
    BY <1>1 DEF Elements
  <2>. QED BY <1>1, <2>1 DEF StateOf
<1>2. ASSUME NEW t \in Threads, New(t) PROVE UNCHANGED state
  <2>1. Elements(finalize_now)' = Elements(finalize_now)
    BY <1>2 DEF New, Elements
  <2>2. allocated' = allocated + 1 /\ fo_head' = fo_head \cup ({allocated'} \cap HasFinalizer)
    BY <1>2 DEF New
  <2>3. ASSUME NEW o \in HasFinalizer PROVE StateOf(o)' = StateOf(o)
    BY <1>0, <2>1, <2>2 DEF StateOf
  <2>. QED BY <2>3
<1>3. ASSUME NEW t \in Threads, Collect(t) PROVE Life!Next
  <2>1. PICK s \in Orders(Dead) : finalize_now' = s \o finalize_now
    BY <1>3 DEF Collect, Finalize
  <2>2. allocated' = allocated /\ fo_head' = fo_head \ Dead
    BY <1>3 DEF Collect, Finalize
  <2>3. Dead \subseteq fo_head /\ IsFiniteSet(Dead) /\ Dead \subseteq HasFinalizer
        /\ Dead \subseteq 1..allocated
    BY <1>0, QueueFacts, FS_Subset DEF Dead, TypeOK
  <2>4. Elements(finalize_now)' = Dead \cup Elements(finalize_now)
    <3>1. s \in Seq(Object) /\ finalize_now \in Seq(Object) /\ Elements(s) = Dead
      <4>1. s \in Seq(Dead) /\ Elements(s) = Dead
        BY <2>3, OrderFacts
      <4>2. Dead \subseteq Object /\ 1..allocated \cap HasFinalizer \subseteq Object
        BY <2>3, NAssumption DEF Object
      <4>3. s \in Seq(Object)
        BY <4>1, <4>2
      <4>4. finalize_now \in Seq(Object)
        <5>. DEFINE F == 1..allocated \cap HasFinalizer
        <5>1. finalize_now \in Seq(F) /\ F \subseteq Object
          BY <1>0, <4>2 DEF TypeOK
        <5>. HIDE DEF F
        <5>. QED BY <5>1
      <4>. QED BY <4>1, <4>3, <4>4
    <3>2. Elements(s \o finalize_now) = Dead \cup Elements(finalize_now)
      BY <3>1, ConcatFacts
    <3>3. Elements(finalize_now)' = Elements(finalize_now')
      BY DEF Elements
    <3>. QED BY <2>1, <3>2, <3>3
  <2>5. \A o \in Dead : state[o] = "live"
    BY <2>3 DEF StateOf, IInv, QueueInv
  <2>6. ASSUME NEW o \in HasFinalizer
        PROVE  StateOf(o)' = IF o \in Dead THEN "queued" ELSE state[o]
    BY <2>2, <2>4 DEF StateOf
  <2>7. state' = [o \in HasFinalizer |-> IF o \in Dead THEN "queued" ELSE state[o]]
    BY <2>6
  <2>8. Dead \in SUBSET HasFinalizer
    BY <2>3
  <2>. QED BY <2>5, <2>7, <2>8 DEF Life!Next, Life!Queue, StateOf
<1>4. ASSUME NEW t \in Threads, RunFinalizer(t) PROVE Life!Next
  <2>. DEFINE h == Head(finalize_now)
  <2>1. /\ UNCHANGED <<allocated, fo_head>>
        /\ finalize_now # <<>> /\ finalize_now' = Tail(finalize_now)
    BY <1>4 DEF RunFinalizer, heap
  <2>2. /\ Elements(finalize_now) = Elements(Tail(finalize_now)) \cup {h}
        /\ h \notin Elements(Tail(finalize_now))
    <3>. DEFINE F == 1..allocated \cap HasFinalizer
               s == finalize_now
    <3>1. s \in Seq(F) /\ s # <<>> /\ Distinct(s)
      BY <2>1 DEF IInv, TypeOK, QueueInv
    <3>. HIDE DEF F, s
    <3>2. Elements(s) = Elements(Tail(s)) \cup {Head(s)} /\ Head(s) \notin Elements(Tail(s))
      BY <3>1, TailFacts
    <3>. QED BY <3>2 DEF s
  <2>3. Elements(finalize_now)' = Elements(finalize_now) \ {h}
    <3>1. Elements(finalize_now)' = Elements(finalize_now')
      BY DEF Elements
    <3>. QED BY <2>1, <2>2, <3>1
  <2>4. h \in HasFinalizer /\ h \in 1..allocated /\ h \notin fo_head /\ state[h] = "queued"
    BY <1>0, <2>2 DEF IInv, QueueInv, StateOf
  <2>5. ASSUME NEW o \in HasFinalizer
        PROVE  StateOf(o)' = IF o = h THEN "finalized" ELSE state[o]
    BY <1>0, <2>1, <2>3, <2>4 DEF StateOf
  <2>6. state' = [state EXCEPT ![h] = "finalized"]
    BY <2>5
  <2>. QED BY <2>4, <2>6 DEF Life!Next, Life!Finalize, StateOf
<1>5. CASE UNCHANGED vars
  BY <1>1, <1>5 DEF vars, heap, queue
<1>6. ASSUME NEW t \in Threads, Code(t) PROVE Life!Next \/ UNCHANGED state
  <2>1. ASSUME NEW o \in Object, Load(t, o) \/ Drop(t, o) \/ \E p \in Object \cup {Null} : Store(t, o, p)
        PROVE  UNCHANGED <<allocated, fo_head, finalize_now>>
    BY <2>1 DEF Load, Drop, Store, queue
  <2>2. Return(t) => UNCHANGED <<allocated, fo_head, finalize_now>>
    BY DEF Return, heap, queue
  <2>. QED BY <1>1, <1>2, <1>3, <1>6, <2>1, <2>2 DEF Code
<1>7. ASSUME NEW t \in Threads, Finalizers(t) PROVE Life!Next \/ UNCHANGED state
  <2>1. SkipNested(t) \/ Invoke(t) \/ EndLoop(t) => UNCHANGED <<allocated, fo_head, finalize_now>>
    BY DEF SkipNested, Invoke, EndLoop, heap, queue
  <2>. QED BY <1>1, <1>4, <1>7, <2>1 DEF Finalizers
<1>. QED BY <1>5, <1>6, <1>7 DEF Next

\* Whatever runs the finalizers, in whatever nesting: each object with one is
\* queued once and its finalizer runs once.
THEOREM FinalizedOnce == Spec => LivesOnce
<1>1. IInv /\ IInv' /\ [Next]_vars => [Life!Next]_[o \in HasFinalizer |-> StateOf(o)]
  BY LifeNext
<1>. QED BY <1>1, LifeInit, Invariance, PTL DEF Spec, LivesOnce, Life!Spec, StateOf
=============================================================================
