------------------------ MODULE IncrementalBuildProofs ------------------------
(***************************************************************************)
(* A finished build is up to date, and the next one runs nothing, for any  *)
(* units in any stages, any number of builds and edits, commands that fail *)
(* and builds that are killed between any two steps.                       *)
(*                                                                         *)
(* The difficulty is that a saved hash may be of any age: a build that is  *)
(* killed leaves targets that no hash was saved for, and the hash of a     *)
(* file may be saved by one stage and hide an edit from a later one.  What *)
(* has to be shown is that the contents of a file, source or target, never *)
(* come back, so that an old hash never fits by chance: not for a file     *)
(* that no unit of an earlier stage has for a dependency.                  *)
(***************************************************************************)
EXTENDS IncrementalBuild, Integers, TLAPS

AllPatched == UNION {Patches[k] : k \in DOMAIN Patches}

\* What is read and written before stage k + 1.
FilesUpTo(k) == Sources \cup UNION {Stages[j] : j \in 1..k}

\* The dependencies of u whose hashes no earlier stage saves.
Own(u) == {f \in Seen(u) : \A k \in DOMAIN Stages : u \in Stages[k] => ~SeenEarlier(k, f)}

\* A unit is of one stage, and reads and is patched in an order that fits.
LEMMA Order ==
  /\ Len(Stages) \in Nat /\ Len(Stages) >= 1 /\ Units \cap Sources = {}
  /\ DOMAIN Stages = 1..Len(Stages) /\ DOMAIN Patches = 1..Len(Stages)
  /\ \A k \in DOMAIN Stages : Stages[k] \subseteq Units
  /\ \A k, l \in DOMAIN Stages : \A u \in Stages[k] : u \in Stages[l] => k = l
  /\ \A k \in DOMAIN Stages : \A u \in Stages[k] :
       /\ Reads[u] \subseteq FilesUpTo(k - 1)
       /\ \A l \in DOMAIN Stages : \A v \in Stages[l] : l >= k => v \notin Reads[u]
  /\ \A k \in DOMAIN Stages : \A f \in Patches[k] :
       /\ f \in Units
       /\ \E j \in DOMAIN Stages : j < k /\ f \in Stages[j]
       /\ \A l \in DOMAIN Stages : l < k => \A u \in Stages[l] : f \notin Reads[u]
<1>1. Len(Stages) \in Nat /\ Len(Stages) >= 1 /\ Units \cap Sources = {}
  BY BuildAssumption
<1>2. DOMAIN Stages = 1..Len(Stages) /\ DOMAIN Patches = 1..Len(Stages)
  BY BuildAssumption
<1>3. \A k \in DOMAIN Stages : Stages[k] \subseteq Units
  BY BuildAssumption
<1>4. \A k, l \in DOMAIN Stages : \A u \in Stages[k] : u \in Stages[l] => k = l
  BY StagesInOrder
<1>5. ASSUME NEW k \in DOMAIN Stages, NEW u \in Stages[k]
      PROVE  /\ Reads[u] \subseteq FilesUpTo(k - 1)
             /\ \A l \in DOMAIN Stages : \A v \in Stages[l] : l >= k => v \notin Reads[u]
  <2>1. Reads[u] \subseteq FilesUpTo(k - 1)
    BY StagesInOrder DEF FilesUpTo
  <2>3. ASSUME NEW l \in DOMAIN Stages, NEW v \in Stages[l], l >= k PROVE v \notin FilesUpTo(k - 1)
    BY <2>3, <1>1, <1>2, <1>3, <1>4 DEF FilesUpTo
  <2>. QED BY <2>1, <2>3
<1>6. ASSUME NEW k \in DOMAIN Stages, NEW f \in Patches[k]
      PROVE  /\ f \in Units
             /\ \E j \in DOMAIN Stages : j < k /\ f \in Stages[j]
             /\ \A l \in DOMAIN Stages : l < k => \A u \in Stages[l] : f \notin Reads[u]
  <2>1. k \in DOMAIN Patches /\ k \in 1..Len(Stages)
    BY <1>2
  <2>2. /\ \E j \in 1..(k - 1) : f \in Stages[j]
        /\ \A j \in 1..(k - 1) : \A u \in Stages[j] : f \notin Reads[u]
    BY <2>1, StagesInOrder
  <2>. QED BY <2>1, <2>2, <1>1, <1>2, <1>3
<1>. QED BY <1>1, <1>2, <1>3, <1>4, <1>5, <1>6

\* What a unit reads, sees and owns.
LEMMA Dependencies ==
  \A u \in Units :
    /\ u \in Files /\ u \notin Sources
    /\ \E k \in DOMAIN Stages : u \in Stages[k]
    /\ Own(u) \subseteq Seen(u) /\ Seen(u) \subseteq Reads[u] /\ Reads[u] \subseteq Files
    /\ u \notin Reads[u]
<1>. SUFFICES ASSUME NEW u \in Units
              PROVE  /\ \E k \in DOMAIN Stages : u \in Stages[k]
                     /\ Own(u) \subseteq Seen(u) /\ Seen(u) \subseteq Reads[u] /\ Reads[u] \subseteq Files
                     /\ u \notin Reads[u]
  BY Order DEF Files
<1>1. PICK k \in DOMAIN Stages : u \in Stages[k]
  BY StagesInOrder
<1>2. Own(u) \subseteq Seen(u) /\ Seen(u) \subseteq Reads[u]
  BY BuildAssumption DEF Own
<1>3. k \in Int /\ k >= k
  BY Order
<1>4. Reads[u] \subseteq FilesUpTo(k - 1) /\ u \notin Reads[u]
  BY <1>1, <1>3, Order
<1>5. FilesUpTo(k - 1) \subseteq Files
  BY <1>3, Order DEF FilesUpTo, Files
<1>. QED BY <1>1, <1>2, <1>4, <1>5

-----------------------------------------------------------------------------
(* The ages of contents.                                                   *)

\* The content S of f with the mark that it has when it is read.
Done(f, S) == IF f \in Sources THEN S
              ELSE {[command |-> c.command, from |-> c.from, patched |-> f \in AllPatched] : c \in S}

Target(u, c) ==
  /\ c = [command |-> c.command, from |-> c.from, patched |-> u \in AllPatched]
  /\ c.from = [f \in Reads[u] |-> c.from[f]]
  /\ c.command \in Nat /\ c.command <= Command(u)

\* A[f] gives each content that f has had the time it was first written: no two
\* have one age, none is newer than the present options and sources, and what a
\* target was made from was never newer than what a later one was made from.
Ages(A) ==
  /\ \A f \in Files : \A S \in DOMAIN A[f] : A[f][S] \in Nat /\ A[f][S] <= clock
  /\ \A f \in Files : \A S, T \in DOMAIN A[f] : A[f][S] = A[f][T] => S = T
  /\ \A f \in Sources : \A S \in DOMAIN A[f] :
       \E v \in Nat : S = {v} /\ \A w \in content[f] : v <= w
  /\ \A u \in Units : \A S \in DOMAIN A[u] :
       \E c : S = {c} /\ Target(u, c) /\ \A f \in Reads[u] : c.from[f] \in DOMAIN A[f]
  /\ \A u \in Units : \A S, T \in DOMAIN A[u] : A[u][S] <= A[u][T] =>
       \A c \in S, d \in T :
         c.command <= d.command /\ \A f \in Reads[u] : A[f][c.from[f]] <= A[f][d.from[f]]

\* S is the newest content of f.
Newest(A, f, S) == S \in DOMAIN A[f] /\ \A T \in DOMAIN A[f] : A[f][T] <= A[f][S]

Latest(A) == \A f \in Files : content[f] # {} => Newest(A, f, Done(f, content[f]))

\* A saved hash is of a content the file has had, and no newer than what the
\* units that own the file were made from.
Saved(A) ==
  /\ \A f \in Files : savedHash[f] # {} => savedHash[f] \in DOMAIN A[f]
  /\ \A u \in Units : \A c \in content[u] : \A f \in Own(u) :
       savedHash[f] = {} \/ A[f][savedHash[f]] <= A[f][c.from[f]]

HashInv == \E A : Ages(A) /\ Latest(A) /\ Saved(A)

SourcesInv == \A f \in Sources : \E v \in Nat : content[f] = {v}

TargetsInv == \A u \in Units : content[u] # {} =>
  \E a, b, p : content[u] = {[command |-> a, from |-> b, patched |-> p]}

\* What is read carries its mark.
LEMMA DoneIs ==
  ASSUME TargetsInv, NEW f \in Files, \A c \in content[f] : f \in Units => c.patched = (f \in AllPatched)
  PROVE  Done(f, content[f]) = content[f]
<1>1. CASE f \in Sources
  BY <1>1 DEF Done
<1>2. CASE f \notin Sources
  <2>1. f \in Units
    BY <1>2 DEF Files
  <2>2. CASE content[f] = {}
    BY <2>2 DEF Done
  <2>3. CASE content[f] # {}
    <3>1. PICK a, b, p : content[f] = {[command |-> a, from |-> b, patched |-> p]}
      BY <2>1, <2>3 DEF TargetsInv
    <3>2. p = (f \in AllPatched)
      BY <2>1, <3>1
    <3>. QED BY <1>2, <3>1, <3>2 DEF Done
  <2>. QED BY <2>2, <2>3
<1>. QED BY <1>1, <1>2

LEMMA DoneOne ==
  ASSUME NEW u \in Units, NEW d, content[u] = {d}
  PROVE  Done(u, content[u]) = {[command |-> d.command, from |-> d.from, patched |-> u \in AllPatched]}
BY Dependencies DEF Done

\* What a present target was made from is known.
LEMMA Reached ==
  ASSUME TargetsInv, NEW A, Ages(A), Latest(A), NEW u \in Units, NEW c \in content[u], NEW f \in Reads[u]
  PROVE  c.from[f] \in DOMAIN A[f]
<1>1. PICK a, b, p : content[u] = {[command |-> a, from |-> b, patched |-> p]}
  BY DEF TargetsInv
<1>2. content[u] = {c}
  BY <1>1
<1>. DEFINE m == [command |-> c.command, from |-> c.from, patched |-> u \in AllPatched]
<1>3. {m} \in DOMAIN A[u]
  <2>1. Done(u, content[u]) = {m} /\ content[u] # {} /\ u \in Files
    BY <1>2, DoneOne, Dependencies
  <2>. QED BY <2>1 DEF Latest, Newest
<1>4. m.from = c.from
  OBVIOUS
<1>. HIDE DEF m
<1>5. PICK x : {m} = {x} /\ \A g \in Reads[u] : x.from[g] \in DOMAIN A[g]
  BY <1>3 DEF Ages
<1>. QED BY <1>4, <1>5

\* A hash that fits a file that u owns is of what u was made from.
LEMMA HashFits ==
  ASSUME TargetsInv, HashInv, NEW u \in Units, NEW c \in content[u], NEW f \in Own(u),
         savedHash[f] = content[f], content[f] # {}, Done(f, content[f]) = content[f]
  PROVE  c.from[f] = content[f]
<1>1. PICK A : Ages(A) /\ Latest(A) /\ Saved(A)
  BY DEF HashInv
<1>2. f \in Files /\ f \in Reads[u]
  BY Dependencies
<1>. DEFINE S == content[f]
            T == c.from[f]
<1>3. S \in DOMAIN A[f] /\ \A X \in DOMAIN A[f] : A[f][X] <= A[f][S]
  BY <1>1, <1>2 DEF Latest, Newest
<1>4. T \in DOMAIN A[f]
  BY <1>1, <1>2, Reached
<1>5. A[f][S] <= A[f][T]
  BY <1>1 DEF Saved
<1>. HIDE DEF S, T
<1>6. A[f][T] <= A[f][S] /\ A[f][S] \in Nat /\ A[f][T] \in Nat
  BY <1>1, <1>2, <1>3, <1>4 DEF Ages
<1>7. A[f][S] = A[f][T]
  BY <1>5, <1>6
<1>8. S = T
  BY <1>1, <1>2, <1>3, <1>4, <1>7 DEF Ages
<1>. QED BY <1>8 DEF S, T

\* Options and versions only grow.
Grows ==
  /\ options \in Nat /\ options' \in Nat /\ options <= options'
  /\ clock \in Nat /\ clock' \in Nat /\ clock <= clock'
  /\ \A f \in Sources : \E v, w \in Nat : content[f] = {v} /\ content'[f] = {w} /\ v <= w

\* What is known stays known.
LEMMA AgesStay ==
  ASSUME Grows, NEW A, Ages(A) PROVE Ages(A)'
<1>1. ASSUME NEW f \in Sources, NEW S \in DOMAIN A[f]
      PROVE  \E v \in Nat : S = {v} /\ \A w \in content'[f] : v <= w
  <2>1. PICK v \in Nat : S = {v} /\ \A w \in content[f] : v <= w
    BY DEF Ages
  <2>2. PICK x, y \in Nat : content[f] = {x} /\ content'[f] = {y} /\ x <= y
    BY DEF Grows
  <2>3. v <= x
    BY <2>1, <2>2
  <2>. QED BY <2>1, <2>2, <2>3
<1>2. ASSUME NEW u \in Units, NEW S \in DOMAIN A[u]
      PROVE  \E c : S = {c} /\ Target(u, c)' /\ \A f \in Reads[u] : c.from[f] \in DOMAIN A[f]
  <2>1. PICK c : S = {c} /\ Target(u, c) /\ \A f \in Reads[u] : c.from[f] \in DOMAIN A[f]
    BY DEF Ages
  <2>2. c.command <= Command(u)'
    BY <2>1 DEF Target, Grows, Command
  <2>3. Target(u, c)'
    BY <2>1, <2>2 DEF Target, AllPatched
  <2>. QED BY <2>1, <2>3
<1>3. ASSUME NEW f \in Files, NEW S \in DOMAIN A[f]
      PROVE  A[f][S] \in Nat /\ A[f][S] <= clock'
  <2>1. A[f][S] \in Nat /\ A[f][S] <= clock
    BY DEF Ages
  <2>. QED BY <2>1 DEF Grows
<1>4. /\ \A f \in Files : \A S, T \in DOMAIN A[f] : A[f][S] = A[f][T] => S = T
      /\ \A u \in Units : \A S, T \in DOMAIN A[u] : A[u][S] <= A[u][T] =>
           \A c \in S, d \in T :
             c.command <= d.command /\ \A f \in Reads[u] : A[f][c.from[f]] <= A[f][d.from[f]]
  BY DEF Ages
<1>. QED BY <1>1, <1>2, <1>3, <1>4 DEF Ages, Files

\* A step that makes no content that has not been there, but for the mark.
LEMMA HashStays ==
  ASSUME Grows, TargetsInv, HashInv, savedHash' = savedHash,
         \A f \in Files : content'[f] # {} =>
           content[f] # {} /\ Done(f, content'[f]) = Done(f, content[f]),
         \A u \in Units : \A c \in content'[u] : \E d \in content[u] : c.from = d.from
  PROVE  HashInv'
<1>1. PICK A : Ages(A) /\ Latest(A) /\ Saved(A)
  BY DEF HashInv
<1>2. Ages(A)'
  BY <1>1, AgesStay
<1>3. \A f \in Files : content'[f] # {} => Newest(A, f, Done(f, content'[f]))
  BY <1>1 DEF Latest
<1>4. ASSUME NEW u \in Units, NEW c \in content'[u], NEW f \in Own(u)
      PROVE  savedHash[f] = {} \/ A[f][savedHash[f]] <= A[f][c.from[f]]
  <2>1. PICK d \in content[u] : c.from = d.from
    OBVIOUS
  <2>. QED BY <1>1, <2>1 DEF Saved
<1>5. \A f \in Files : savedHash[f] # {} => savedHash[f] \in DOMAIN A[f]
  BY <1>1 DEF Saved
<1>6. Latest(A)' /\ Saved(A)'
  BY <1>3, <1>4, <1>5 DEF Latest, Saved, Newest, Done, AllPatched, Files, Own, Seen, SeenEarlier
<1>. QED BY <1>2, <1>6 DEF HashInv

\* A content that has not been there gets the present time.
LEMMA NewContent ==
  ASSUME Grows, clock' = clock + 1, NEW A, Ages(A), NEW g \in Files, NEW S, S \notin DOMAIN A[g],
         g \in Sources => \E v \in Nat : S = {v} /\ \A w \in content'[g] : v <= w,
         g \in Units => \E c :
           /\ S = {c} /\ Target(g, c)' /\ \A f \in Reads[g] : c.from[f] \in DOMAIN A[f]
           /\ \A T \in DOMAIN A[g] : \A d \in T :
                d.command <= c.command /\ \A f \in Reads[g] : A[f][d.from[f]] <= A[f][c.from[f]]
  PROVE  \E B : /\ Ages(B)' /\ \A f \in Files : f # g => B[f] = A[f]
                /\ \A T \in DOMAIN A[g] : T \in DOMAIN B[g] /\ B[g][T] = A[g][T]
                /\ Newest(B, g, S)
<1>0. PICK t : t = clock + 1
  OBVIOUS
<1>. DEFINE X == [T \in DOMAIN A[g] \cup {S} |-> IF T = S THEN t ELSE A[g][T]]
            B == [f \in Files |-> IF f = g THEN X ELSE A[f]]
<1>1. /\ DOMAIN X = DOMAIN A[g] \cup {S} /\ X[S] = t /\ \A T \in DOMAIN A[g] : X[T] = A[g][T]
      /\ B[g] = X /\ \A f \in Files : f # g => B[f] = A[f]
  OBVIOUS
<1>. HIDE DEF X, B
<1>2. /\ DOMAIN B[g] = DOMAIN A[g] \cup {S} /\ B[g][S] = clock'
      /\ \A T \in DOMAIN A[g] : B[g][T] = A[g][T]
  BY <1>0, <1>1
<1>3. Ages(A)'
  BY AgesStay
<1>4. \A f \in Files : \A T \in DOMAIN A[f] : T \in DOMAIN B[f] /\ B[f][T] = A[f][T]
  BY <1>1, <1>2
<1>5. \A f \in Files : \A T \in DOMAIN B[f] : T \in DOMAIN A[f] \/ (f = g /\ T = S)
  BY <1>1, <1>2
<1>6. clock' \in Nat /\ clock \in Nat /\ clock' > clock
  BY DEF Grows
<1>7. \A f \in Files : \A T \in DOMAIN A[f] : A[f][T] \in Nat /\ A[f][T] < clock'
  BY <1>6 DEF Ages
<1>8. \A f \in Files : \A T \in DOMAIN B[f] : B[f][T] \in Nat /\ B[f][T] <= clock'
  BY <1>2, <1>4, <1>5, <1>6, <1>7
<1>9. ASSUME NEW f \in Files, NEW T \in DOMAIN B[f], NEW U \in DOMAIN B[f], B[f][T] = B[f][U]
      PROVE  T = U
  <2>1. CASE T \in DOMAIN A[f] /\ U \in DOMAIN A[f]
    BY <2>1, <1>4, <1>9 DEF Ages
  <2>2. CASE ~(T \in DOMAIN A[f] /\ U \in DOMAIN A[f])
    BY <2>2, <1>2, <1>4, <1>5, <1>6, <1>7, <1>9
  <2>. QED BY <2>1, <2>2
<1>10. ASSUME NEW f \in Sources, NEW T \in DOMAIN B[f]
       PROVE  \E v \in Nat : T = {v} /\ \A w \in content'[f] : v <= w
  <2>0. f \in Files
    BY DEF Files
  <2>1. CASE T \in DOMAIN A[f]
    BY <2>1, <1>3 DEF Ages
  <2>2. CASE f = g /\ T = S
    BY <2>2
  <2>. QED BY <2>0, <2>1, <2>2, <1>5
<1>11. ASSUME NEW u \in Units, NEW T \in DOMAIN B[u]
       PROVE  \E c : T = {c} /\ Target(u, c)' /\ \A f \in Reads[u] : c.from[f] \in DOMAIN B[f]
  <2>0. u \in Files /\ Reads[u] \subseteq Files
    BY Dependencies
  <2>1. PICK c : T = {c} /\ Target(u, c)' /\ \A f \in Reads[u] : c.from[f] \in DOMAIN A[f]
    <3>1. CASE T \in DOMAIN A[u]
      BY <3>1, <1>3 DEF Ages
    <3>2. CASE u = g /\ T = S
      BY <3>2
    <3>. QED BY <2>0, <3>1, <3>2, <1>5
  <2>. QED BY <2>0, <2>1, <1>4
<1>12. ASSUME NEW u \in Units, NEW T \in DOMAIN B[u], NEW U \in DOMAIN B[u], B[u][T] <= B[u][U],
              NEW c \in T, NEW d \in U
       PROVE  c.command <= d.command /\ \A f \in Reads[u] : B[f][c.from[f]] <= B[f][d.from[f]]
  <2>0. u \in Files /\ Reads[u] \subseteq Files
    BY Dependencies
  <2>1. \A f \in Reads[u] : c.from[f] \in DOMAIN A[f] /\ d.from[f] \in DOMAIN A[f]
    <3>1. \A V \in DOMAIN B[u] : \A x \in V : \A f \in Reads[u] : x.from[f] \in DOMAIN A[f]
      <4>1. ASSUME NEW V \in DOMAIN A[u], NEW x \in V PROVE \A f \in Reads[u] : x.from[f] \in DOMAIN A[f]
        BY <4>1 DEF Ages
      <4>2. ASSUME u = g, NEW x \in S PROVE \A f \in Reads[u] : x.from[f] \in DOMAIN A[f]
        BY <4>2
      <4>. QED BY <2>0, <4>1, <4>2, <1>5
    <3>. QED BY <3>1
  <2>2. c.command <= d.command /\ \A f \in Reads[u] : A[f][c.from[f]] <= A[f][d.from[f]]
    <3>1. CASE T \in DOMAIN A[u] /\ U \in DOMAIN A[u]
      <4>1. A[u][T] <= A[u][U]
        BY <2>0, <3>1, <1>4, <1>12
      <4>. QED BY <3>1, <4>1 DEF Ages
    <3>2. CASE u = g /\ T = S /\ U = S
      <4>1. PICK x : S = {x} /\ Target(g, x)' /\ \A f \in Reads[g] : x.from[f] \in DOMAIN A[f]
        BY <3>2
      <4>2. c = x /\ d = x /\ x.command \in Nat
        BY <3>2, <4>1 DEF Target
      <4>3. \A f \in Reads[u] : A[f][x.from[f]] \in Nat
        BY <2>0, <3>2, <4>1 DEF Ages
      <4>. QED BY <4>2, <4>3
    <3>3. CASE u = g /\ T \in DOMAIN A[u] /\ U = S
      <4>1. PICK x : S = {x} /\ \A V \in DOMAIN A[g] : \A y \in V :
                y.command <= x.command /\ \A f \in Reads[g] : A[f][y.from[f]] <= A[f][x.from[f]]
        BY <3>3
      <4>2. d = x
        BY <3>3, <4>1
      <4>. QED BY <4>1, <4>2, <3>3
    <3>4. CASE u = g /\ T = S /\ U \in DOMAIN A[u]
      <4>1. B[u][T] = clock' /\ B[u][U] \in Nat /\ B[u][U] < clock'
        BY <3>4, <2>0, <1>2, <1>4, <1>7
      <4>. QED BY <4>1, <1>6, <1>12
    <3>. QED BY <2>0, <3>1, <3>2, <3>3, <3>4, <1>5
  <2>3. \A f \in Reads[u] : B[f][c.from[f]] = A[f][c.from[f]] /\ B[f][d.from[f]] = A[f][d.from[f]]
    BY <2>0, <2>1, <1>4
  <2>. QED BY <2>2, <2>3
<1>13. Ages(B)'
  BY <1>8, <1>9, <1>10, <1>11, <1>12 DEF Ages, Files
<1>14. Newest(B, g, S)
  BY <1>2, <1>8 DEF Newest
<1>. QED BY <1>1, <1>4, <1>13, <1>14

\* One file is written, and its content is now the newest it has had.
LEMMA HashWritten ==
  ASSUME TargetsInv, NEW A, Ages(A), Latest(A), Saved(A), NEW g \in Files,
         NEW B, Ages(B)', \A f \in Files : f # g => B[f] = A[f],
         \A T \in DOMAIN A[g] : T \in DOMAIN B[g] /\ B[g][T] = A[g][T],
         Newest(B, g, Done(g, content'[g])),
         savedHash' = savedHash,
         \A f \in Files : f # g => content'[f] = content[f],
         g \in Units => \A c \in content'[g] : \A f \in Reads[g] : Newest(A, f, c.from[f])
  PROVE  HashInv'
<1>1. \A f \in Files : \A T \in DOMAIN A[f] : T \in DOMAIN B[f] /\ B[f][T] = A[f][T]
  OBVIOUS
<1>2. \A f \in Files : content'[f] # {} => Newest(B, f, Done(f, content'[f]))
  BY DEF Latest, Newest
<1>3. \A f \in Files : savedHash[f] # {} => savedHash[f] \in DOMAIN A[f]
  BY DEF Saved
<1>4. ASSUME NEW u \in Units, NEW c \in content'[u], NEW f \in Own(u), savedHash[f] # {}
      PROVE  B[f][savedHash[f]] <= B[f][c.from[f]]
  <2>0. f \in Files /\ f \in Reads[u] /\ u \in Files
    BY Dependencies
  <2>1. c.from[f] \in DOMAIN A[f] /\ A[f][savedHash[f]] <= A[f][c.from[f]]
    <3>1. CASE u = g
      BY <3>1, <2>0, <1>3, <1>4 DEF Newest
    <3>2. CASE u # g
      <4>1. c \in content[u]
        BY <3>2, <2>0
      <4>2. c.from[f] \in DOMAIN A[f]
        BY <4>1, <2>0, Reached
      <4>3. A[f][savedHash[f]] <= A[f][c.from[f]]
        BY <4>1, <1>4 DEF Saved
      <4>. QED BY <4>2, <4>3
    <3>. QED BY <3>1, <3>2
  <2>2. /\ B[f][savedHash[f]] = A[f][savedHash[f]]
        /\ B[f][c.from[f]] = A[f][c.from[f]]
    BY <2>0, <2>1, <1>1, <1>3, <1>4
  <2>. QED BY <2>1, <2>2
<1>5. Latest(B)'
  BY <1>2 DEF Latest, Newest, Done, AllPatched, Files
<1>6. Saved(B)'
  <2>1. \A f \in Files : savedHash'[f] # {} => savedHash'[f] \in DOMAIN B[f]
    BY <1>1, <1>3
  <2>2. \A u \in Units : \A c \in content'[u] : \A f \in Own(u) :
          savedHash'[f] = {} \/ B[f][savedHash'[f]] <= B[f][c.from[f]]
    BY <1>4
  <2>. QED BY <2>1, <2>2 DEF Saved, Files, Own, Seen, SeenEarlier
<1>. QED BY <1>5, <1>6 DEF HashInv

-----------------------------------------------------------------------------
(* The inductive invariant.                                                *)

\* u is up to date, but for what it does not see or does not own.
Fresh(u) ==
  \E c : content[u] = {c} /\ c.command = Command(u) /\ \A f \in Own(u) : c.from[f] = content[f]

\* u is up to date and the next build sees it: no dependency is newer, or what is
\* newer has the saved hash.
Settled(u) ==
  /\ Fresh(u)
  /\ savedCommand[u] = {Command(u)}
  /\ \A f \in Seen(u) : \/ savedHash[f] = content[f]
                        \/ f \notin AllPatched /\ mtime[f] <= mtime[u]

\* u is up to date and the hashes of all but the files of todo are saved.
Recorded(u, todo) ==
  /\ Fresh(u)
  /\ savedCommand[u] = {Command(u)}
  /\ \A f \in Seen(u) \ todo : savedHash[f] = content[f]

Statuses == {"none", "Skipped", "Completed", "Error", "hashing", "updated"}

Types ==
  /\ DOMAIN content = Files /\ DOMAIN savedHash = Files
  /\ DOMAIN savedCommand = Units /\ DOMAIN dfile = Units
  /\ mtime \in [Files -> Nat] /\ clock \in Nat /\ \A f \in Files : mtime[f] <= clock
  /\ options \in Nat
  /\ stage \in 0..Len(Stages)
  /\ status \in [Units -> Statuses]
  /\ patched \in BOOLEAN /\ finished \in BOOLEAN

PatchMarks == \A u \in Units \ AllPatched : \A c \in content[u] : c.patched = FALSE

CommandInv == \A u \in Units : savedCommand[u] # {} =>
  \E o \in Nat : /\ savedCommand[u] = {o} /\ o <= Command(u)
                 /\ o = Command(u) => \A c \in content[u] : c.command = Command(u)

DfileInv == \A u \in Units : content[u] # {} => dfile[u] = Listed[u]

\* What u owns and has changed since u was made is newer than u.
TimeInv == \A u \in Units : \A c \in content[u] : \A f \in Own(u) :
  content[f] = {} \/ c.from[f] = content[f] \/ mtime[f] > mtime[u]

StatusInv ==
  /\ \A u \in Units : status[u] # "none" => stage # 0 /\ patched /\ u \in Stages[stage]
  /\ \A u \in Units :
       /\ status[u] = "Skipped" => Settled(u)
       /\ status[u] = "Completed" => Fresh(u)
       /\ status[u] = "hashing" => Recorded(u, toHash) /\ toHash \subseteq Seen(u)
       /\ status[u] = "updated" => Recorded(u, {})
       /\ status[u] = "Error" => content[u] = {} \/ Fresh(u) \/ u \notin Removes
       /\ status[u] \in {"hashing", "updated"} => Pending = {}
  /\ \A u, v \in Units : status[u] = "hashing" /\ status[v] = "hashing" => u = v

StagesInv == \A k \in DOMAIN Stages : k < stage => \A u \in Stages[k] : Settled(u)

\* The units that read a patched file are older, until they run.
PatchInv ==
  \A j \in DOMAIN Stages : j < stage \/ (j = stage /\ patched) => \A f \in Patches[j] :
    /\ \A c \in content[f] : c.patched = TRUE
    /\ \A l \in DOMAIN Stages : \A u \in Stages[l] :
         l > stage \/ (l = stage /\ status[u] \in {"none", "Skipped"}) => mtime[f] > mtime[u]

FinishInv == finished =>
  /\ \A k \in DOMAIN Stages : \A u \in Stages[k] : Settled(u)
  /\ \A f \in AllPatched : \A c \in content[f] : c.patched = TRUE
  /\ \A u \in Units : status[u] \in {"none", "Skipped"}

IInv ==
  /\ Types /\ SourcesInv /\ TargetsInv /\ HashInv /\ PatchMarks /\ CommandInv /\ DfileInv
  /\ TimeInv /\ StatusInv /\ StagesInv /\ PatchInv /\ FinishInv

\* What is patched before it is read has been patched when it is read.
LEMMA PatchedBefore ==
  ASSUME NEW k \in DOMAIN Stages, NEW u \in Stages[k], NEW f \in Reads[u], f \in AllPatched
  PROVE  \E j \in DOMAIN Stages : j <= k /\ f \in Patches[j]
<1>1. PICK j \in DOMAIN Stages : f \in Patches[j]
  BY Order DEF AllPatched
<1>2. ~(k < j)
  BY <1>1, Order
<1>. QED BY <1>1, <1>2, Order

\* A file that a stage reads carries its mark.
LEMMA Marked ==
  ASSUME IInv, stage # 0, patched, NEW u \in Stages[stage],
         NEW f \in Reads[u] \cap Units, NEW d \in content[f]
  PROVE  d.patched = (f \in AllPatched)
<1>0. stage \in DOMAIN Stages /\ stage \in Nat
  BY Order DEF IInv, Types
<1>1. CASE f \in AllPatched
  <2>1. PICK j \in DOMAIN Stages : j <= stage /\ f \in Patches[j]
    BY <1>0, <1>1, PatchedBefore
  <2>2. d.patched = TRUE
    BY <2>1, <1>0, Order DEF IInv, PatchInv
  <2>. QED BY <2>2, <1>1
<1>2. CASE f \notin AllPatched
  <2>1. d.patched = FALSE
    BY <1>2 DEF IInv, PatchMarks
  <2>2. (f \in AllPatched) = FALSE
    BY <1>2
  <2>. QED BY <2>1, <2>2
<1>. QED BY <1>1, <1>2

\* What a stage reads is the newest content of its file.
LEMMA ReadNewest ==
  ASSUME IInv, stage # 0, patched, NEW u \in Stages[stage], NEW f \in Reads[u], content[f] # {}
  PROVE  /\ Done(f, content[f]) = content[f]
         /\ \A A : Latest(A) => Newest(A, f, content[f])
<1>1. u \in Units /\ f \in Files
  <2>1. stage \in DOMAIN Stages
    BY Order DEF IInv, Types
  <2>. QED BY <2>1, Order, Dependencies
<1>2. Done(f, content[f]) = content[f]
  BY <1>1, Marked, DoneIs DEF IInv
<1>. QED BY <1>1, <1>2 DEF Latest

\* What a build skips is up to date.
LEMMA SkippedSettled ==
  ASSUME IInv, stage # 0, patched, NEW u \in Pending, ~IsNeedDoAction(u)
  PROVE  Settled(u)
<1>0. /\ stage \in DOMAIN Stages /\ stage \in Nat /\ u \in Stages[stage] /\ u \in Units
      /\ status[u] = "none"
  BY Order DEF IInv, Types, Pending
<1>00. Own(u) \subseteq Seen(u) /\ Seen(u) \subseteq Reads[u] /\ Reads[u] \subseteq Files /\ u \in Files
  BY <1>0, Dependencies
<1>1. savedCommand[u] = {Command(u)}
  BY DEF IsNeedDoAction, IsCommandChanged
<1>2. content[u] # {}
  <2>1. PICK f : f \in Given[u]
    BY <1>0, BuildAssumption
  <2>. QED BY <2>1 DEF IsNeedDoAction, DependFiles, IsFileChanged
<1>3. DependFiles(u) = Seen(u)
  BY <1>0, <1>2 DEF DependFiles, Seen, IInv, DfileInv
<1>4. PICK c : content[u] = {c}
  BY <1>0, <1>2 DEF IInv, TargetsInv
<1>5. c.command = Command(u)
  <2>1. PICK o \in Nat : /\ savedCommand[u] = {o}
                         /\ o = Command(u) => \A d \in content[u] : d.command = Command(u)
    BY <1>0, <1>1 DEF IInv, CommandInv
  <2>. QED BY <2>1, <1>1, <1>4
<1>6. ASSUME NEW f \in Seen(u)
      PROVE  /\ f \in Own(u) => c.from[f] = content[f]
             /\ savedHash[f] = content[f] \/ (f \notin AllPatched /\ mtime[f] <= mtime[u])
  <2>0. f \in Reads[u] /\ f \in Files /\ mtime[f] \in Nat /\ mtime[u] \in Nat
    BY <1>00 DEF IInv, Types
  <2>1. content[f] # {} /\ (mtime[f] <= mtime[u] \/ (savedHash[f] = content[f] /\ savedHash[f] # {}))
    BY <1>3, <2>0 DEF IsNeedDoAction, IsFileChanged, IsHashChanged
  <2>2. CASE mtime[f] <= mtime[u]
    <3>1. f \in Own(u) => c.from[f] = content[f]
      BY <2>0, <2>1, <2>2, <1>0, <1>4 DEF IInv, TimeInv
    <3>2. ASSUME f \in AllPatched PROVE FALSE
      <4>1. PICK j \in DOMAIN Stages : j <= stage /\ f \in Patches[j]
        BY <1>0, <2>0, <3>2, PatchedBefore
      <4>2. mtime[f] > mtime[u]
        BY <4>1, <1>0, Order DEF IInv, PatchInv
      <4>. QED BY <4>2, <2>2, <2>0
    <3>. QED BY <3>1, <3>2, <2>2
  <2>3. CASE savedHash[f] = content[f] /\ savedHash[f] # {}
    <3>1. Done(f, content[f]) = content[f]
      BY <1>0, <2>0, <2>1, ReadNewest
    <3>2. f \in Own(u) => c.from[f] = content[f]
      BY <1>0, <1>4, <2>3, <3>1, HashFits DEF IInv
    <3>. QED BY <3>2, <2>3
  <2>. QED BY <2>1, <2>2, <2>3
<1>. QED BY <1>00, <1>1, <1>4, <1>5, <1>6 DEF Settled, Fresh

\* What is up to date is skipped.
LEMMA SettledSkipped ==
  ASSUME IInv, NEW k \in DOMAIN Stages, NEW u \in Stages[k], Settled(u),
         \A j \in DOMAIN Stages : j < k => \A v \in Stages[j] : Fresh(v)
  PROVE  ~IsNeedDoAction(u)
<1>0. u \in Units /\ Reads[u] \subseteq FilesUpTo(k - 1) /\ k \in Nat
  BY Order
<1>00. Seen(u) \subseteq Reads[u] /\ Reads[u] \subseteq Files /\ u \in Files
  BY <1>0, Dependencies
<1>1. content[u] # {} /\ savedCommand[u] = {Command(u)}
  BY DEF Settled, Fresh
<1>2. DependFiles(u) = Seen(u)
  BY <1>0, <1>1 DEF DependFiles, Seen, IInv, DfileInv
<1>3. ASSUME NEW f \in Seen(u) PROVE ~IsFileChanged(u, f)
  <2>1. content[f] # {}
    <3>1. f \in Sources \/ \E j \in DOMAIN Stages : j < k /\ f \in Stages[j]
      BY <1>0, <1>00, Order DEF FilesUpTo
    <3>. QED BY <3>1 DEF IInv, SourcesInv, Fresh
  <2>2. mtime[f] \in Nat /\ mtime[u] \in Nat
    BY <1>00 DEF IInv, Types
  <2>3. savedHash[f] = content[f] \/ mtime[f] <= mtime[u]
    BY DEF Settled
  <2>. QED BY <2>1, <2>2, <2>3, <1>1 DEF IsFileChanged, IsHashChanged
<1>. QED BY <1>1, <1>2, <1>3 DEF IsNeedDoAction, IsCommandChanged

-----------------------------------------------------------------------------
(* What steps preserve.                                                    *)

LEMMA FreshStays ==
  ASSUME NEW u, Fresh(u), options' = options, content'[u] = content[u],
         \A f \in Own(u) : content'[f] = content[f]
  PROVE  Fresh(u)'
<1>1. PICK c : content[u] = {c} /\ c.command = Command(u) /\ \A f \in Own(u) : c.from[f] = content[f]
  BY DEF Fresh
<1>2. content'[u] = {c} /\ \A f \in Own(u) : c.from[f] = content'[f]
  BY <1>1
<1>3. c.command = Command(u)'
  BY <1>1 DEF Command
<1>. QED BY <1>2, <1>3 DEF Fresh, Own, Seen, SeenEarlier

LEMMA SettledStays ==
  ASSUME NEW u, u \in Units, Settled(u), options' = options, content'[u] = content[u],
         savedCommand'[u] = savedCommand[u], mtime'[u] = mtime[u],
         \A f \in Seen(u) : /\ content'[f] = content[f] /\ mtime'[f] = mtime[f]
                            /\ savedHash'[f] = savedHash[f] \/ savedHash'[f] = content[f]
  PROVE  Settled(u)'
<1>1. Fresh(u)'
  BY FreshStays, Dependencies DEF Settled
<1>2. savedCommand'[u] = {Command(u)'}
  BY DEF Settled, Command
<1>3. ASSUME NEW f \in Seen(u)
      PROVE  \/ savedHash'[f] = content'[f]
             \/ f \notin AllPatched /\ mtime'[f] <= mtime'[u]
  BY DEF Settled
<1>. QED BY <1>1, <1>2, <1>3 DEF Settled, AllPatched, Seen

LEMMA RecordedStays ==
  ASSUME NEW u, u \in Units, NEW T, Recorded(u, T), options' = options, content'[u] = content[u],
         savedCommand'[u] = savedCommand[u],
         \A f \in Seen(u) : /\ content'[f] = content[f]
                            /\ savedHash'[f] = savedHash[f] \/ savedHash'[f] = content[f]
  PROVE  Recorded(u, T)'
<1>1. Fresh(u)'
  BY FreshStays, Dependencies DEF Recorded
<1>2. savedCommand'[u] = {Command(u)'}
  BY DEF Recorded, Command
<1>3. \A f \in Seen(u) \ T : savedHash'[f] = content'[f]
  BY DEF Recorded
<1>. QED BY <1>1, <1>2, <1>3 DEF Recorded, Seen

\* The parts of the invariant that are about files alone.
FilesInv ==
  SourcesInv /\ TargetsInv /\ HashInv /\ PatchMarks /\ CommandInv /\ DfileInv /\ TimeInv

\* A step that writes no source and changes no options.
LEMMA GrowsStays ==
  ASSUME IInv, options' = options, clock' \in Nat, clock <= clock',
         \A f \in Sources : content'[f] = content[f]
  PROVE  Grows
<1>1. options \in Nat /\ options <= options /\ clock \in Nat
  BY DEF IInv, Types
<1>2. ASSUME NEW f \in Sources
      PROVE  \E v, w \in Nat : content[f] = {v} /\ content'[f] = {w} /\ v <= w
  <2>1. PICK v \in Nat : content[f] = {v}
    BY DEF IInv, SourcesInv
  <2>2. content'[f] = {v} /\ v <= v
    BY <2>1
  <2>. QED BY <2>1, <2>2
<1>. QED BY <1>1, <1>2 DEF Grows

LEMMA TimeStays ==
  ASSUME TimeInv, UNCHANGED <<content, mtime>> PROVE TimeInv'
BY DEF TimeInv, Own, Seen, SeenEarlier

\* The present command of a unit stays what it is.
LEMMA CommandStays ==
  ASSUME CommandInv, options' = options, savedCommand' = savedCommand,
         \A u \in Units : \A c \in content'[u] : \E d \in content[u] : c.command = d.command
  PROVE  CommandInv'
<1>1. ASSUME NEW u \in Units, savedCommand[u] # {}
      PROVE  \E o \in Nat : /\ savedCommand[u] = {o} /\ o <= Command(u)
                            /\ o = Command(u) => \A c \in content'[u] : c.command = Command(u)
  <2>1. PICK o \in Nat : /\ savedCommand[u] = {o} /\ o <= Command(u)
                         /\ o = Command(u) => \A c \in content[u] : c.command = Command(u)
    BY <1>1 DEF CommandInv
  <2>2. o = Command(u) => \A c \in content'[u] : c.command = Command(u)
    BY <2>1
  <2>. QED BY <2>1, <2>2
<1>2. \A u : Command(u)' = Command(u)
  BY DEF Command
<1>. QED BY <1>1, <1>2 DEF CommandInv

LEMMA DiskStays ==
  ASSUME IInv, UNCHANGED <<disk, options>>
  PROVE  FilesInv' /\ \A u \in Units : Settled(u) => Settled(u)'
<1>. USE DEF disk
<1>1. Grows
  BY GrowsStays DEF IInv, Types
<1>2. SourcesInv' /\ TargetsInv'
  BY DEF IInv, SourcesInv, TargetsInv
<1>3. HashInv'
  BY <1>1, HashStays DEF IInv
<1>4. PatchMarks' /\ DfileInv'
  BY DEF IInv, PatchMarks, DfileInv, AllPatched
<1>5. CommandInv' /\ TimeInv'
  BY CommandStays, TimeStays DEF IInv
<1>6. ASSUME NEW u \in Units, Settled(u) PROVE Settled(u)'
  BY <1>6, SettledStays
<1>. QED BY <1>2, <1>3, <1>4, <1>5, <1>6 DEF FilesInv

\* A new stage begins: what is to show is that the earlier ones are done.
LEMMA EnterInv ==
  ASSUME IInv, UNCHANGED <<disk, options>>, NEW k \in 0..Len(Stages), EnterStage(k), finished' \in BOOLEAN,
         \A j \in DOMAIN Stages : j < k =>
           /\ \A u \in Stages[j] : Settled(u)
           /\ \A f \in Patches[j] :
                /\ \A c \in content[f] : c.patched = TRUE
                /\ \A l \in DOMAIN Stages : \A u \in Stages[l] : l >= k => mtime[f] > mtime[u],
         finished' =>
           /\ \A j \in DOMAIN Stages : \A u \in Stages[j] : Settled(u)
           /\ \A f \in AllPatched : \A c \in content[f] : c.patched = TRUE
  PROVE  IInv'
<1>. USE DEF disk, EnterStage
<1>1. FilesInv' /\ \A u \in Units : Settled(u) => Settled(u)'
  BY DiskStays
<1>2. Types'
  BY DEF IInv, Types, Statuses, Files
<1>3. \A u \in Units : status'[u] = "none"
  OBVIOUS
<1>4. StatusInv'
  BY <1>3 DEF StatusInv, Pending
<1>5. StagesInv'
  BY <1>1, Order DEF StagesInv
<1>6. PatchInv'
  <2>1. ASSUME NEW j \in DOMAIN Stages, j < k \/ (j = k /\ patched'), NEW f \in Patches[j]
        PROVE  /\ \A c \in content'[f] : c.patched = TRUE
               /\ \A l \in DOMAIN Stages : \A u \in Stages[l] :
                    l > k \/ (l = k /\ status'[u] \in {"none", "Skipped"}) => mtime'[f] > mtime'[u]
    <3>1. j < k
      BY <2>1
    <3>. QED BY <3>1, <2>1, Order
  <2>. QED BY <2>1 DEF PatchInv
<1>7. FinishInv'
  <2>1. CASE finished'
    <3>1. \A j \in DOMAIN Stages : \A u \in Stages[j] : Settled(u)'
      BY <2>1, <1>1, Order
    <3>2. \A f \in AllPatched : \A c \in content'[f] : c.patched = TRUE
      BY <2>1
    <3>. QED BY <3>1, <3>2, <1>3 DEF FinishInv, AllPatched
  <2>2. CASE ~finished'
    BY <2>2 DEF FinishInv
  <2>. QED BY <2>1, <2>2
<1>. QED BY <1>1, <1>2, <1>4, <1>5, <1>6, <1>7 DEF IInv, FilesInv

LEMMA StartBuildInv == ASSUME IInv, StartBuild PROVE IInv'
<1>1. /\ UNCHANGED <<disk, options>> /\ EnterStage(1) /\ finished' = finished /\ finished' \in BOOLEAN
      /\ 1 \in 0..Len(Stages)
  BY Order DEF StartBuild, IInv, Types
<1>2. \A j \in DOMAIN Stages : ~(j < 1)
  BY Order
<1>3. finished' =>
        /\ \A j \in DOMAIN Stages : \A u \in Stages[j] : Settled(u)
        /\ \A f \in AllPatched : \A c \in content[f] : c.patched = TRUE
  BY <1>1 DEF IInv, FinishInv
<1>. QED BY <1>1, <1>2, <1>3, EnterInv

LEMMA StopInv == ASSUME IInv, Stop \/ Kill PROVE IInv'
<1>1. UNCHANGED <<disk, options>> /\ EnterStage(0) /\ finished' = FALSE /\ 0 \in 0..Len(Stages)
  BY Order DEF Stop, Kill
<1>2. \A j \in DOMAIN Stages : ~(j < 0)
  BY Order
<1>. QED BY <1>1, <1>2, EnterInv

\* Every unit of the stage is settled, since none has the error status.
LEMMA StageSettled ==
  ASSUME IInv, StageOver, ~HasError
  PROVE  /\ stage \in DOMAIN Stages /\ stage \in Nat
         /\ \A j \in DOMAIN Stages : j <= stage =>
              /\ \A u \in Stages[j] : Settled(u)
              /\ \A f \in Patches[j] :
                   /\ \A c \in content[f] : c.patched = TRUE
                   /\ \A l \in DOMAIN Stages : \A u \in Stages[l] : l > stage => mtime[f] > mtime[u]
<1>1. stage \in DOMAIN Stages /\ stage \in Nat /\ patched
  BY Order DEF StageOver, IInv, Types
<1>2. ASSUME NEW u \in Stages[stage] PROVE Settled(u)
  <2>1. u \in Units /\ status[u] \in {"Skipped", "updated"}
    BY <1>1, Order DEF StageOver, HasError
  <2>2. CASE status[u] = "Skipped"
    BY <2>1, <2>2 DEF IInv, StatusInv
  <2>3. CASE status[u] = "updated"
    <3>1. Recorded(u, {})
      BY <2>1, <2>3 DEF IInv, StatusInv
    <3>. QED BY <3>1 DEF Recorded, Settled
  <2>. QED BY <2>1, <2>2, <2>3
<1>3. \A j \in DOMAIN Stages : j <= stage => \A u \in Stages[j] : Settled(u)
  BY <1>1, <1>2, Order DEF IInv, StagesInv
<1>4. \A j \in DOMAIN Stages : j <= stage => \A f \in Patches[j] :
        /\ \A c \in content[f] : c.patched = TRUE
        /\ \A l \in DOMAIN Stages : \A u \in Stages[l] : l > stage => mtime[f] > mtime[u]
  BY <1>1, Order DEF IInv, PatchInv
<1>. QED BY <1>1, <1>3, <1>4

LEMMA NextStageInv == ASSUME IInv, NextStage PROVE IInv'
<1>0. DOMAIN Stages = 1..Len(Stages) /\ Len(Stages) \in Nat
  BY Order
<1>1. StageOver /\ ~HasError /\ UNCHANGED <<disk, options>>
  BY DEF NextStage
<1>2. /\ stage \in DOMAIN Stages /\ stage \in Nat
      /\ \A j \in DOMAIN Stages : j <= stage =>
           /\ \A u \in Stages[j] : Settled(u)
           /\ \A f \in Patches[j] :
                /\ \A c \in content[f] : c.patched = TRUE
                /\ \A l \in DOMAIN Stages : \A u \in Stages[l] : l > stage => mtime[f] > mtime[u]
  BY <1>1, StageSettled
<1>3. finished' \in BOOLEAN
  BY DEF NextStage
<1>4. finished' =>
        /\ \A j \in DOMAIN Stages : \A u \in Stages[j] : Settled(u)
        /\ \A f \in AllPatched : \A c \in content[f] : c.patched = TRUE
  <2>1. CASE finished
    BY <2>1 DEF IInv, FinishInv
  <2>2. CASE stage = Len(Stages)
    <3>1. \A j \in DOMAIN Stages : j <= stage
      BY <2>2, Order
    <3>. QED BY <3>1, <1>2, Order DEF AllPatched
  <2>. QED BY <2>1, <2>2 DEF NextStage
<1>5. CASE stage = Len(Stages)
  <2>1. EnterStage(0) /\ 0 \in 0..Len(Stages) /\ \A j \in DOMAIN Stages : ~(j < 0)
    BY <1>5, <1>0 DEF NextStage
  <2>. QED BY <2>1, <1>1, <1>3, <1>4, EnterInv
<1>6. CASE stage # Len(Stages)
  <2>1. EnterStage(stage + 1) /\ stage + 1 \in 0..Len(Stages)
    BY <1>6, <1>2, <1>0 DEF NextStage
  <2>2. \A j \in DOMAIN Stages : j < stage + 1 =>
           /\ \A u \in Stages[j] : Settled(u)
           /\ \A f \in Patches[j] :
                /\ \A c \in content[f] : c.patched = TRUE
                /\ \A l \in DOMAIN Stages : \A u \in Stages[l] : l >= stage + 1 => mtime[f] > mtime[u]
    <3>1. \A j \in DOMAIN Stages : (j < stage + 1 => j <= stage) /\ (j >= stage + 1 => j > stage)
      BY <1>0, <1>2
    <3>. QED BY <1>2, <3>1
  <2>. QED BY <2>1, <2>2, <1>1, <1>3, <1>4, EnterInv
<1>. QED BY <1>5, <1>6

\* When no build runs, nothing is said of its units.
LEMMA NoBuild ==
  ASSUME IInv, stage = 0, stage' = 0, status' = status, finished' = FALSE
  PROVE  StatusInv' /\ StagesInv' /\ PatchInv' /\ FinishInv'
<1>1. \A u \in Units : status[u] = "none"
  BY DEF IInv, StatusInv
<1>2. StatusInv'
  BY <1>1 DEF StatusInv, Pending
<1>3. \A j \in DOMAIN Stages : ~(j < 0) /\ j # 0
  BY Order
<1>4. StagesInv' /\ PatchInv'
  BY <1>3, Order DEF StagesInv, PatchInv
<1>. QED BY <1>2, <1>4 DEF FinishInv

LEMMA EditInv == ASSUME IInv, NEW g \in Sources, Edit(g) PROVE IInv'
<1>. USE DEF Edit, Between, process
<1>0. /\ DOMAIN content = Files /\ mtime \in [Files -> Nat] /\ clock \in Nat
      /\ \A f \in Files : mtime[f] <= clock
      /\ g \in Files /\ Units \cap Sources = {} /\ g \notin Units /\ Units \subseteq Files
  BY Order DEF IInv, Types, Files
<1>1. PICK v \in Nat : content[g] = {v}
  BY DEF IInv, SourcesInv
<1>2. /\ content' = [content EXCEPT ![g] = {v + 1}]
      /\ clock' = clock + 1 /\ mtime' = [mtime EXCEPT ![g] = clock + 1]
  BY <1>1 DEF Write
<1>3. /\ content'[g] = {v + 1} /\ \A f \in Files : f # g => content'[f] = content[f]
      /\ mtime'[g] = clock + 1 /\ \A f \in Files : f # g => mtime'[f] = mtime[f]
  BY <1>0, <1>2
<1>4. Types'
  <2>1. \A f \in Files : mtime'[f] <= clock'
    BY <1>0, <1>2, <1>3
  <2>2. mtime' \in [Files -> Nat] /\ clock' \in Nat /\ DOMAIN content' = Files
    BY <1>0, <1>2
  <2>3. options' \in Nat /\ stage' \in 0..Len(Stages) /\ status' \in [Units -> Statuses]
    BY DEF IInv, Types
  <2>4. patched' \in BOOLEAN /\ finished' \in BOOLEAN
    BY DEF IInv, Types
  <2>5. DOMAIN savedHash' = Files /\ DOMAIN savedCommand' = Units /\ DOMAIN dfile' = Units
    BY DEF IInv, Types
  <2>. QED BY <2>1, <2>2, <2>3, <2>4, <2>5 DEF Types, Files, Statuses
<1>5. Grows
  <2>1. options \in Nat /\ options' = options /\ options <= options
    BY DEF IInv, Types
  <2>2. ASSUME NEW f \in Sources
        PROVE  \E x, y \in Nat : content[f] = {x} /\ content'[f] = {y} /\ x <= y
    <3>1. PICK x \in Nat : content[f] = {x}
      BY DEF IInv, SourcesInv
    <3>2. CASE f = g
      <4>1. v \in Nat /\ v + 1 \in Nat /\ content[f] = {v} /\ content'[f] = {v + 1} /\ v <= v + 1
        BY <1>1, <1>3, <3>2
      <4>. QED BY <4>1
    <3>3. CASE f # g
      <4>1. content'[f] = {x} /\ x <= x
        BY <3>1, <3>3, <1>3 DEF Files
      <4>. QED BY <3>1, <4>1
    <3>. QED BY <3>2, <3>3
  <2>3. clock' \in Nat /\ clock <= clock'
    BY <1>0, <1>2
  <2>. QED BY <2>1, <2>2, <2>3, <1>0 DEF Grows
<1>6. SourcesInv'
  BY <1>5 DEF Grows, SourcesInv
<1>7. HashInv'
  <2>1. PICK A : Ages(A) /\ Latest(A) /\ Saved(A)
    BY DEF IInv, HashInv
  <2>2. PICK S : S = {v + 1}
    OBVIOUS
  <2>3. S \notin DOMAIN A[g]
    <3>1. ASSUME S \in DOMAIN A[g] PROVE FALSE
      <4>1. PICK x \in Nat : S = {x} /\ x <= v
        BY <3>1, <2>1, <1>1 DEF Ages
      <4>2. x = v + 1
        BY <4>1, <2>2
      <4>. QED BY <4>1, <4>2, <1>1
    <3>. QED BY <3>1
  <2>4. \E x \in Nat : S = {x} /\ \A w \in content'[g] : x <= w
    <3>1. v + 1 \in Nat /\ \A w \in content'[g] : v + 1 <= w
      BY <1>3
    <3>. QED BY <2>2, <3>1
  <2>5. PICK B : /\ Ages(B)' /\ \A f \in Files : f # g => B[f] = A[f]
                 /\ \A T \in DOMAIN A[g] : T \in DOMAIN B[g] /\ B[g][T] = A[g][T]
                 /\ Newest(B, g, S)
    BY <2>1, <2>3, <2>4, <1>0, <1>2, <1>5, NewContent
  <2>6. Done(g, content'[g]) = S
    BY <2>2, <1>3 DEF Done
  <2>7. Newest(B, g, Done(g, content'[g]))
    BY <2>5, <2>6
  <2>8. TargetsInv /\ savedHash' = savedHash /\ g \notin Units
    BY <1>0 DEF IInv
  <2>9. /\ g \in Files /\ \A f \in Files : f # g => content'[f] = content[f]
        /\ g \in Units => \A c \in content'[g] : \A f \in Reads[g] : Newest(A, f, c.from[f])
    BY <2>8, <1>0, <1>3
  <2>. HIDE DEF Edit, Between, process
  <2>. QED BY <2>1, <2>5, <2>7, <2>8, <2>9, HashWritten
<1>8. \A u \in Units : content'[u] = content[u]
  BY <1>0, <1>3
<1>9. TargetsInv' /\ PatchMarks' /\ DfileInv'
  <2>1. TargetsInv'
    BY <1>8 DEF IInv, TargetsInv
  <2>2. PatchMarks' /\ DfileInv'
    BY <1>8 DEF IInv, PatchMarks, DfileInv, AllPatched
  <2>. QED BY <2>1, <2>2
<1>10. CommandInv'
  BY <1>8, CommandStays DEF IInv
<1>11. TimeInv'
  <2>1. ASSUME NEW u \in Units, NEW c \in content'[u], NEW f \in Own(u)
        PROVE  content'[f] = {} \/ c.from[f] = content'[f] \/ mtime'[f] > mtime'[u]
    <3>1. f \in Files /\ u \in Files
      BY Dependencies
    <3>2. CASE f = g
      <4>1. mtime'[u] = mtime[u] /\ mtime[u] <= clock /\ mtime[u] \in Nat
        BY <3>1, <1>0, <1>3
      <4>. QED BY <4>1, <3>2, <1>0, <1>3
    <3>3. CASE f # g
      <4>1. content[f] = {} \/ c.from[f] = content[f] \/ mtime[f] > mtime[u]
        BY <1>8 DEF IInv, TimeInv
      <4>. QED BY <4>1, <3>1, <3>3, <1>0, <1>3
    <3>. QED BY <3>2, <3>3
  <2>. QED BY <2>1 DEF TimeInv, Own, Seen, SeenEarlier
<1>12. StatusInv' /\ StagesInv' /\ PatchInv' /\ FinishInv'
  BY NoBuild
<1>. QED BY <1>4, <1>6, <1>7, <1>9, <1>10, <1>11, <1>12 DEF IInv

LEMMA ChangeOptionsInv == ASSUME IInv, ChangeOptions PROVE IInv'
<1>. USE DEF ChangeOptions, Between, process, disk
<1>1. options \in Nat /\ options' = options + 1
  BY DEF IInv, Types
<1>2. Types'
  <2>1. options' \in Nat /\ stage' \in 0..Len(Stages) /\ status' \in [Units -> Statuses]
    BY <1>1 DEF IInv, Types
  <2>2. patched' \in BOOLEAN /\ finished' \in BOOLEAN
    BY DEF IInv, Types
  <2>3. /\ DOMAIN content' = Files /\ DOMAIN savedHash' = Files
        /\ DOMAIN savedCommand' = Units /\ DOMAIN dfile' = Units
        /\ mtime' \in [Files -> Nat] /\ clock' \in Nat /\ \A f \in Files : mtime'[f] <= clock'
    BY DEF IInv, Types
  <2>. QED BY <2>1, <2>2, <2>3 DEF Types, Files, Statuses
<1>3. Grows
  <2>1. ASSUME NEW f \in Sources
        PROVE  \E v, w \in Nat : content[f] = {v} /\ content'[f] = {w} /\ v <= w
    <3>1. PICK v \in Nat : content[f] = {v}
      BY DEF IInv, SourcesInv
    <3>2. content'[f] = {v} /\ v <= v
      BY <3>1
    <3>. QED BY <3>1, <3>2
  <2>2. clock \in Nat /\ clock' = clock /\ clock <= clock
    BY DEF IInv, Types
  <2>. QED BY <1>1, <2>1, <2>2 DEF Grows
<1>4. SourcesInv' /\ TargetsInv' /\ HashInv'
  BY <1>3, HashStays DEF IInv, SourcesInv, TargetsInv
<1>5. PatchMarks' /\ DfileInv' /\ TimeInv'
  BY TimeStays DEF IInv, PatchMarks, DfileInv, AllPatched
<1>6. CommandInv'
  <2>1. ASSUME NEW u \in Units, savedCommand[u] # {}
        PROVE  \E o \in Nat : /\ savedCommand[u] = {o} /\ o <= Command(u)'
                              /\ o = Command(u)' => \A c \in content[u] : c.command = Command(u)'
    <3>1. PICK o \in Nat : /\ savedCommand[u] = {o} /\ o <= Command(u)
                           /\ o = Command(u) => \A c \in content[u] : c.command = Command(u)
      BY <2>1 DEF IInv, CommandInv
    <3>2. CASE u \in Optioned
      <4>1. o <= Command(u)' /\ o # Command(u)'
        BY <3>1, <3>2, <1>1 DEF Command
      <4>. QED BY <3>1, <4>1
    <3>3. CASE u \notin Optioned
      <4>1. Command(u)' = Command(u)
        BY <3>3 DEF Command
      <4>. QED BY <3>1, <4>1
    <3>. QED BY <3>2, <3>3
  <2>. QED BY <2>1 DEF CommandInv
<1>8. StatusInv' /\ StagesInv' /\ PatchInv' /\ FinishInv'
  BY NoBuild
<1>. QED BY <1>2, <1>4, <1>5, <1>6, <1>8 DEF IInv

LEMMA UpdateCommandInv == ASSUME IInv, NEW u \in Units, UpdateCommand(u) PROVE IInv'
<1>. USE DEF UpdateCommand, bounds
<1>0. /\ stage \in DOMAIN Stages /\ stage \in Nat /\ u \in Stages[stage] /\ Fresh(u) /\ patched
      /\ DOMAIN savedCommand = Units /\ status \in [Units -> Statuses]
  BY Order DEF IInv, Types, StatusInv
<1>1. /\ savedCommand'[u] = {Command(u)} /\ \A v \in Units : v # u => savedCommand'[v] = savedCommand[v]
      /\ status'[u] = "hashing" /\ \A v \in Units : v # u => status'[v] = status[v]
  BY <1>0
<1>2. finished' = FALSE
  BY <1>0 DEF IInv, FinishInv, Types
<1>3. Grows
  BY GrowsStays DEF IInv, Types
<1>4. Types'
  <2>1. status' \in [Units -> Statuses]
    BY <1>0 DEF Statuses
  <2>. QED BY <2>1, <1>0 DEF IInv, Types, Statuses, Files
<1>5. SourcesInv' /\ TargetsInv' /\ HashInv'
  BY <1>3, HashStays DEF IInv, SourcesInv, TargetsInv
<1>6. PatchMarks' /\ DfileInv' /\ TimeInv'
  BY TimeStays DEF IInv, PatchMarks, DfileInv, AllPatched
<1>7. CommandInv'
  <2>1. ASSUME NEW v \in Units, savedCommand'[v] # {}
        PROVE  \E o \in Nat : /\ savedCommand'[v] = {o} /\ o <= Command(v)
                              /\ o = Command(v) => \A c \in content'[v] : c.command = Command(v)
    <3>1. CASE v = u
      <4>1. Command(u) \in Nat /\ Command(u) <= Command(u)
        BY DEF Command, IInv, Types
      <4>2. \A c \in content[u] : c.command = Command(u)
        BY <1>0 DEF Fresh
      <4>. QED BY <4>1, <4>2, <3>1, <1>1
    <3>2. CASE v # u
      <4>1. savedCommand'[v] = savedCommand[v]
        BY <3>2, <1>1
      <4>2. PICK o \in Nat : /\ savedCommand[v] = {o} /\ o <= Command(v)
                             /\ o = Command(v) => \A c \in content[v] : c.command = Command(v)
        BY <2>1, <4>1 DEF IInv, CommandInv
      <4>. QED BY <4>1, <4>2
    <3>. QED BY <3>1, <3>2
  <2>2. \A v : Command(v)' = Command(v)
    BY DEF Command
  <2>. QED BY <2>1, <2>2 DEF CommandInv
<1>9. ASSUME NEW v \in Units, v # u PROVE (Settled(v) => Settled(v)') /\ (Recorded(v, {}) => Recorded(v, {})')
  BY <1>1, <1>9, SettledStays, RecordedStays
<1>10. StatusInv'
  <2>1. \A v \in Units : status'[v] # "none" => stage' # 0 /\ patched' /\ v \in Stages[stage']
    BY <1>0, <1>1 DEF IInv, StatusInv
  <2>2. Pending' = {}
    BY <1>0, <1>1, Order DEF Pending
  <2>3. ASSUME NEW v \in Units, v # u
        PROVE  /\ status'[v] = "Skipped" => Settled(v)'
               /\ status'[v] = "Completed" => Fresh(v)'
               /\ status'[v] # "hashing"
               /\ status'[v] = "updated" => Recorded(v, {})'
               /\ status'[v] = "Error" => content'[v] = {} \/ Fresh(v)' \/ v \notin Removes
    BY <2>3, <1>1, <1>9, FreshStays DEF IInv, StatusInv
  <2>4. Recorded(u, toHash)' /\ toHash' \subseteq Seen(u)
    <3>1. toHash' = Seen(u)
      BY <1>0 DEF DependFiles, Seen, Fresh, IInv, DfileInv
    <3>2. Fresh(u)'
      BY <1>0, FreshStays
    <3>3. Command(u)' = Command(u)
      BY DEF Command
    <3>. QED BY <3>1, <3>2, <3>3, <1>1 DEF Recorded, Seen
  <2>. QED BY <2>1, <2>2, <2>3, <2>4, <1>1 DEF StatusInv, Seen
<1>11. StagesInv'
  <2>1. ASSUME NEW k \in DOMAIN Stages, k < stage, NEW v \in Stages[k] PROVE Settled(v)'
    <3>1. v \in Units /\ v # u /\ Settled(v)
      BY <2>1, <1>0, Order DEF IInv, StagesInv
    <3>. QED BY <3>1, <1>9
  <2>. QED BY <2>1 DEF StagesInv
<1>12. PatchInv'
  <2>1. \A v \in Units : status'[v] \in {"none", "Skipped"} => status[v] \in {"none", "Skipped"}
    BY <1>1
  <2>. QED BY <2>1, Order DEF IInv, PatchInv
<1>. QED BY <1>2, <1>4, <1>5, <1>6, <1>7, <1>10, <1>11, <1>12 DEF IInv, FinishInv

LEMMA UpdateHashInv == ASSUME IInv, NEW u \in Units, NEW g \in Files, UpdateHash(u, g) PROVE IInv'
<1>. USE DEF UpdateHash, bounds
<1>0. /\ stage # 0 /\ stage \in DOMAIN Stages /\ stage \in Nat /\ u \in Stages[stage] /\ patched
      /\ Recorded(u, toHash) /\ Fresh(u) /\ toHash \subseteq Seen(u) /\ g \in Seen(u) /\ Pending = {}
      /\ DOMAIN savedHash = Files /\ status \in [Units -> Statuses]
  BY Order DEF IInv, Types, StatusInv, Recorded
<1>1. savedHash'[g] = content[g] /\ \A f \in Files : f # g => savedHash'[f] = savedHash[f]
  BY <1>0
<1>2. /\ status'[u] = (IF toHash' = {} THEN "updated" ELSE "hashing")
      /\ \A v \in Units : v # u => status'[v] = status[v]
      /\ status' \in [Units -> Statuses]
  BY <1>0 DEF Statuses
<1>3. finished' = FALSE
  BY <1>0 DEF IInv, FinishInv, Types
<1>4. Grows
  BY GrowsStays DEF IInv, Types
<1>5. Types'
  BY <1>0, <1>2 DEF IInv, Types, Statuses, Files
<1>6. SourcesInv' /\ TargetsInv' /\ PatchMarks' /\ DfileInv'
  BY DEF IInv, SourcesInv, TargetsInv, PatchMarks, DfileInv, AllPatched
<1>7. CommandInv' /\ TimeInv'
  BY CommandStays, TimeStays DEF IInv
\* What the hash is saved of is what the units that own the file were made from.
<1>8. ASSUME NEW v \in Units, NEW c \in content[v], g \in Own(v) PROVE c.from[g] = content[g]
  <2>0. PICK k \in DOMAIN Stages : v \in Stages[k]
    BY Dependencies
  <2>1. g \in Seen(v) /\ ~SeenEarlier(k, g)
    BY <2>0, <1>8 DEF Own
  <2>2. ~(stage < k)
    BY <2>1, <1>0, Order DEF SeenEarlier
  <2>3. CASE k < stage
    <3>1. Fresh(v)
      BY <2>0, <2>3 DEF IInv, StagesInv, Settled
    <3>. QED BY <3>1, <1>8 DEF Fresh
  <2>4. CASE k = stage
    <3>1. status[v] # "none" /\ (v = u \/ v \in Removes)
      <4>1. status[v] # "none"
        BY <2>0, <2>4, <1>0 DEF Pending
      <4>2. v \notin Removes => v = u
        BY <2>0, <2>4, <1>0, KeptAlone
      <4>. QED BY <4>1, <4>2
    <3>2. Fresh(v)
      <4>1. CASE status[v] = "Error"
        BY <4>1, <3>1, <1>0 DEF IInv, StatusInv
      <4>2. CASE status[v] # "Error"
        BY <4>2, <3>1 DEF IInv, Types, Statuses, StatusInv, Settled, Recorded
      <4>. QED BY <4>1, <4>2
    <3>. QED BY <3>2, <1>8 DEF Fresh
  <2>. QED BY <2>2, <2>3, <2>4, <1>0, Order
<1>9. HashInv'
  <2>1. PICK A : Ages(A) /\ Latest(A) /\ Saved(A)
    BY DEF IInv, HashInv
  <2>2. Ages(A)' /\ Latest(A)'
    BY <2>1, <1>4, AgesStay DEF Latest, Newest, Done, AllPatched, Files
  <2>3. content[g] # {} => content[g] \in DOMAIN A[g]
    <3>1. g \in Reads[u]
      BY <1>0, Order, Dependencies
    <3>. QED BY <3>1, <2>1, <1>0, ReadNewest DEF Newest
  <2>4. \A f \in Files : savedHash'[f] # {} => savedHash'[f] \in DOMAIN A[f]
    BY <2>1, <2>3, <1>1 DEF Saved
  <2>5. ASSUME NEW v \in Units, NEW c \in content[v], NEW f \in Own(v), savedHash'[f] # {}
        PROVE  A[f][savedHash'[f]] <= A[f][c.from[f]]
    <3>0. f \in Files
      BY Dependencies
    <3>1. CASE f = g
      <4>1. savedHash'[f] = c.from[f]
        BY <3>1, <1>1, <1>8
      <4>2. A[f][savedHash'[f]] \in Nat
        BY <2>1, <2>4, <2>5, <3>0 DEF Ages
      <4>. QED BY <4>1, <4>2
    <3>2. CASE f # g
      <4>1. savedHash'[f] = savedHash[f]
        BY <3>0, <3>2, <1>1
      <4>. QED BY <4>1, <2>1, <2>5 DEF Saved
    <3>. QED BY <3>1, <3>2
  <2>6. Saved(A)'
    BY <2>4, <2>5 DEF Saved, Files, Own, Seen, SeenEarlier
  <2>. QED BY <2>2, <2>6 DEF HashInv
<1>10. ASSUME NEW v \in Units
       PROVE  (Settled(v) => Settled(v)') /\ \A T : Recorded(v, T) => Recorded(v, T)'
  <2>1. Seen(v) \subseteq Files
    BY Dependencies
  <2>. QED BY <2>1, <1>1, <1>10, SettledStays, RecordedStays
<1>11. StatusInv'
  <2>1. \A v \in Units : status'[v] # "none" => stage' # 0 /\ patched' /\ v \in Stages[stage']
    BY <1>0, <1>2 DEF IInv, StatusInv
  <2>2. Pending' = {}
    BY <1>0, <1>2, Order DEF Pending
  <2>3. ASSUME NEW v \in Units, v # u
        PROVE  /\ status'[v] = "Skipped" => Settled(v)'
               /\ status'[v] = "Completed" => Fresh(v)'
               /\ status'[v] # "hashing"
               /\ status'[v] = "updated" => Recorded(v, {})'
               /\ status'[v] = "Error" => content'[v] = {} \/ Fresh(v)' \/ v \notin Removes
    <3>1. status'[v] = status[v] /\ status[v] # "hashing"
      BY <2>3, <1>2 DEF IInv, StatusInv
    <3>. QED BY <3>1, <1>10, FreshStays DEF IInv, StatusInv
  <2>5. Recorded(u, toHash)' /\ toHash' \subseteq Seen(u)
    <3>1. Fresh(u)'
      BY <1>0, FreshStays
    <3>2. savedCommand'[u] = {Command(u)'}
      BY <1>0 DEF Recorded, Command
    <3>3. \A f \in Seen(u) \ toHash' : savedHash'[f] = content'[f]
      <4>1. Seen(u) \subseteq Files
        BY Dependencies
      <4>. QED BY <4>1, <1>0, <1>1 DEF Recorded
    <3>4. toHash' \subseteq Seen(u)
      BY <1>0
    <3>. QED BY <3>1, <3>2, <3>3, <3>4 DEF Recorded, Seen
  <2>6. toHash' = {} => Recorded(u, {})'
    BY <2>5 DEF Recorded
  <2>. QED BY <2>1, <2>2, <2>3, <2>5, <2>6, <1>2 DEF StatusInv, Seen
<1>12. StagesInv'
  BY <1>10, Order DEF IInv, StagesInv
<1>13. PatchInv'
  <2>1. \A v \in Units : status'[v] \in {"none", "Skipped"} => status[v] \in {"none", "Skipped"}
    BY <1>2
  <2>. QED BY <2>1, Order DEF IInv, PatchInv
<1>. QED BY <1>3, <1>5, <1>6, <1>7, <1>9, <1>11, <1>12, <1>13 DEF IInv, FinishInv

\* A patch changes the mark and nothing else.
LEMMA OtherMark ==
  ASSUME NEW a, NEW b, NEW p, NEW q
  PROVE  [[command |-> a, from |-> b, patched |-> p] EXCEPT !.patched = q]
           = [command |-> a, from |-> b, patched |-> q]
<1>. DEFINE r == [command |-> a, from |-> b, patched |-> p]
            s == [r EXCEPT !.patched = q]
<1>1. DOMAIN s = DOMAIN r /\ DOMAIN r = {"command", "from", "patched"}
  OBVIOUS
<1>2. s.command = a /\ s.from = b /\ s.patched = q
  OBVIOUS
<1>. QED BY <1>1, <1>2

LEMMA PatchTextFileInv == ASSUME IInv, PatchTextFile PROVE IInv'
<1>. USE DEF PatchTextFile, bounds
<1>0. PICK g \in Patches[stage] : Write(g, {[c EXCEPT !.patched = TRUE] : c \in content[g]})
  OBVIOUS
<1>1. /\ stage \in DOMAIN Stages /\ stage \in Nat /\ g \in Units /\ g \in Files
      /\ DOMAIN content = Files /\ mtime \in [Files -> Nat] /\ clock \in Nat
      /\ \A f \in Files : mtime[f] <= clock
      /\ Units \subseteq Files /\ g \in AllPatched
      /\ \A k \in DOMAIN Stages : Stages[k] \subseteq Units
  BY Order DEF IInv, Types, Files, AllPatched
<1>2. PICK i \in DOMAIN Stages : i < stage /\ g \in Stages[i]
  BY <1>1, Order
<1>3. Settled(g) /\ \A j \in DOMAIN Stages : j < stage => \A u \in Stages[j] : Settled(u)
  BY <1>1, <1>2 DEF IInv, StagesInv
<1>4. PICK d : /\ content[g] = {d} /\ d.command = Command(g)
               /\ \A f \in Own(g) : d.from[f] = content[f]
  BY <1>3 DEF Settled, Fresh
<1>6. d = [command |-> d.command, from |-> d.from, patched |-> d.patched]
  <2>1. PICK a, b, p : content[g] = {[command |-> a, from |-> b, patched |-> p]}
    BY <1>1, <1>4 DEF IInv, TargetsInv
  <2>2. d = [command |-> a, from |-> b, patched |-> p]
    BY <2>1, <1>4
  <2>. QED BY <2>2
<1>. DEFINE e == [d EXCEPT !.patched = TRUE]
<1>7. e.command = d.command /\ e.from = d.from /\ e.patched = TRUE
      /\ e = [command |-> e.command, from |-> e.from, patched |-> e.patched]
  <2>1. d = [command |-> d.command, from |-> d.from, patched |-> d.patched]
    BY <1>6
  <2>2. [[command |-> d.command, from |-> d.from, patched |-> d.patched] EXCEPT !.patched = TRUE]
          = [command |-> d.command, from |-> d.from, patched |-> TRUE]
    BY OtherMark
  <2>3. e = [command |-> d.command, from |-> d.from, patched |-> TRUE]
    BY <2>1, <2>2
  <2>. HIDE DEF e
  <2>. QED BY <2>3
<1>8. {[c EXCEPT !.patched = TRUE] : c \in content[g]} = {e}
  BY <1>4
<1>. HIDE DEF e
<1>9. content' = [content EXCEPT ![g] = {e}] /\ clock' = clock + 1 /\ mtime' = [mtime EXCEPT ![g] = clock + 1]
  BY <1>0, <1>8 DEF Write
<1>10. /\ content'[g] = {e} /\ \A f \in Files : f # g => content'[f] = content[f]
       /\ mtime'[g] = clock + 1 /\ \A f \in Files : f # g => mtime'[f] = mtime[f]
  BY <1>1, <1>9
<1>11. /\ \A u \in Units : status[u] = "none"
       /\ \A k \in DOMAIN Stages : \A u \in Stages[k] : k < stage => g \notin Reads[u]
       /\ g \notin Reads[g]
       /\ \A u \in Units : /\ Own(u) \subseteq Seen(u) /\ Seen(u) \subseteq Reads[u]
                           /\ Reads[u] \subseteq Files /\ u \in Files
  BY <1>1, <1>2, Order, Dependencies DEF IInv, StatusInv
<1>12. /\ \A f \in Sources : content'[f] = content[f]
       /\ \A u \in Units : \A c \in content'[u] : u # g => c \in content[u]
       /\ \A u \in Units : content'[u] # {} => content[u] # {}
  <2>1. g \notin Sources /\ Sources \subseteq Files
    BY <1>1, Order DEF Files
  <2>2. \A f \in Sources : content'[f] = content[f]
    BY <2>1, <1>10
  <2>3. \A u \in Units : u # g => content'[u] = content[u]
    BY <1>1, <1>10
  <2>. QED BY <2>2, <2>3, <1>4
<1>13. Grows
  <2>1. clock' \in Nat /\ clock <= clock' /\ options' = options
    BY <1>1, <1>9
  <2>. QED BY <2>1, <1>12, GrowsStays
<1>14. Types'
  <2>1. \A f \in Files : mtime'[f] <= clock'
    BY <1>1, <1>9, <1>10
  <2>2. mtime' \in [Files -> Nat] /\ clock' \in Nat /\ DOMAIN content' = Files
    BY <1>1, <1>9
  <2>. QED BY <2>1, <2>2 DEF IInv, Types, Files, Statuses
<1>15. SourcesInv'
  BY <1>12 DEF IInv, SourcesInv
<1>16. TargetsInv' /\ PatchMarks' /\ DfileInv'
  <2>1. \A u \in Units : u # g => content'[u] = content[u]
    BY <1>1, <1>10
  <2>2. TargetsInv'
    <3>1. ASSUME NEW u \in Units, content'[u] # {}
          PROVE  \E a, b, p : content'[u] = {[command |-> a, from |-> b, patched |-> p]}
      <4>1. CASE u = g
        <5>1. content'[u] = {[command |-> e.command, from |-> e.from, patched |-> e.patched]}
          BY <4>1, <1>7, <1>10
        <5>. QED BY <5>1
      <4>2. CASE u # g
        <5>1. content'[u] = content[u]
          BY <4>2, <2>1
        <5>. QED BY <5>1, <3>1 DEF IInv, TargetsInv
      <4>. QED BY <4>1, <4>2
    <3>. QED BY <3>1 DEF TargetsInv
  <2>3. PatchMarks' /\ DfileInv'
    BY <2>1, <1>1, <1>4 DEF IInv, PatchMarks, DfileInv, AllPatched
  <2>. QED BY <2>2, <2>3
<1>17. /\ \A u \in Units : \A c \in content'[u] : \E x \in content[u] : c.command = x.command
       /\ \A u \in Units : \A c \in content'[u] : \E x \in content[u] : c.from = x.from
  BY <1>4, <1>7, <1>10, <1>12
<1>18. CommandInv'
  BY <1>17, CommandStays DEF IInv
<1>19. HashInv'
  <2>1. Done(g, content'[g]) = Done(g, content[g])
    <3>1. g \notin Sources
      BY <1>1, Order
    <3>2. Done(g, content[g]) = {[command |-> d.command, from |-> d.from, patched |-> g \in AllPatched]}
      BY <3>1, <1>4 DEF Done
    <3>3. Done(g, content'[g]) = {[command |-> e.command, from |-> e.from, patched |-> g \in AllPatched]}
      BY <3>1, <1>10 DEF Done
    <3>. QED BY <3>2, <3>3, <1>7
  <2>2. \A f \in Files : content'[f] # {} =>
          content[f] # {} /\ Done(f, content'[f]) = Done(f, content[f])
    BY <2>1, <1>4, <1>10
  <2>3. TargetsInv /\ HashInv /\ savedHash' = savedHash
    BY DEF IInv
  <2>. QED BY <2>2, <2>3, <1>13, <1>17, HashStays
<1>20. TimeInv'
  <2>1. ASSUME NEW u \in Units, NEW c \in content'[u], NEW f \in Own(u)
        PROVE  content'[f] = {} \/ c.from[f] = content'[f] \/ mtime'[f] > mtime'[u]
    <3>1. f \in Files /\ u \in Files /\ f \in Reads[u]
      BY <1>11
    <3>2. CASE f = g
      <4>1. u # g /\ mtime'[u] = mtime[u] /\ mtime[u] <= clock /\ mtime[u] \in Nat
        BY <3>1, <3>2, <1>1, <1>10, <1>11
      <4>. QED BY <4>1, <3>2, <1>1, <1>10
    <3>3. CASE f # g /\ u = g
      <4>1. c = e
        BY <3>3, <1>10
      <4>. QED BY <4>1, <3>1, <3>3, <1>4, <1>7, <1>10
    <3>4. CASE f # g /\ u # g
      <4>1. content[f] = {} \/ c.from[f] = content[f] \/ mtime[f] > mtime[u]
        BY <3>4, <1>12 DEF IInv, TimeInv
      <4>. QED BY <4>1, <3>1, <3>4, <1>10
    <3>. QED BY <3>2, <3>3, <3>4
  <2>. QED BY <2>1 DEF TimeInv, Own, Seen, SeenEarlier
<1>22. StatusInv'
  BY <1>11 DEF StatusInv, Pending
<1>23. ASSUME NEW k \in DOMAIN Stages, NEW u \in Stages[k], Settled(u), k < stage \/ finished
       PROVE  Settled(u)'
  <2>1. /\ u \in Units /\ u \in Files /\ g \notin Reads[g]
        /\ Own(u) \subseteq Seen(u) /\ Seen(u) \subseteq Reads[u] /\ Seen(u) \subseteq Files
    BY <1>1, <1>11
  <2>2. ASSUME g \in Seen(u) PROVE content'[g] = content[g] /\ savedHash[g] = content[g]
    <3>1. finished
      BY <1>23, <2>1, <2>2, <1>11
    <3>2. d.patched = TRUE
      BY <3>1, <1>1, <1>4 DEF IInv, FinishInv
    <3>3. d = e
      BY <3>2, <1>6, <1>7
    <3>. QED BY <3>3, <1>1, <1>4, <1>10, <2>2, <1>23 DEF Settled
  <2>3. \A f \in Seen(u) : content'[f] = content[f]
    BY <2>1, <2>2, <1>10
  <2>4. Fresh(u)'
    <3>1. CASE u = g
      <4>1. content'[u] = {e} /\ e.command = Command(u)' /\ \A f \in Own(u) : e.from[f] = content'[f]
        BY <3>1, <2>1, <2>3, <1>4, <1>7, <1>10 DEF Command
      <4>. QED BY <4>1 DEF Fresh, Own, Seen, SeenEarlier
    <3>2. CASE u # g
      BY <3>2, <2>1, <2>3, <1>10, <1>23, FreshStays DEF Settled
    <3>. QED BY <3>1, <3>2
  <2>5. savedCommand'[u] = {Command(u)'}
    BY <1>23 DEF Settled, Command
  <2>6. ASSUME NEW f \in Seen(u)
        PROVE  savedHash'[f] = content'[f] \/ (f \notin AllPatched /\ mtime'[f] <= mtime'[u])
    <3>1. CASE savedHash[f] = content[f]
      BY <3>1, <2>3
    <3>2. CASE f \notin AllPatched /\ mtime[f] <= mtime[u]
      <4>1. f # g /\ mtime'[f] = mtime[f]
        BY <3>2, <2>1, <1>1, <1>10
      <4>2. mtime[u] \in Nat /\ mtime[f] \in Nat /\ mtime[u] <= mtime'[u]
        BY <2>1, <1>1, <1>10
      <4>3. mtime'[u] \in Nat
        BY <2>1, <1>1, <1>10
      <4>. QED BY <4>1, <4>2, <4>3, <3>2
    <3>. QED BY <3>1, <3>2, <1>23 DEF Settled
  <2>. QED BY <2>4, <2>5, <2>6 DEF Settled, AllPatched, Seen
<1>24. StagesInv'
  BY <1>3, <1>23 DEF StagesInv
<1>25. PatchInv'
  <2>1. ASSUME NEW j \in DOMAIN Stages, j <= stage, NEW f \in Patches[j]
        PROVE  /\ \A c \in content'[f] : c.patched = TRUE
               /\ \A l \in DOMAIN Stages : \A u \in Stages[l] : l >= stage => mtime'[f] > mtime'[u]
    <3>0. f \in Units /\ f \in Files
      BY <1>1, Order
    <3>1. CASE f = g
      <4>1. \A c \in content'[f] : c.patched = TRUE
        BY <3>1, <1>7, <1>10
      <4>2. ASSUME NEW l \in DOMAIN Stages, NEW u \in Stages[l], l >= stage
            PROVE  mtime'[f] > mtime'[u]
        <5>1. u # g /\ u \in Files
          BY <4>2, <1>1, <1>2, Order
        <5>2. mtime'[u] = mtime[u] /\ mtime[u] \in Nat /\ mtime[u] <= clock
          BY <5>1, <1>1, <1>10
        <5>. QED BY <5>2, <3>1, <1>1, <1>10
      <4>. QED BY <4>1, <4>2
    <3>2. CASE f # g
      <4>0. j < stage
        <5>1. j # stage
          BY <3>2, <2>1, <1>0, <1>1, Order, StagesInOrder
        <5>. QED BY <5>1, <2>1, <1>1, Order
      <4>1. \A c \in content'[f] : c.patched = TRUE
        BY <4>0, <3>0, <3>2, <1>10 DEF IInv, PatchInv
      <4>2. ASSUME NEW l \in DOMAIN Stages, NEW u \in Stages[l], l >= stage
            PROVE  mtime'[f] > mtime'[u]
        <5>1. u # g /\ u \in Units /\ u \in Files
          BY <4>2, <1>1, <1>2, Order
        <5>2. l > stage \/ (l = stage /\ status[u] \in {"none", "Skipped"})
          BY <4>2, <5>1, <1>1, <1>11, Order
        <5>3. mtime[f] > mtime[u]
          BY <5>2, <4>0 DEF IInv, PatchInv
        <5>. QED BY <5>1, <5>3, <3>0, <3>2, <1>10
      <4>. QED BY <4>1, <4>2
    <3>. QED BY <3>1, <3>2
  <2>2. \A j \in DOMAIN Stages : j < stage \/ j = stage => j <= stage
    BY <1>1, Order
  <2>3. \A l \in DOMAIN Stages : l > stage \/ l = stage => l >= stage
    BY <1>1, Order
  <2>. QED BY <2>1, <2>2, <2>3 DEF PatchInv
<1>26. FinishInv'
  <2>1. ASSUME finished PROVE \A f \in AllPatched : \A c \in content'[f] : c.patched = TRUE
    <3>1. \A f \in AllPatched : f \in Files
      BY <1>1, Order DEF AllPatched
    <3>. QED BY <3>1, <2>1, <1>7, <1>10 DEF IInv, FinishInv
  <2>2. ASSUME finished PROVE \A k \in DOMAIN Stages : \A u \in Stages[k] : Settled(u)'
    BY <2>2, <1>23 DEF IInv, FinishInv
  <2>. QED BY <2>1, <2>2, <1>11 DEF FinishInv, AllPatched
<1>. QED BY <1>14, <1>15, <1>16, <1>18, <1>19, <1>20, <1>22, <1>24, <1>25, <1>26 DEF IInv

\* What an invocation finds.
LEMMA Invoked ==
  ASSUME IInv, NEW u \in Units, Invoke(u)
  PROVE  /\ stage \in DOMAIN Stages /\ stage \in Nat /\ stage # 0 /\ patched
         /\ u \in Stages[stage] /\ u \in Pending /\ status[u] = "none" /\ u \in Files
         /\ \A v \in Units : status[v] # "hashing" /\ status[v] # "updated"
         /\ \A k \in DOMAIN Stages : k <= stage => \A v \in Stages[k] : u \notin Reads[v]
         /\ \A v \in Units : /\ Own(v) \subseteq Seen(v) /\ Seen(v) \subseteq Reads[v]
                             /\ Reads[v] \subseteq Files /\ v \in Files /\ v \notin Reads[v]
         /\ \A k \in DOMAIN Stages : Stages[k] \subseteq Units
<1>1. /\ stage \in DOMAIN Stages /\ stage \in Nat /\ stage # 0 /\ patched
      /\ u \in Stages[stage] /\ u \in Pending /\ status[u] = "none" /\ u \in Files
      /\ \A v \in Units : status[v] # "hashing" /\ status[v] # "updated"
  BY Order DEF Invoke, Pending, IInv, Types, StatusInv, Files
<1>2. \A k \in DOMAIN Stages : k <= stage => \A v \in Stages[k] : u \notin Reads[v]
  BY <1>1, Order
<1>. QED BY <1>1, <1>2, Order, Dependencies

LEMMA SkipInv == ASSUME IInv, NEW u \in Units, Invoke(u), ~IsNeedDoAction(u) PROVE IInv'
<1>. USE DEF Invoke, bounds, disk
<1>0. UNCHANGED <<disk, options>>
  OBVIOUS
<1>1. FilesInv' /\ \A v \in Units : Settled(v) => Settled(v)'
  BY <1>0, DiskStays
<1>2. status' = [status EXCEPT ![u] = "Skipped"] /\ status \in [Units -> Statuses]
  BY DEF IInv, Types
<1>3. /\ status'[u] = "Skipped" /\ \A v \in Units : v # u => status'[v] = status[v]
      /\ status' \in [Units -> Statuses]
  BY <1>2 DEF Statuses
<1>4. Types'
  BY <1>3 DEF IInv, Types, Statuses, Files
<1>5. Settled(u)'
  BY <1>1, Invoked, SkippedSettled
<1>6. StatusInv'
  <2>1. \A v \in Units : status'[v] # "none" => stage' # 0 /\ patched' /\ v \in Stages[stage']
    BY <1>3, Invoked DEF IInv, StatusInv
  <2>2. ASSUME NEW v \in Units, v # u
        PROVE  /\ status'[v] = "Skipped" => Settled(v)'
               /\ status'[v] = "Completed" => Fresh(v)'
               /\ status'[v] = "Error" => content'[v] = {} \/ Fresh(v)' \/ v \notin Removes
    BY <2>2, <1>1, <1>3, FreshStays DEF IInv, StatusInv
  <2>3. \A v \in Units : status'[v] # "hashing" /\ status'[v] # "updated"
    BY <1>3, Invoked
  <2>. QED BY <2>1, <2>2, <2>3, <1>3, <1>5 DEF StatusInv
<1>7. StagesInv'
  BY <1>1, Order DEF IInv, StagesInv
<1>8. PatchInv'
  <2>1. \A v \in Units : status'[v] \in {"none", "Skipped"} => status[v] \in {"none", "Skipped"}
    BY <1>3, Invoked
  <2>. QED BY <2>1, Order DEF IInv, PatchInv
<1>9. FinishInv'
  <2>1. finished => \A k \in DOMAIN Stages : \A v \in Stages[k] : Settled(v)'
    BY <1>1, Order DEF IInv, FinishInv
  <2>. QED BY <2>1, <1>3 DEF IInv, FinishInv, AllPatched
<1>. QED BY <1>1, <1>4, <1>6, <1>7, <1>8, <1>9 DEF IInv, FilesInv

\* A command runs only after something has changed.
LEMMA NotFinished ==
  ASSUME IInv, NEW u \in Units, Invoke(u), IsNeedDoAction(u)
  PROVE  finished = FALSE
<1>1. ASSUME finished PROVE FALSE
  <2>1. \A k \in DOMAIN Stages : \A v \in Stages[k] : Settled(v)
    BY <1>1 DEF IInv, FinishInv
  <2>2. \A k \in DOMAIN Stages : \A v \in Stages[k] : Fresh(v)
    BY <2>1 DEF Settled
  <2>3. ~IsNeedDoAction(u)
    BY <2>1, <2>2, Invoked, SettledSkipped
  <2>. QED BY <2>3
<1>. QED BY <1>1 DEF IInv, Types

\* What a command that writes its target or fails leaves alone.
LEMMA CommandInvoked ==
  ASSUME IInv, NEW u \in Units, Invoke(u), IsNeedDoAction(u),
         NEW s, s \in {"Completed", "Error"}, status' = [status EXCEPT ![u] = s],
         \A f \in Files : f # u => content'[f] = content[f] /\ mtime'[f] = mtime[f],
         mtime'[u] \in Nat, mtime'[u] >= mtime[u],
         s = "Completed" => Fresh(u)',
         s = "Error" => content'[u] = {} \/ Fresh(u)' \/ u \notin Removes
  PROVE  StatusInv' /\ StagesInv' /\ PatchInv' /\ FinishInv' /\ status' \in [Units -> Statuses]
<1>9. UNCHANGED <<savedCommand, savedHash, options, stage, patched, toHash, finished>>
  BY DEF Invoke
<1>10. /\ stage \in DOMAIN Stages /\ stage \in Nat /\ stage # 0 /\ patched
       /\ u \in Stages[stage] /\ u \in Pending /\ status[u] = "none" /\ u \in Files
       /\ \A v \in Units : status[v] # "hashing" /\ status[v] # "updated"
       /\ \A k \in DOMAIN Stages : k <= stage => \A v \in Stages[k] : u \notin Reads[v]
       /\ \A v \in Units : /\ Own(v) \subseteq Seen(v) /\ Seen(v) \subseteq Reads[v]
                           /\ Reads[v] \subseteq Files /\ v \in Files /\ v \notin Reads[v]
       /\ \A k \in DOMAIN Stages : Stages[k] \subseteq Units
  BY Invoked
<1>0. status \in [Units -> Statuses] /\ finished' = FALSE
  BY <1>9, NotFinished DEF IInv, Types
<1>1. /\ status'[u] = s /\ \A v \in Units : v # u => status'[v] = status[v]
      /\ status' \in [Units -> Statuses]
  BY <1>0 DEF Statuses
<1>2. ASSUME NEW k \in DOMAIN Stages, k <= stage, NEW v \in Stages[k], v # u
      PROVE  (Settled(v) => Settled(v)') /\ (Fresh(v) => Fresh(v)')
  <2>1. /\ Own(v) \subseteq Files /\ Seen(v) \subseteq Files /\ u \notin Own(v) /\ u \notin Seen(v)
        /\ v \in Files /\ v \in Units
    BY <1>2, <1>9, <1>10
  <2>. QED BY <2>1, <1>2, <1>9, SettledStays, FreshStays
<1>3. StatusInv'
  <2>1. \A v \in Units : status'[v] # "none" => stage' # 0 /\ patched' /\ v \in Stages[stage']
    BY <1>1, <1>9, <1>10 DEF IInv, StatusInv
  <2>2. ASSUME NEW v \in Units, v # u
        PROVE  /\ status'[v] = "Skipped" => Settled(v)'
               /\ status'[v] = "Completed" => Fresh(v)'
               /\ status'[v] = "Error" => content'[v] = {} \/ Fresh(v)' \/ v \notin Removes
    <3>1. status'[v] = status[v] /\ (status[v] # "none" => v \in Stages[stage])
      BY <2>2, <1>1 DEF IInv, StatusInv
    <3>2. stage <= stage /\ v \in Files /\ content'[v] = content[v]
      BY <2>2, <1>10 DEF Files
    <3>3. status[v] # "none" => (Settled(v) => Settled(v)') /\ (Fresh(v) => Fresh(v)')
      BY <3>1, <3>2, <2>2, <1>2, <1>9, <1>10
    <3>. QED BY <3>1, <3>2, <3>3 DEF IInv, StatusInv
  <2>3. \A v \in Units : status'[v] # "hashing" /\ status'[v] # "updated"
    BY <1>1, <1>9, <1>10
  <2>. QED BY <2>1, <2>2, <2>3, <1>1, <1>9 DEF StatusInv
<1>4. StagesInv'
  <2>1. ASSUME NEW k \in DOMAIN Stages, k < stage, NEW v \in Stages[k] PROVE Settled(v)'
    <3>1. v # u /\ Settled(v) /\ k <= stage
      BY <2>1, <1>9, <1>10, Order DEF IInv, StagesInv
    <3>. QED BY <3>1, <1>2
  <2>. QED BY <2>1, <1>9 DEF StagesInv
<1>5. PatchInv'
  <2>1. ASSUME NEW j \in DOMAIN Stages, j < stage \/ (j = stage /\ patched), NEW f \in Patches[j]
        PROVE  /\ \A c \in content'[f] : c.patched = TRUE
               /\ \A l \in DOMAIN Stages : \A v \in Stages[l] :
                    l > stage \/ (l = stage /\ status'[v] \in {"none", "Skipped"}) => mtime'[f] > mtime'[v]
    <3>1. f # u /\ f \in Files
      BY <2>1, <1>9, <1>10, Order DEF Files
    <3>2. content'[f] = content[f] /\ mtime'[f] = mtime[f]
      BY <3>1
    <3>3. ASSUME NEW l \in DOMAIN Stages, NEW v \in Stages[l],
                 l > stage \/ (l = stage /\ status'[v] \in {"none", "Skipped"})
          PROVE  mtime'[f] > mtime'[v]
      <4>1. v # u /\ v \in Files /\ v \in Units
        BY <3>3, <1>1, <1>9, <1>10, Order
      <4>2. mtime'[v] = mtime[v] /\ status'[v] = status[v]
        BY <4>1, <1>1
      <4>. QED BY <4>2, <3>2, <3>3, <2>1 DEF IInv, PatchInv
    <3>. QED BY <3>2, <3>3, <2>1 DEF IInv, PatchInv
  <2>. QED BY <2>1, <1>9 DEF PatchInv
<1>. QED BY <1>0, <1>9, <1>1, <1>3, <1>4, <1>5 DEF FinishInv

LEMMA FailedInv ==
  ASSUME IInv, NEW u \in Units, Invoke(u), IsNeedDoAction(u),
         content' = IF u \in Removes THEN [content EXCEPT ![u] = {}] ELSE content,
         status' = [status EXCEPT ![u] = "Error"],
         UNCHANGED <<mtime, clock, dfile>>
  PROVE  IInv'
<1>0. UNCHANGED <<savedCommand, savedHash, options, stage, patched, toHash, finished, mtime, clock, dfile>>
  BY DEF Invoke
<1>1. /\ DOMAIN content = Files /\ Units \cap Sources = {} /\ Units \subseteq Files /\ Sources \subseteq Files
      /\ mtime[u] \in Nat /\ u \in Files
  BY Order DEF IInv, Types, Files
<1>2. /\ \A f \in Files : content'[f] = content[f] \/ content'[f] = {}
      /\ \A f \in Files : f # u => content'[f] = content[f]
      /\ content'[u] = {} \/ u \notin Removes
      /\ DOMAIN content' = Files
  BY <1>1
<1>3. StatusInv' /\ StagesInv' /\ PatchInv' /\ FinishInv' /\ status' \in [Units -> Statuses]
  <2>1. mtime'[u] \in Nat /\ mtime'[u] >= mtime[u]
    BY <1>0, <1>1
  <2>2. /\ \A f \in Files : f # u => content'[f] = content[f] /\ mtime'[f] = mtime[f]
        /\ "Error" = "Completed" => Fresh(u)'
        /\ "Error" = "Error" => content'[u] = {} \/ Fresh(u)' \/ u \notin Removes
    BY <1>0, <1>2
  <2>. QED BY <2>1, <2>2, CommandInvoked
<1>4. Types'
  BY <1>0, <1>2, <1>3 DEF IInv, Types, Files, Statuses
<1>5. \A f \in Sources : content'[f] = content[f]
  BY <1>1, <1>2
<1>6. Grows
  BY <1>0, <1>5, GrowsStays DEF IInv, Types
<1>7. SourcesInv' /\ HashInv'
  <2>1. \A f \in Files : content'[f] # {} =>
          content[f] # {} /\ Done(f, content'[f]) = Done(f, content[f])
    BY <1>2
  <2>2. \A v \in Units : \A c \in content'[v] : \E d \in content[v] : c.from = d.from
    BY <1>1, <1>2
  <2>3. HashInv'
    BY <2>1, <2>2, <1>0, <1>6, HashStays DEF IInv
  <2>. QED BY <2>3, <1>5 DEF IInv, SourcesInv
<1>8. \A v \in Units : content'[v] = content[v] \/ content'[v] = {}
  BY <1>1, <1>2
<1>9. TargetsInv' /\ PatchMarks' /\ DfileInv' /\ CommandInv'
  <2>1. TargetsInv'
    <3>1. \A v \in Units : content'[v] # {} =>
            \E a, b, p : content[v] = {[command |-> a, from |-> b, patched |-> p]}
      BY <1>8 DEF IInv, TargetsInv
    <3>2. ASSUME NEW v \in Units, content'[v] # {}
          PROVE  \E a, b, p : content'[v] = {[command |-> a, from |-> b, patched |-> p]}
      <4>1. PICK a, b, p : content[v] = {[command |-> a, from |-> b, patched |-> p]}
        BY <3>1, <3>2
      <4>2. content'[v] = {[command |-> a, from |-> b, patched |-> p]}
        BY <4>1, <3>2, <1>8
      <4>. QED BY <4>2
    <3>. QED BY <3>2 DEF TargetsInv
  <2>2. PatchMarks' /\ DfileInv'
    BY <1>0, <1>8 DEF IInv, PatchMarks, DfileInv, AllPatched
  <2>3. \A v \in Units : \A c \in content'[v] : \E d \in content[v] : c.command = d.command
    BY <1>8
  <2>4. CommandInv'
    BY <2>3, <1>0, CommandStays DEF IInv
  <2>. QED BY <2>1, <2>2, <2>4
<1>10. TimeInv'
  <2>1. ASSUME NEW v \in Units, NEW c \in content'[v], NEW f \in Own(v)
        PROVE  content'[f] = {} \/ c.from[f] = content'[f] \/ mtime'[f] > mtime'[v]
    <3>1. f \in Files
      BY Dependencies
    <3>2. content[f] = {} \/ c.from[f] = content[f] \/ mtime[f] > mtime[v]
      BY <1>8 DEF IInv, TimeInv
    <3>. QED BY <3>1, <3>2, <1>0, <1>2
  <2>. QED BY <2>1 DEF TimeInv, Own, Seen, SeenEarlier
<1>. QED BY <1>3, <1>4, <1>7, <1>9, <1>10 DEF IInv

LEMMA WrittenInv ==
  ASSUME IInv, NEW u \in Units, Invoke(u), IsNeedDoAction(u),
         \A f \in Reads[u] : content[f] # {},
         Write(u, Product(u)),
         dfile' = [dfile EXCEPT ![u] = Listed[u]],
         NEW s \in {"Completed", "Error"}, status' = [status EXCEPT ![u] = s]
  PROVE  IInv'
<1>20. PICK p : p = [command |-> Command(u), from |-> [f \in Reads[u] |-> content[f]], patched |-> FALSE]
  OBVIOUS
<1>0. UNCHANGED <<savedCommand, savedHash, options, stage, patched, toHash, finished>>
  BY DEF Invoke
<1>1. /\ DOMAIN content = Files /\ Units \cap Sources = {} /\ Units \subseteq Files /\ Sources \subseteq Files
      /\ mtime \in [Files -> Nat] /\ u \in Files /\ clock \in Nat /\ \A f \in Files : mtime[f] <= clock
      /\ DOMAIN dfile = Units /\ options \in Nat
  BY Order DEF IInv, Types, Files
<1>2. /\ content' = [content EXCEPT ![u] = {p}] /\ clock' = clock + 1
      /\ mtime' = [mtime EXCEPT ![u] = clock + 1]
  BY <1>20 DEF Write, Product
<1>3. /\ p.command = Command(u) /\ p.patched = FALSE /\ p.from = [f \in Reads[u] |-> content[f]]
      /\ p = [command |-> p.command, from |-> p.from, patched |-> p.patched]
  BY <1>20
<1>4. /\ content'[u] = {p} /\ \A f \in Files : f # u => content'[f] = content[f]
      /\ mtime'[u] = clock + 1 /\ \A f \in Files : f # u => mtime'[f] = mtime[f]
      /\ dfile'[u] = Listed[u] /\ \A v \in Units : v # u => dfile'[v] = dfile[v]
      /\ DOMAIN content' = Files /\ DOMAIN dfile' = Units /\ mtime' \in [Files -> Nat] /\ clock' \in Nat
  BY <1>1, <1>2
<1>5. /\ stage \in DOMAIN Stages /\ stage # 0 /\ patched /\ u \in Stages[stage]
      /\ u \notin Reads[u] /\ Reads[u] \subseteq Files /\ Own(u) \subseteq Reads[u]
  BY Invoked
<1>6. Fresh(u)'
  <2>1. p.command = Command(u)'
    BY <1>0, <1>3 DEF Command
  <2>2. \A f \in Own(u) : p.from[f] = content'[f]
    BY <1>3, <1>4, <1>5
  <2>. QED BY <2>1, <2>2, <1>4 DEF Fresh, Own, Seen, SeenEarlier
<1>7. StatusInv' /\ StagesInv' /\ PatchInv' /\ FinishInv' /\ status' \in [Units -> Statuses]
  <2>1. mtime'[u] \in Nat /\ mtime'[u] >= mtime[u]
    BY <1>1, <1>4
  <2>2. /\ \A f \in Files : f # u => content'[f] = content[f] /\ mtime'[f] = mtime[f]
        /\ s = "Completed" => Fresh(u)'
        /\ s = "Error" => content'[u] = {} \/ Fresh(u)' \/ u \notin Removes
    BY <1>4, <1>6
  <2>. QED BY <2>1, <2>2, CommandInvoked
<1>8. Types'
  <2>1. \A f \in Files : mtime'[f] <= clock'
    BY <1>1, <1>2, <1>4
  <2>. QED BY <2>1, <1>0, <1>4, <1>7 DEF IInv, Types, Files, Statuses
<1>9. \A f \in Sources : content'[f] = content[f]
  BY <1>1, <1>4
<1>10. Grows
  <2>1. clock' \in Nat /\ clock <= clock'
    BY <1>1, <1>2
  <2>. QED BY <2>1, <1>0, <1>9, GrowsStays
<1>11. SourcesInv'
  BY <1>9 DEF IInv, SourcesInv
<1>12. HashInv'
  <2>1. PICK A : Ages(A) /\ Latest(A) /\ Saved(A)
    BY DEF IInv, HashInv
  <2>2. PICK m : m = [command |-> p.command, from |-> p.from, patched |-> u \in AllPatched]
    OBVIOUS
  <2>3. m.command = p.command /\ m.from = p.from /\ Target(u, m) /\ Target(u, m)'
    <3>1. m.command = p.command /\ m.from = p.from
      BY <2>2
    <3>2. m = [command |-> m.command, from |-> m.from, patched |-> u \in AllPatched]
      BY <2>2, <3>1
    <3>3. m.from = [f \in Reads[u] |-> m.from[f]]
      BY <3>1, <1>3
    <3>4. m.command \in Nat /\ m.command <= Command(u) /\ Command(u)' = Command(u)
      BY <3>1, <1>0, <1>1, <1>3 DEF Command
    <3>. QED BY <3>1, <3>2, <3>3, <3>4 DEF Target, AllPatched
  <2>4. \A f \in Reads[u] : Newest(A, f, m.from[f])
    <3>1. \A f \in Reads[u] : Newest(A, f, content[f])
      BY <2>1, <1>5, ReadNewest
    <3>. QED BY <3>1, <2>3, <1>3
  <2>5. Done(u, content'[u]) = {m}
    BY <2>2, <1>1, <1>4 DEF Done
  \* What u was made from before is no newer.
  <2>6. ASSUME NEW T \in DOMAIN A[u], NEW d \in T
        PROVE  /\ T = {d} /\ Target(u, d) /\ d.command <= m.command
               /\ \A f \in Reads[u] : d.from[f] \in DOMAIN A[f] /\ A[f][d.from[f]] <= A[f][m.from[f]]
    <3>1. PICK x : T = {x} /\ Target(u, x) /\ \A f \in Reads[u] : x.from[f] \in DOMAIN A[f]
      BY <2>1 DEF Ages
    <3>2. d = x
      BY <3>1
    <3>3. d.command <= m.command
      BY <3>1, <3>2, <2>3, <1>3 DEF Target
    <3>. QED BY <3>1, <3>2, <3>3, <2>4 DEF Newest
  <2>7. PICK B : /\ Ages(B)' /\ \A f \in Files : f # u => B[f] = A[f]
                 /\ \A T \in DOMAIN A[u] : T \in DOMAIN B[u] /\ B[u][T] = A[u][T]
                 /\ Newest(B, u, {m})
    <3>1. CASE {m} \notin DOMAIN A[u]
      <4>1. \A f \in Reads[u] : m.from[f] \in DOMAIN A[f]
        BY <2>4 DEF Newest
      <4>2. \A T \in DOMAIN A[u] : \A d \in T :
              d.command <= m.command /\ \A f \in Reads[u] : A[f][d.from[f]] <= A[f][m.from[f]]
        BY <2>6
      <4>3. u \notin Sources
        BY <1>1
      <4>4. PICK S : S = {m}
        OBVIOUS
      <4>5. \E c : /\ S = {c} /\ Target(u, c)' /\ \A f \in Reads[u] : c.from[f] \in DOMAIN A[f]
                   /\ \A T \in DOMAIN A[u] : \A d \in T :
                        d.command <= c.command /\ \A f \in Reads[u] : A[f][d.from[f]] <= A[f][c.from[f]]
        BY <2>3, <4>1, <4>2, <4>4
      <4>6. clock' = clock + 1 /\ S \notin DOMAIN A[u]
        BY <3>1, <4>4, <1>2
      <4>7. \E B : /\ Ages(B)' /\ \A f \in Files : f # u => B[f] = A[f]
                   /\ \A T \in DOMAIN A[u] : T \in DOMAIN B[u] /\ B[u][T] = A[u][T]
                   /\ Newest(B, u, S)
        BY <2>1, <4>3, <4>5, <4>6, <1>1, <1>10, NewContent
      <4>. QED BY <4>4, <4>7
    <3>2. CASE {m} \in DOMAIN A[u]
      <4>1. ASSUME NEW T \in DOMAIN A[u] PROVE A[u][T] <= A[u][{m}]
        <5>1. PICK d : T = {d} /\ Target(u, d)
          BY <2>1 DEF Ages
        <5>2. /\ d \in T /\ Target(u, d) /\ d.command <= m.command
              /\ \A f \in Reads[u] : d.from[f] \in DOMAIN A[f] /\ A[f][d.from[f]] <= A[f][m.from[f]]
          BY <5>1, <2>6
        <5>3. CASE A[u][{m}] <= A[u][T]
          <6>1. m.command <= d.command /\ \A f \in Reads[u] : A[f][m.from[f]] <= A[f][d.from[f]]
            BY <2>1, <3>2, <5>2, <5>3 DEF Ages
          <6>2. m.command = d.command
            BY <6>1, <5>2, <2>3 DEF Target
          <6>3. ASSUME NEW f \in Reads[u] PROVE m.from[f] = d.from[f]
            <7>1. /\ f \in Files /\ m.from[f] \in DOMAIN A[f] /\ d.from[f] \in DOMAIN A[f]
                  /\ A[f][m.from[f]] <= A[f][d.from[f]] /\ A[f][d.from[f]] <= A[f][m.from[f]]
              BY <6>1, <5>2, <2>4, <1>5 DEF Newest
            <7>2. A[f][m.from[f]] \in Nat /\ A[f][d.from[f]] \in Nat
              BY <7>1, <2>1 DEF Ages
            <7>3. A[f][m.from[f]] = A[f][d.from[f]]
              BY <7>1, <7>2
            <7>. QED BY <7>1, <7>3, <2>1 DEF Ages
          <6>4. m.from = d.from
            <7>1. m.from = [f \in Reads[u] |-> m.from[f]] /\ d.from = [f \in Reads[u] |-> d.from[f]]
              BY <5>2, <2>3 DEF Target
            <7>2. [f \in Reads[u] |-> m.from[f]] = [f \in Reads[u] |-> d.from[f]]
              BY <6>3
            <7>. QED BY <7>1, <7>2
          <6>5. m = d
            <7>1. /\ m = [command |-> m.command, from |-> m.from, patched |-> u \in AllPatched]
                  /\ d = [command |-> d.command, from |-> d.from, patched |-> u \in AllPatched]
              BY <5>2, <2>3 DEF Target
            <7>. QED BY <7>1, <6>2, <6>4
          <6>. QED BY <6>5, <5>1, <5>3
        <5>4. A[u][T] \in Nat /\ A[u][{m}] \in Nat
          BY <2>1, <3>2, <1>1 DEF Ages
        <5>. QED BY <5>3, <5>4
      <4>2. Newest(A, u, {m})
        BY <4>1, <3>2 DEF Newest
      <4>3. Ages(A)'
        BY <2>1, <1>10, AgesStay
      <4>. QED BY <4>2, <4>3
    <3>. QED BY <3>1, <3>2
  <2>8. \A c \in content'[u] : \A f \in Reads[u] : Newest(A, f, c.from[f])
    BY <2>3, <2>4, <1>4
  <2>9. Newest(B, u, Done(u, content'[u])) /\ TargetsInv /\ savedHash' = savedHash
    BY <2>5, <2>7, <1>0 DEF IInv
  <2>10. u \in Files /\ \A f \in Files : f # u => content'[f] = content[f]
    BY <1>1, <1>4
  <2>. QED BY <2>1, <2>7, <2>8, <2>9, <2>10, HashWritten
<1>13. \A v \in Units : v # u => content'[v] = content[v]
  BY <1>1, <1>4
<1>14. TargetsInv' /\ PatchMarks' /\ DfileInv'
  <2>1. TargetsInv'
    <3>1. ASSUME NEW v \in Units, content'[v] # {}
          PROVE  \E a, b, q : content'[v] = {[command |-> a, from |-> b, patched |-> q]}
      <4>1. CASE v = u
        BY <4>1, <1>3, <1>4
      <4>2. CASE v # u
        <5>1. content'[v] = content[v] /\ TargetsInv
          BY <4>2, <1>13 DEF IInv
        <5>2. PICK a, b, q : content[v] = {[command |-> a, from |-> b, patched |-> q]}
          BY <5>1, <3>1 DEF TargetsInv
        <5>. QED BY <5>1, <5>2
      <4>. QED BY <4>1, <4>2
    <3>. QED BY <3>1 DEF TargetsInv
  <2>2. PatchMarks'
    BY <1>0, <1>3, <1>4, <1>13 DEF IInv, PatchMarks, AllPatched
  <2>3. DfileInv'
    BY <1>4, <1>13 DEF IInv, DfileInv
  <2>. QED BY <2>1, <2>2, <2>3
<1>16. CommandInv'
  <2>1. ASSUME NEW v \in Units, savedCommand[v] # {}
        PROVE  \E o \in Nat : /\ savedCommand[v] = {o} /\ o <= Command(v)
                              /\ o = Command(v) => \A c \in content'[v] : c.command = Command(v)
    <3>1. PICK o \in Nat : /\ savedCommand[v] = {o} /\ o <= Command(v)
                           /\ o = Command(v) => \A c \in content[v] : c.command = Command(v)
      BY <2>1 DEF IInv, CommandInv
    <3>2. o = Command(v) => \A c \in content'[v] : c.command = Command(v)
      BY <3>1, <1>3, <1>4, <1>13
    <3>. QED BY <3>1, <3>2
  <2>2. \A v : Command(v)' = Command(v)
    BY <1>0 DEF Command
  <2>. QED BY <2>1, <2>2, <1>0 DEF CommandInv
<1>17. TimeInv'
  <2>1. ASSUME NEW v \in Units, NEW c \in content'[v], NEW f \in Own(v)
        PROVE  content'[f] = {} \/ c.from[f] = content'[f] \/ mtime'[f] > mtime'[v]
    <3>1. f \in Files /\ v \in Files /\ f \in Reads[v] /\ (v = u => f # u)
      BY <1>5, Dependencies
    <3>2. CASE v = u
      <4>1. c = p
        BY <3>2, <1>4
      <4>. QED BY <4>1, <3>1, <3>2, <1>3, <1>4
    <3>3. CASE v # u /\ f = u
      <4>1. mtime'[v] = mtime[v] /\ mtime[v] <= clock /\ mtime[v] \in Nat
        BY <3>1, <3>3, <1>1, <1>4
      <4>. QED BY <4>1, <3>3, <1>1, <1>4
    <3>4. CASE v # u /\ f # u
      <4>1. content[f] = {} \/ c.from[f] = content[f] \/ mtime[f] > mtime[v]
        BY <3>4, <1>13 DEF IInv, TimeInv
      <4>. QED BY <4>1, <3>1, <3>4, <1>4
    <3>. QED BY <3>2, <3>3, <3>4
  <2>. QED BY <2>1 DEF TimeInv, Own, Seen, SeenEarlier
<1>. QED BY <1>7, <1>8, <1>11, <1>12, <1>14, <1>16, <1>17 DEF IInv

LEMMA InvokeInv == ASSUME IInv, NEW u \in Units, Invoke(u) PROVE IInv'
<1>1. CASE ~IsNeedDoAction(u)
  BY <1>1, SkipInv
<1>2. CASE IsNeedDoAction(u)
  <2>1. PICK outcome \in Outcomes : DoAction(u, outcome)
    BY <1>2 DEF Invoke
  <2>2. CASE /\ outcome \in {"written", "warned"}
             /\ \A f \in Reads[u] : content[f] # {}
             /\ Write(u, Product(u))
             /\ dfile' = [dfile EXCEPT ![u] = Listed[u]]
             /\ status' = [status EXCEPT ![u] = IF outcome = "written" THEN "Completed" ELSE "Error"]
    <3>1. PICK s \in {"Completed", "Error"} : status' = [status EXCEPT ![u] = s]
      BY <2>2
    <3>. QED BY <3>1, <2>2, <1>2, WrittenInv
  <2>3. CASE /\ content' = IF u \in Removes THEN [content EXCEPT ![u] = {}] ELSE content
             /\ status' = [status EXCEPT ![u] = "Error"]
             /\ UNCHANGED <<mtime, clock, dfile>>
    BY <2>3, <1>2, FailedInv
  <2>. QED BY <2>1, <2>2, <2>3 DEF DoAction
<1>. QED BY <1>1, <1>2

-----------------------------------------------------------------------------
(* The theorems.                                                           *)

LEMMA InitInv == Init => IInv
<1>. SUFFICES ASSUME Init PROVE IInv
  OBVIOUS
<1>. USE DEF Init
<1>0. Units \cap Sources = {} /\ Units \subseteq Files /\ Sources \subseteq Files
  BY Order DEF Files
<1>1. \A u \in Units : content[u] = {} /\ status[u] = "none" /\ savedCommand[u] = {}
  BY <1>0
<1>2. \A f \in Files : savedHash[f] = {} /\ mtime[f] = 0
  OBVIOUS
<1>3. Types
  <2>1. mtime \in [Files -> Nat] /\ clock \in Nat /\ \A f \in Files : mtime[f] <= clock
    OBVIOUS
  <2>2. status \in [Units -> Statuses] /\ stage \in 0..Len(Stages)
    BY Order DEF Statuses
  <2>3. /\ DOMAIN content = Files /\ DOMAIN savedHash = Files
        /\ DOMAIN savedCommand = Units /\ DOMAIN dfile = Units
    OBVIOUS
  <2>. QED BY <2>1, <2>2, <2>3 DEF Types
<1>4. SourcesInv
  <2>1. \A f \in Sources : content[f] = {1} /\ 1 \in Nat
    BY <1>0
  <2>. QED BY <2>1 DEF SourcesInv
<1>5. HashInv
  <2>. DEFINE A == [f \in Files |-> IF f \in Sources THEN [S \in {{1}} |-> 0] ELSE [S \in {} |-> 0]]
  <2>1. \A f \in Sources : f \in Files /\ DOMAIN A[f] = {{1}} /\ A[f][{1}] = 0
    BY <1>0
  <2>2. \A u \in Units : u \in Files /\ DOMAIN A[u] = {}
    BY <1>0
  <2>3. \A f \in Sources : content[f] = {1}
    BY <1>0
  <2>. HIDE DEF A
  <2>4. Ages(A)
    <3>1. \A f \in Files : \A S \in DOMAIN A[f] : f \in Sources /\ S = {1} /\ A[f][S] = 0
      BY <2>1, <2>2 DEF Files
    <3>2. \A f \in Sources : \A S \in DOMAIN A[f] : 1 \in Nat /\ S = {1} /\ \A w \in content[f] : 1 <= w
      BY <2>1, <2>3
    <3>3. \A f \in Sources : \A S \in DOMAIN A[f] :
            \E v \in Nat : S = {v} /\ \A w \in content[f] : v <= w
      BY <3>2
    <3>4. \A f \in Files : \A S, T \in DOMAIN A[f] : A[f][S] = A[f][T] => S = T
      BY <3>1
    <3>5. \A f \in Files : \A S \in DOMAIN A[f] : A[f][S] \in Nat /\ A[f][S] <= clock
      BY <3>1
    <3>. QED BY <3>3, <3>4, <3>5, <2>2 DEF Ages
  <2>5. Latest(A)
    <3>1. ASSUME NEW f \in Files, content[f] # {} PROVE Newest(A, f, Done(f, content[f]))
      <4>1. f \in Sources
        BY <3>1, <1>1 DEF Files
      <4>2. Done(f, content[f]) = {1}
        BY <4>1, <2>3 DEF Done
      <4>3. Newest(A, f, {1})
        <5>1. \A T \in DOMAIN A[f] : T = {1}
          BY <4>1, <2>1
        <5>2. A[f][{1}] <= A[f][{1}]
          BY <4>1, <2>1
        <5>. QED BY <4>1, <5>1, <5>2, <2>1 DEF Newest
      <4>. QED BY <4>2, <4>3
    <3>. QED BY <3>1 DEF Latest
  <2>6. Saved(A)
    BY <1>1, <1>2 DEF Saved
  <2>. QED BY <2>4, <2>5, <2>6 DEF HashInv
<1>6. TargetsInv /\ PatchMarks /\ CommandInv /\ DfileInv /\ TimeInv
  BY <1>1 DEF TargetsInv, PatchMarks, CommandInv, DfileInv, TimeInv
<1>7. StatusInv
  BY <1>1 DEF StatusInv
<1>8. \A k \in DOMAIN Stages : ~(k < 0) /\ k # 0
  BY Order
<1>9. StagesInv /\ PatchInv /\ FinishInv
  BY <1>8 DEF StagesInv, PatchInv, FinishInv
<1>. QED BY <1>3, <1>4, <1>5, <1>6, <1>7, <1>9 DEF IInv

LEMMA StutterInv == ASSUME IInv, UNCHANGED vars PROVE IInv'
<1>. USE DEF vars, process, bounds
<1>1. UNCHANGED <<disk, options, process, finished>>
  OBVIOUS
<1>2. FilesInv' /\ \A u \in Units : Settled(u) => Settled(u)'
  BY <1>1, DiskStays
<1>3. Types'
  BY <1>1 DEF IInv, Types, Statuses, Files, disk
<1>4. \A u \in Units : /\ Fresh(u) => Fresh(u)'
                       /\ Recorded(u, {}) => Recorded(u, {})'
                       /\ Recorded(u, toHash) => Recorded(u, toHash)'
  BY <1>1 DEF Fresh, Recorded, Command, Own, Seen, SeenEarlier, disk
<1>5. StatusInv'
  <2>1. Pending' = Pending /\ status' = status /\ content' = content
    BY <1>1 DEF Pending, disk
  <2>. QED BY <1>1, <1>2, <1>4, <2>1 DEF IInv, StatusInv, Seen
<1>6. StagesInv' /\ PatchInv' /\ FinishInv'
  BY <1>1, <1>2, Order DEF IInv, StagesInv, PatchInv, FinishInv, disk, AllPatched
<1>. QED BY <1>2, <1>3, <1>5, <1>6 DEF IInv, FilesInv

\* The invariant holds, whatever is edited, fails or is killed, and when.
LEMMA Invariance == Spec => []IInv
<1>1. ASSUME IInv, [Next]_vars PROVE IInv'
  <2>1. CASE \E f \in Sources : Edit(f)
    BY <1>1, <2>1, EditInv
  <2>2. CASE ChangeOptions
    BY <1>1, <2>2, ChangeOptionsInv
  <2>3. CASE StartBuild
    BY <1>1, <2>3, StartBuildInv
  <2>4. CASE PatchTextFile
    BY <1>1, <2>4, PatchTextFileInv
  <2>5. CASE NextStage
    BY <1>1, <2>5, NextStageInv
  <2>6. CASE Stop \/ Kill
    BY <1>1, <2>6, StopInv
  <2>7. CASE \E u \in Units : Invoke(u)
    BY <1>1, <2>7, InvokeInv
  <2>8. CASE \E u \in Units : UpdateCommand(u)
    BY <1>1, <2>8, UpdateCommandInv
  <2>9. CASE \E u \in Units : \E f \in Files : UpdateHash(u, f)
    BY <1>1, <2>9, UpdateHashInv
  <2>10. CASE UNCHANGED vars
    BY <1>1, <2>10, StutterInv
  <2>. QED BY <1>1, <2>1, <2>2, <2>3, <2>4, <2>5, <2>6, <2>7, <2>8, <2>9, <2>10 DEF Next
<1>. QED BY InitInv, <1>1, PTL DEF Spec

\* When a build ends with "Compile finished.", every target is made with the
\* present options from the present contents of the dependencies its unit knows
\* of, but for those whose hashes an earlier stage saves: for any units and stages,
\* the collector's among them, and after builds that failed or were killed.
THEOREM FinishedBuildsAreFresh == Spec => []FinishedIsFresh
<1>1. ASSUME IInv PROVE FinishedIsFresh
  <2>. SUFFICES ASSUME finished, NEW k \in DOMAIN Stages, NEW u \in Stages[k]
                PROVE  \E c \in content[u] :
                         /\ c.command = Command(u)
                         /\ \A f \in Seen(u) : c.from[f] = content[f] \/ SeenEarlier(k, f)
    BY DEF FinishedIsFresh
  <2>1. PICK c : /\ content[u] = {c} /\ c.command = Command(u)
                 /\ \A f \in Own(u) : c.from[f] = content[f]
    BY <1>1 DEF IInv, FinishInv, Settled, Fresh
  <2>2. ASSUME NEW f \in Seen(u), ~SeenEarlier(k, f) PROVE f \in Own(u)
    BY <2>2, Order DEF Own
  <2>. QED BY <2>1, <2>2
<1>. QED BY <1>1, Invariance, PTL

\* After a finished build with nothing edited, a build skips every unit: no unit
\* rewrites what another one reads, and no patch makes a hash differ.
THEOREM NothingIsDoneTwice == Spec => NothingTwice
<1>1. ASSUME IInv, [Next]_vars
      PROVE  [\A u \in Units : finished /\ status[u] = "none" =>
                status'[u] \in {"none", "Skipped"}]_vars
  <2>. SUFFICES ASSUME Next, NEW u \in Units, finished, status[u] = "none"
                PROVE  status'[u] \in {"none", "Skipped"}
    BY <1>1
  <2>0. status \in [Units -> Statuses]
    BY <1>1 DEF IInv, Types
  <2>1. CASE \E f \in Sources : Edit(f)
    BY <2>1 DEF Edit, process
  <2>2. CASE ChangeOptions
    BY <2>2 DEF ChangeOptions, process
  <2>3. CASE StartBuild \/ NextStage \/ Stop \/ Kill
    BY <2>3 DEF StartBuild, NextStage, Stop, Kill, EnterStage
  <2>4. CASE PatchTextFile
    BY <2>4 DEF PatchTextFile
  <2>5. ASSUME NEW v \in Units, Invoke(v) PROVE status'[u] \in {"none", "Skipped"}
    <3>1. \A k \in DOMAIN Stages : \A w \in Stages[k] : Settled(w) /\ Fresh(w)
      BY <1>1 DEF IInv, FinishInv, Settled
    <3>2. ~IsNeedDoAction(v)
      BY <1>1, <2>5, <3>1, Invoked, SettledSkipped
    <3>3. status' = [status EXCEPT ![v] = "Skipped"]
      BY <2>5, <3>2 DEF Invoke
    <3>. QED BY <3>3, <2>0
  <2>6. ASSUME NEW v \in Units, UpdateCommand(v) \/ \E f \in Files : UpdateHash(v, f)
        PROVE  status'[u] \in {"none", "Skipped"}
    BY <1>1, <2>6 DEF UpdateCommand, UpdateHash, IInv, FinishInv
  <2>. QED BY <2>1, <2>2, <2>3, <2>4, <2>5, <2>6 DEF Next
<1>. QED BY <1>1, Invariance, PTL DEF Spec, NothingTwice
=============================================================================
