--------------------------- MODULE CallOnceProofs ---------------------------
(***************************************************************************)
(* Proofs about CallOnce, for every set of threads and classes, every way  *)
(* the cctors use each other and every set of cctors that may throw.       *)
(***************************************************************************)
EXTENDS CallOnce, SequenceTheorems, WellFoundedInduction, TLAPS

(***************************************************************************)
(* The inductive invariant.  Part by part:                                 *)
(*  - lockTid is written only after the flag left 0;                       *)
(*  - between the CAS and the write of lockTid, one thread has the class;  *)
(*  - a class on the chain of t carries t's id and the flag 1, and is      *)
(*    there once;                                                          *)
(*  - what each label of il2cpp_CallOnce knows of the flag and of lockTid. *)
(***************************************************************************)
TidInv == \A c \in Classes : onceFlag[c] = 0 => lockTid[c] = NoThread

OwnInv ==
  /\ \A t \in Threads : pc[t] = "own" =>
        onceFlag[cls[t]] = 1 /\ lockTid[cls[t]] = NoThread
  /\ \A t, u \in Threads : pc[t] = "own" /\ pc[u] = "own" /\ cls[t] = cls[u] => t = u

ChainInv ==
  \A t \in Threads :
    /\ \A i \in 1..Len(chain[t]) : onceFlag[chain[t][i]] = 1 /\ lockTid[chain[t][i]] = t
    /\ \A i, j \in 1..Len(chain[t]) : chain[t][i] = chain[t][j] => i = j

LabelInv ==
  \A t \in Threads :
    /\ pc[t] \in {"cas", "readTid"} /\ lockTid[cls[t]] = t => onceFlag[cls[t]] = 1
    /\ pc[t] \in {"readTid", "spin"} => onceFlag[cls[t]] # 0
    /\ pc[t] = "recheck" => onceFlag[cls[t]] = 1 /\ lockTid[cls[t]] = t
    /\ pc[t] = "spin" => lockTid[cls[t]] # t
    /\ pc[t] # "unreachable"

IInv ==
  TypeOK /\ TidInv /\ OwnInv /\ ChainInv /\ LabelInv /\ InitialisedWhenUsed

-----------------------------------------------------------------------------
\* Taking the last element off a non-empty chain keeps the others in place.
LEMMA PopChain ==
  ASSUME NEW s \in Seq(Classes), s # <<>>
  PROVE  /\ SubSeq(s, 1, Len(s) - 1) \in Seq(Classes)
         /\ Len(SubSeq(s, 1, Len(s) - 1)) = Len(s) - 1
         /\ \A i \in 1..(Len(s) - 1) : SubSeq(s, 1, Len(s) - 1)[i] = s[i]
         /\ Len(s) \in Nat \ {0}
         /\ Len(s) \in 1..Len(s)
         /\ s[Len(s)] \in Classes
<1>1. Len(s) \in Nat \ {0}
  BY EmptySeq
<1>2. \A i \in 1..Len(s) : s[i] \in Classes
  BY ElementOfSeq
<1>3. /\ SubSeq(s, 1, Len(s) - 1) \in Seq(Classes)
      /\ Len(SubSeq(s, 1, Len(s) - 1)) = IF 1 <= Len(s) - 1 THEN Len(s) - 1 - 1 + 1 ELSE 0
      /\ \A i \in 1..(Len(s) - 1 - 1 + 1) : SubSeq(s, 1, Len(s) - 1)[i] = s[1 + i - 1]
  <2>1. \A i \in 1..(Len(s) - 1) : s[i] \in Classes
    BY <1>1, <1>2
  <2> QED BY <1>1, <2>1, SubSeqProperties
<1>4. \A i \in 1..(Len(s) - 1) : SubSeq(s, 1, Len(s) - 1)[i] = s[i]
  BY <1>1, <1>3
<1>5. Len(s) \in 1..Len(s) /\ s[Len(s)] \in Classes
  BY <1>1, <1>2
<1>6. Len(SubSeq(s, 1, Len(s) - 1)) = Len(s) - 1
  <2>1. ASSUME NEW n \in Nat \ {0} PROVE (IF 1 <= n - 1 THEN n - 1 - 1 + 1 ELSE 0) = n - 1
    OBVIOUS
  <2> QED BY <1>1, <1>3, <2>1
<1> QED BY <1>1, <1>3, <1>4, <1>5, <1>6

LEMMA InitInv == Init => IInv
  BY CallOnceAssumption
     DEF Init, IInv, TypeOK, Labels, TidInv, OwnInv, ChainInv, LabelInv, InitialisedWhenUsed

\* Every step keeps the types.
LEMMA TypeStep == TypeOK /\ [Next]_vars => TypeOK'
<1> SUFFICES ASSUME TypeOK, [Next]_vars PROVE TypeOK'
  OBVIOUS
<1> USE DEF TypeOK, Labels, Goto
<1>1. ASSUME NEW t \in Threads, NEW c \in Classes, Touch(t, c) PROVE TypeOK'
  BY <1>1 DEF Touch
<1>2. ASSUME NEW t \in Threads, NEW c \in Classes, TouchInCctor(t, c) PROVE TypeOK'
  <2>1. Running(t) \in Classes
    BY <1>2, PopChain DEF TouchInCctor, Running
  <2> QED BY <1>2, <2>1 DEF TouchInCctor
<1>3. ASSUME NEW t \in Threads, TestFlag(t) PROVE TypeOK'
  <2>1. CASE onceFlag[cls[t]] = 2
    <3>1. Return(t)
      BY <1>3, <2>1 DEF TestFlag
    <3> QED BY <1>3, <3>1 DEF TestFlag, Return
  <2>2. CASE onceFlag[cls[t]] # 2
    BY <1>3, <2>2 DEF TestFlag
  <2> QED BY <2>1, <2>2
<1>4. ASSUME NEW t \in Threads, Cas(t) PROVE TypeOK'
  <2>1. CASE onceFlag[cls[t]] = 0
    <3>1. onceFlag' = [onceFlag EXCEPT ![cls[t]] = 1] /\ Goto(t, "own")
      BY <1>4, <2>1 DEF Cas
    <3> QED BY <1>4, <3>1 DEF Cas
  <2>2. CASE onceFlag[cls[t]] # 0
    <3>1. UNCHANGED onceFlag /\ Goto(t, "readTid")
      BY <1>4, <2>2 DEF Cas
    <3> QED BY <1>4, <3>1 DEF Cas
  <2> QED BY <2>1, <2>2
<1>5. ASSUME NEW t \in Threads, Own(t) PROVE TypeOK'
  <2>1. Append(chain[t], cls[t]) \in Seq(Classes)
    BY AppendProperties
  <2> QED BY <1>5, <2>1 DEF Own
<1>6. ASSUME NEW t \in Threads, Commit(t) PROVE TypeOK'
  <2>1. Running(t) \in Classes /\ SubSeq(chain[t], 1, Len(chain[t]) - 1) \in Seq(Classes)
    BY <1>6, PopChain DEF Commit, Running
  <2> QED BY <1>6, <2>1 DEF Commit, Unwind
<1>7. ASSUME NEW t \in Threads, Throw(t) PROVE TypeOK'
  <2>1. SubSeq(chain[t], 1, Len(chain[t]) - 1) \in Seq(Classes)
    BY <1>7, PopChain DEF Throw
  <2> QED BY <1>7, <2>1 DEF Throw, Unwind
<1>8. ASSUME NEW t \in Threads, ReadTid(t) PROVE TypeOK'
  BY <1>8 DEF ReadTid
<1>9. ASSUME NEW t \in Threads, Recheck(t) PROVE TypeOK'
  <2>1. CASE onceFlag[cls[t]] = 1
    <3>1. Return(t)
      BY <1>9, <2>1 DEF Recheck
    <3> QED BY <1>9, <3>1 DEF Recheck, Return
  <2>2. CASE onceFlag[cls[t]] # 1
    BY <1>9, <2>2 DEF Recheck
  <2> QED BY <2>1, <2>2
<1>10. ASSUME NEW t \in Threads, Spin(t) PROVE TypeOK'
  BY <1>10 DEF Spin, Return
<1>11. CASE UNCHANGED vars
  BY <1>11 DEF vars
<1>12. QED
  BY <1>1, <1>2, <1>3, <1>4, <1>5, <1>6, <1>7, <1>8, <1>9, <1>10, <1>11 DEF Next, Step

-----------------------------------------------------------------------------
\* Every step keeps the inductive invariant.
LEMMA InvStep == IInv /\ [Next]_vars => IInv'
<1> SUFFICES ASSUME IInv, [Next]_vars PROVE IInv'
  OBVIOUS
<1>0. TypeOK /\ TypeOK'
  BY TypeStep DEF IInv
<1> USE DEF Goto
<1>1. ASSUME NEW t \in Threads, NEW c \in Classes, Touch(t, c) PROVE IInv'
  <2>1. TidInv' /\ InitialisedWhenUsed' /\ ChainInv'
    BY <1>1 DEF IInv, Touch, TidInv, InitialisedWhenUsed, ChainInv
  <2>2. OwnInv' /\ LabelInv'
    BY <1>0, <1>1 DEF IInv, Touch, OwnInv, LabelInv, TypeOK
  <2> QED BY <1>0, <2>1, <2>2 DEF IInv
<1>2. ASSUME NEW t \in Threads, NEW c \in Classes, TouchInCctor(t, c) PROVE IInv'
  <2>1. TidInv' /\ InitialisedWhenUsed' /\ ChainInv'
    BY <1>2 DEF IInv, TouchInCctor, TidInv, InitialisedWhenUsed, ChainInv
  <2>2. OwnInv' /\ LabelInv'
    BY <1>0, <1>2 DEF IInv, TouchInCctor, OwnInv, LabelInv, TypeOK
  <2> QED BY <1>0, <2>1, <2>2 DEF IInv
<1>3. ASSUME NEW t \in Threads, TestFlag(t) PROVE IInv'
  <2>1. CASE onceFlag[cls[t]] = 2
    <3>1. Return(t) /\ UNCHANGED <<onceFlag, lockTid, cls, chain, todo>>
      BY <1>3, <2>1 DEF TestFlag
    <3>2. TidInv' /\ ChainInv'
      BY <3>1 DEF IInv, TidInv, ChainInv
    <3>3. OwnInv' /\ LabelInv'
      BY <1>0, <3>1 DEF IInv, Return, OwnInv, LabelInv, TypeOK
    <3>4. InitialisedWhenUsed'
      BY <1>0, <2>1, <3>1 DEF IInv, Return, InitialisedWhenUsed, TypeOK
    <3> QED BY <1>0, <3>2, <3>3, <3>4 DEF IInv
  <2>2. CASE onceFlag[cls[t]] # 2
    <3>1. pc[t] = "test" /\ Goto(t, "cas") /\ UNCHANGED <<onceFlag, lockTid, cls, chain, todo, passed>>
      BY <1>3, <2>2 DEF TestFlag
    <3>2. TidInv' /\ ChainInv' /\ InitialisedWhenUsed'
      BY <3>1 DEF IInv, TidInv, ChainInv, InitialisedWhenUsed
    <3>3. OwnInv'
      BY <1>0, <3>1 DEF IInv, OwnInv, TypeOK
    <3>4. lockTid[cls[t]] = t => onceFlag[cls[t]] = 1
      BY <1>0, <2>2, CallOnceAssumption DEF IInv, TidInv, TypeOK
    <3>5. LabelInv'
      BY <1>0, <3>1, <3>4 DEF IInv, LabelInv, TypeOK
    <3> QED BY <1>0, <3>2, <3>3, <3>5 DEF IInv
  <2> QED BY <2>1, <2>2
<1>4. ASSUME NEW t \in Threads, Cas(t) PROVE IInv'
  <2>1. CASE onceFlag[cls[t]] = 0
    <3>1. /\ pc[t] = "cas" /\ onceFlag' = [onceFlag EXCEPT ![cls[t]] = 1] /\ Goto(t, "own")
          /\ UNCHANGED <<lockTid, cls, chain, todo, passed>>
      BY <1>4, <2>1 DEF Cas
    <3>2. TidInv'
      BY <1>0, <3>1 DEF IInv, TidInv, TypeOK
    <3>3. OwnInv'
      BY <1>0, <2>1, <3>1 DEF IInv, TidInv, OwnInv, TypeOK
    <3>4. ChainInv'
      <4>1. \A u \in Threads : \A i \in 1..Len(chain[u]) :
              onceFlag[chain[u][i]] = 1 /\ chain[u][i] \in Classes
        BY <1>0, ElementOfSeq DEF IInv, ChainInv, TypeOK
      <4>2. \A u \in Threads : \A i \in 1..Len(chain[u]) : onceFlag'[chain[u][i]] = 1
        BY <1>0, <3>1, <4>1 DEF TypeOK
      <4> QED BY <3>1, <4>2 DEF IInv, ChainInv
    <3>5. LabelInv'
      BY <1>0, <2>1, <3>1 DEF IInv, LabelInv, TypeOK
    <3>6. InitialisedWhenUsed'
      BY <1>0, <2>1, <3>1 DEF IInv, InitialisedWhenUsed, TypeOK
    <3> QED BY <1>0, <3>2, <3>3, <3>4, <3>5, <3>6 DEF IInv
  <2>2. CASE onceFlag[cls[t]] # 0
    <3>1. pc[t] = "cas" /\ Goto(t, "readTid") /\ UNCHANGED <<onceFlag, lockTid, cls, chain, todo, passed>>
      BY <1>4, <2>2 DEF Cas
    <3>2. TidInv' /\ ChainInv' /\ InitialisedWhenUsed'
      BY <3>1 DEF IInv, TidInv, ChainInv, InitialisedWhenUsed
    <3>3. OwnInv' /\ LabelInv'
      BY <1>0, <2>2, <3>1 DEF IInv, OwnInv, LabelInv, TypeOK
    <3> QED BY <1>0, <3>2, <3>3 DEF IInv
  <2> QED BY <2>1, <2>2
<1>5. ASSUME NEW t \in Threads, Own(t) PROVE IInv'
  <2> DEFINE c == cls[t]
  <2>1. /\ pc[t] = "own" /\ lockTid' = [lockTid EXCEPT ![c] = t] /\ Goto(t, "body")
        /\ chain' = [chain EXCEPT ![t] = Append(@, c)]
        /\ UNCHANGED <<onceFlag, cls, todo, passed>>
    BY <1>5 DEF Own
  <2>2. c \in Classes /\ onceFlag[c] = 1 /\ lockTid[c] = NoThread
    BY <1>0, <2>1 DEF IInv, OwnInv, TypeOK
  <2>3. TidInv'
    BY <1>0, <2>1, <2>2 DEF IInv, TidInv, TypeOK
  <2>4. OwnInv'
    BY <1>0, <2>1, <2>2 DEF IInv, OwnInv, TypeOK
  <2>5. ChainInv'
    <3>1. \A u \in Threads : \A i \in 1..Len(chain[u]) :
            /\ onceFlag[chain[u][i]] = 1 /\ lockTid[chain[u][i]] = u
            /\ chain[u][i] \in Classes /\ chain[u][i] # c
      BY <1>0, <2>2, ElementOfSeq, CallOnceAssumption DEF IInv, ChainInv, TypeOK
    <3>2. ASSUME NEW u \in Threads, u # t
          PROVE  /\ \A i \in 1..Len(chain'[u]) : onceFlag'[chain'[u][i]] = 1 /\ lockTid'[chain'[u][i]] = u
                 /\ \A i, j \in 1..Len(chain'[u]) : chain'[u][i] = chain'[u][j] => i = j
      <4>1. chain'[u] = chain[u]
        BY <1>0, <2>1, <3>2 DEF TypeOK
      <4>2. \A i \in 1..Len(chain[u]) : onceFlag'[chain[u][i]] = 1 /\ lockTid'[chain[u][i]] = u
        BY <1>0, <2>1, <3>1 DEF TypeOK
      <4> QED BY <4>1, <4>2 DEF IInv, ChainInv
    <3>3. /\ chain'[t] = Append(chain[t], c)
          /\ Len(chain'[t]) = Len(chain[t]) + 1 /\ Len(chain[t]) \in Nat
          /\ \A i \in 1..Len(chain[t]) : chain'[t][i] = chain[t][i]
          /\ chain'[t][Len(chain[t]) + 1] = c
      <4>1. chain[t] \in Seq(Classes) /\ chain'[t] = Append(chain[t], c)
        BY <1>0, <2>1 DEF TypeOK
      <4> QED BY <2>2, <4>1, AppendProperties, LenProperties
    <3>4. \A i \in 1..Len(chain'[t]) : onceFlag'[chain'[t][i]] = 1 /\ lockTid'[chain'[t][i]] = t
      <4>1. ASSUME NEW i \in 1..Len(chain'[t])
            PROVE onceFlag'[chain'[t][i]] = 1 /\ lockTid'[chain'[t][i]] = t
        <5>1. CASE i = Len(chain[t]) + 1
          BY <1>0, <2>1, <2>2, <3>3, <5>1 DEF TypeOK
        <5>2. CASE i \in 1..Len(chain[t])
          BY <1>0, <2>1, <3>1, <3>3, <5>2 DEF TypeOK
        <5> QED BY <3>3, <5>1, <5>2
      <4> QED BY <4>1
    <3>5. \A i, j \in 1..Len(chain'[t]) : chain'[t][i] = chain'[t][j] => i = j
      BY <3>1, <3>3 DEF IInv, ChainInv
    <3> QED BY <3>2, <3>4, <3>5 DEF ChainInv
  <2>6. LabelInv'
    <3>1. pc'[t] = "body" /\ \A u \in Threads \ {t} : pc'[u] = pc[u]
      BY <1>0, <2>1 DEF TypeOK
    <3>2. \A u \in Threads \ {t} : lockTid'[cls[u]] = u => lockTid[cls[u]] = u
      BY <1>0, <2>1 DEF TypeOK
    <3>3. \A u \in Threads \ {t} : pc[u] = "recheck" => lockTid'[cls[u]] = u
      BY <1>0, <2>1, <2>2, CallOnceAssumption DEF IInv, LabelInv, TypeOK
    <3> QED BY <2>1, <3>1, <3>2, <3>3 DEF IInv, LabelInv
  <2>7. InitialisedWhenUsed'
    BY <1>0, <2>1, <2>2, CallOnceAssumption DEF IInv, InitialisedWhenUsed, TypeOK
  <2> QED BY <1>0, <2>3, <2>4, <2>5, <2>6, <2>7 DEF IInv
<1>6. ASSUME NEW t \in Threads, Commit(t) PROVE IInv'
  <2> DEFINE c == Running(t)
  <2>1. /\ pc[t] = "body" /\ chain[t] \in Seq(Classes) /\ chain[t] # <<>>
        /\ onceFlag' = [onceFlag EXCEPT ![c] = IF @ = 1 THEN 2 ELSE @]
        /\ chain' = [chain EXCEPT ![t] = SubSeq(@, 1, Len(@) - 1)]
        /\ passed' = [passed EXCEPT ![t] = @ \cup {c}]
        /\ UNCHANGED <<lockTid, pc, cls, todo>>
    BY <1>0, <1>6 DEF Commit, Unwind, TypeOK
  <2>2. c \in Classes /\ onceFlag[c] = 1 /\ lockTid[c] = t
    BY <2>1, PopChain DEF IInv, ChainInv, Running
  <2>3. onceFlag' = [onceFlag EXCEPT ![c] = 2]
    BY <1>0, <2>1, <2>2 DEF TypeOK
  <2>4. TidInv'
    BY <1>0, <2>1, <2>2, <2>3 DEF IInv, TidInv, TypeOK
  <2>5. OwnInv'
    BY <1>0, <2>1, <2>2, <2>3, CallOnceAssumption DEF IInv, OwnInv, TypeOK
  <2>6. ChainInv'
    <3>1. ASSUME NEW u \in Threads, u # t
          PROVE  /\ \A i \in 1..Len(chain'[u]) : onceFlag'[chain'[u][i]] = 1 /\ lockTid'[chain'[u][i]] = u
                 /\ \A i, j \in 1..Len(chain'[u]) : chain'[u][i] = chain'[u][j] => i = j
      <4>1. chain'[u] = chain[u]
        BY <1>0, <2>1, <3>1 DEF TypeOK
      <4>2. \A i \in 1..Len(chain[u]) :
              chain[u][i] \in Classes /\ onceFlag[chain[u][i]] = 1 /\ lockTid[chain[u][i]] = u
        BY <1>0, ElementOfSeq DEF IInv, ChainInv, TypeOK
      <4>3. \A i \in 1..Len(chain[u]) : onceFlag'[chain[u][i]] = 1 /\ lockTid'[chain[u][i]] = u
        BY <1>0, <2>1, <2>2, <2>3, <3>1, <4>2 DEF TypeOK
      <4> QED BY <4>1, <4>3 DEF IInv, ChainInv
    <3>2. /\ Len(chain[t]) \in Nat \ {0}
          /\ Len(chain'[t]) = Len(chain[t]) - 1
          /\ \A i \in 1..(Len(chain[t]) - 1) : chain'[t][i] = chain[t][i]
      <4>1. chain'[t] = SubSeq(chain[t], 1, Len(chain[t]) - 1)
        BY <1>0, <2>1 DEF TypeOK
      <4> QED BY <2>1, <4>1, PopChain
    <3>3. \A i \in 1..(Len(chain[t]) - 1) :
            /\ chain[t][i] \in Classes /\ chain[t][i] # c
            /\ onceFlag[chain[t][i]] = 1 /\ lockTid[chain[t][i]] = t
      BY <2>1, <3>2, ElementOfSeq DEF IInv, ChainInv, Running
    <3>4. \A i \in 1..Len(chain'[t]) : onceFlag'[chain'[t][i]] = 1 /\ lockTid'[chain'[t][i]] = t
      BY <1>0, <2>1, <2>3, <3>2, <3>3 DEF TypeOK
    <3>5. \A i, j \in 1..Len(chain'[t]) : chain'[t][i] = chain'[t][j] => i = j
      BY <3>2 DEF IInv, ChainInv
    <3> QED BY <3>1, <3>4, <3>5 DEF ChainInv
  <2>7. LabelInv'
    BY <1>0, <2>1, <2>2, <2>3 DEF IInv, LabelInv, TypeOK
  <2>8. InitialisedWhenUsed'
    BY <1>0, <2>1, <2>2, <2>3 DEF IInv, InitialisedWhenUsed, TypeOK
  <2> QED BY <1>0, <2>4, <2>5, <2>6, <2>7, <2>8 DEF IInv
<1>7. ASSUME NEW t \in Threads, Throw(t) PROVE IInv'
  <2>1. /\ chain[t] \in Seq(Classes) /\ chain[t] # <<>>
        /\ chain' = [chain EXCEPT ![t] = SubSeq(@, 1, Len(@) - 1)]
        /\ UNCHANGED <<onceFlag, lockTid, pc, cls, todo, passed>>
    BY <1>0, <1>7 DEF Throw, Unwind, TypeOK
  <2>2. TidInv' /\ OwnInv' /\ LabelInv' /\ InitialisedWhenUsed'
    BY <2>1 DEF IInv, TidInv, OwnInv, LabelInv, InitialisedWhenUsed
  <2>3. ChainInv'
    <3>1. ASSUME NEW u \in Threads, u # t PROVE chain'[u] = chain[u]
      BY <1>0, <2>1, <3>1 DEF TypeOK
    <3>2. /\ Len(chain[t]) \in Nat \ {0}
          /\ Len(chain'[t]) = Len(chain[t]) - 1
          /\ \A i \in 1..(Len(chain[t]) - 1) : chain'[t][i] = chain[t][i]
      <4>1. chain'[t] = SubSeq(chain[t], 1, Len(chain[t]) - 1)
        BY <1>0, <2>1 DEF TypeOK
      <4> QED BY <2>1, <4>1, PopChain
    <3>3. ASSUME NEW u \in Threads
          PROVE  /\ \A i \in 1..Len(chain'[u]) : onceFlag[chain'[u][i]] = 1 /\ lockTid[chain'[u][i]] = u
                 /\ \A i, j \in 1..Len(chain'[u]) : chain'[u][i] = chain'[u][j] => i = j
      <4>1. CASE u = t
        BY <3>2, <4>1 DEF IInv, ChainInv
      <4>2. CASE u # t
        BY <3>1, <4>2 DEF IInv, ChainInv
      <4> QED BY <4>1, <4>2
    <3> QED BY <2>1, <3>3 DEF ChainInv
  <2> QED BY <1>0, <2>2, <2>3 DEF IInv
<1>8. ASSUME NEW t \in Threads, ReadTid(t) PROVE IInv'
  <2>1. TidInv' /\ ChainInv' /\ InitialisedWhenUsed'
    BY <1>8 DEF IInv, ReadTid, TidInv, ChainInv, InitialisedWhenUsed
  <2>2. CASE lockTid[cls[t]] # t
    <3>1. pc[t] = "readTid" /\ Goto(t, "spin") /\ UNCHANGED <<onceFlag, lockTid, cls>>
      BY <1>8, <2>2 DEF ReadTid
    <3>2. OwnInv' /\ LabelInv'
      BY <1>0, <2>2, <3>1 DEF IInv, OwnInv, LabelInv, TypeOK
    <3> QED BY <1>0, <2>1, <3>2 DEF IInv
  <2>3. CASE lockTid[cls[t]] = t
    <3>1. pc[t] = "readTid" /\ Goto(t, "recheck") /\ UNCHANGED <<onceFlag, lockTid, cls>>
      BY <1>8, <2>3 DEF ReadTid
    <3>2. OwnInv' /\ LabelInv'
      BY <1>0, <2>3, <3>1 DEF IInv, OwnInv, LabelInv, TypeOK
    <3> QED BY <1>0, <2>1, <3>2 DEF IInv
  <2> QED BY <2>2, <2>3
<1>9. ASSUME NEW t \in Threads, Recheck(t) PROVE IInv'
  <2>1. pc[t] = "recheck" /\ onceFlag[cls[t]] = 1 /\ lockTid[cls[t]] = t
    BY <1>9 DEF IInv, LabelInv, Recheck
  <2>2. Return(t) /\ UNCHANGED <<onceFlag, lockTid, cls, chain, todo>>
    BY <1>9, <2>1 DEF Recheck
  <2>3. TidInv' /\ ChainInv'
    BY <2>2 DEF IInv, TidInv, ChainInv
  <2>4. OwnInv' /\ LabelInv'
    BY <1>0, <2>2 DEF IInv, Return, OwnInv, LabelInv, TypeOK
  <2>5. InitialisedWhenUsed'
    BY <1>0, <2>1, <2>2 DEF IInv, Return, InitialisedWhenUsed, TypeOK
  <2> QED BY <1>0, <2>3, <2>4, <2>5 DEF IInv
<1>10. ASSUME NEW t \in Threads, Spin(t) PROVE IInv'
  <2>1. onceFlag[cls[t]] = 2 /\ Return(t) /\ UNCHANGED <<onceFlag, lockTid, cls, chain, todo>>
    BY <1>10 DEF Spin
  <2>2. TidInv' /\ ChainInv'
    BY <2>1 DEF IInv, TidInv, ChainInv
  <2>3. OwnInv' /\ LabelInv'
    BY <1>0, <2>1 DEF IInv, Return, OwnInv, LabelInv, TypeOK
  <2>4. InitialisedWhenUsed'
    BY <1>0, <2>1 DEF IInv, Return, InitialisedWhenUsed, TypeOK
  <2> QED BY <1>0, <2>2, <2>3, <2>4 DEF IInv
<1>11. CASE UNCHANGED vars
  BY <1>11, <1>0 DEF IInv, vars, TidInv, OwnInv, ChainInv, LabelInv, InitialisedWhenUsed
<1>12. QED
  BY <1>1, <1>2, <1>3, <1>4, <1>5, <1>6, <1>7, <1>8, <1>9, <1>10, <1>11 DEF Next, Step

LEMMA Invariance == Spec => []IInv
  BY InitInv, InvStep, PTL DEF Spec

-----------------------------------------------------------------------------
\* The variables keep their types, whatever the threads do.
THEOREM TypeCorrect == Spec => []TypeOK
  BY Invariance, PTL DEF IInv

\* No thread runs past a touch of a class that another thread is still
\* initialising (il2cpp_CallOnce, il2cpp.cpp:119-137).
THEOREM UsesInitialised == Spec => []InitialisedWhenUsed
  BY Invariance, PTL DEF IInv

\* A thread is inside a cctor only where the flag and lockTid say so.
LEMMA InCctorFacts ==
  ASSUME IInv, NEW t \in Threads, NEW c \in Classes, InCctor(t, c)
  PROVE  onceFlag[c] = 1 /\ lockTid[c] = IF pc[t] = "own" /\ cls[t] = c THEN NoThread ELSE t
<1>1. CASE pc[t] = "own" /\ cls[t] = c
  BY <1>1 DEF IInv, OwnInv
<1>2. CASE ~(pc[t] = "own" /\ cls[t] = c)
  BY <1>2 DEF IInv, ChainInv, InCctor
<1> QED BY <1>1, <1>2

\* The body of a cctor is never active twice (il2cpp.cpp:123-127).
THEOREM NoSecondActivation == Spec => []OneActivation
<1>1. IInv => OneActivation
  <2> SUFFICES ASSUME IInv PROVE OneActivation
    OBVIOUS
  <2>1. ASSUME NEW t \in Threads, NEW u \in Threads, NEW c \in Classes,
               InCctor(t, c), InCctor(u, c)
        PROVE  t = u
    <3>1. CASE lockTid[c] = NoThread
      BY <2>1, <3>1, InCctorFacts, CallOnceAssumption DEF IInv, OwnInv
    <3>2. CASE lockTid[c] # NoThread
      BY <2>1, <3>2, InCctorFacts
    <3> QED BY <3>1, <3>2
  <2>2. \A t \in Threads : \A i, j \in 1..Len(chain[t]) : chain[t][i] = chain[t][j] => i = j
    BY DEF IInv, ChainInv
  <2> QED BY <2>1, <2>2 DEF OneActivation
<1> QED BY <1>1, Invariance, PTL

\* The branch il2cpp.cpp:134-135 declares unreachable is never taken.
THEOREM RecheckSucceeds == Spec => []UnreachableIsUnreachable
<1>1. IInv => UnreachableIsUnreachable
  BY DEF IInv, LabelInv, UnreachableIsUnreachable
<1> QED BY <1>1, Invariance, PTL

\* A thread that spins waits for another thread, or for a cctor that threw.
LEMMA WaitCause == IInv => WaitHasCause
<1> SUFFICES ASSUME IInv, NEW t \in Threads, Blocked(t), ~Abandoned(cls[t])
             PROVE  \E u \in Threads \ {t} : InCctor(u, cls[t])
  BY DEF WaitHasCause
<1>1. pc[t] = "spin" /\ cls[t] \in Classes /\ onceFlag[cls[t]] = 1 /\ lockTid[cls[t]] # t
  BY DEF IInv, Blocked, LabelInv, TypeOK
<1>2. PICK u \in Threads : InCctor(u, cls[t])
  BY <1>1 DEF Abandoned
<1>3. u # t
  BY <1>1, <1>2, InCctorFacts
<1> QED BY <1>2, <1>3

THEOREM WaitsHaveCauses == Spec => []WaitHasCause
  BY Invariance, WaitCause, PTL

-----------------------------------------------------------------------------
\* The code implements OnceSpec: every step is a step of it or changes nothing
\* that it sees.
THEOREM Refinement == Spec => ImplementsOnce
<1> DEFINE ph == [c \in Classes |-> IF onceFlag[c] = 2 THEN "done"
                    ELSE IF lockTid[c] = NoThread THEN "idle" ELSE "running"]
<1>1. Init => Once!Init
  BY DEF Init, Once!Init
<1>2. IInv /\ IInv' /\ [Next]_vars => [Once!Next]_(Once!vars)
  <2> SUFFICES ASSUME IInv, IInv', [Next]_vars PROVE [Once!Next]_(Once!vars)
    OBVIOUS
  <2>0. TypeOK /\ TypeOK'
    BY DEF IInv
  <2> USE DEF Once!Next, Once!vars, Goto
  <2>1. ASSUME NEW t \in Threads, NEW c \in Classes, Return(t), cls[t] = c,
               UNCHANGED <<onceFlag, lockTid>>, onceFlag[c] = 2 \/ (onceFlag[c] = 1 /\ lockTid[c] = t)
        PROVE  Once!Pass(t, c)
    BY <2>0, <2>1, CallOnceAssumption DEF Once!Pass, Return, TypeOK
  <2>2. ASSUME NEW t \in Threads, NEW c \in Classes, Own(t), c = cls[t]
        PROVE  Once!Begin(t, c)
    <3>1. onceFlag[c] = 1 /\ lockTid[c] = NoThread
      BY <2>0, <2>2 DEF IInv, OwnInv, Own, TypeOK
    <3>2. lockTid' = [lockTid EXCEPT ![c] = t] /\ UNCHANGED <<onceFlag, passed>>
      BY <2>2 DEF Own
    <3>3. ph' = [ph EXCEPT ![c] = "running"]
      <4>1. lockTid'[c] # NoThread /\ onceFlag'[c] # 2
        BY <2>0, <3>1, <3>2, CallOnceAssumption DEF TypeOK
      <4>2. \A d \in Classes \ {c} : lockTid'[d] = lockTid[d] /\ onceFlag'[d] = onceFlag[d]
        BY <2>0, <3>1, <3>2 DEF TypeOK
      <4> QED BY <3>1, <4>1, <4>2
    <3> QED BY <3>1, <3>2, <3>3 DEF Once!Begin
  <2>3. ASSUME NEW t \in Threads, NEW c \in Classes, Commit(t), c = Running(t)
        PROVE  Once!Finish(t, c)
    <3>1. chain[t] \in Seq(Classes) /\ chain[t] # <<>>
      BY <2>0, <2>3 DEF Commit, TypeOK
    <3>2. onceFlag[c] = 1 /\ lockTid[c] = t
      BY <2>3, <3>1, PopChain DEF IInv, ChainInv, Running
    <3>3. onceFlag' = [onceFlag EXCEPT ![c] = 2] /\ UNCHANGED lockTid
          /\ passed' = [passed EXCEPT ![t] = @ \cup {c}]
      BY <2>0, <2>3, <3>2 DEF Commit, TypeOK
    <3>4. ph' = [ph EXCEPT ![c] = "done"]
      BY <2>0, <3>2, <3>3, CallOnceAssumption DEF TypeOK
    <3> QED BY <3>2, <3>3, <3>4, CallOnceAssumption DEF Once!Finish
  <2>4. ASSUME NEW t \in Threads, TestFlag(t) PROVE [Once!Next]_(Once!vars)
    <3>1. CASE onceFlag[cls[t]] = 2
      BY <2>0, <2>1, <2>4, <3>1 DEF TestFlag, TypeOK
    <3>2. CASE onceFlag[cls[t]] # 2
      BY <2>4, <3>2 DEF TestFlag
    <3> QED BY <3>1, <3>2
  <2>5. ASSUME NEW t \in Threads, Cas(t) PROVE [Once!Next]_(Once!vars)
    <3>1. CASE onceFlag[cls[t]] = 0
      <4>1. onceFlag' = [onceFlag EXCEPT ![cls[t]] = 1] /\ UNCHANGED <<lockTid, passed>>
        BY <2>5, <3>1 DEF Cas
      <4>2. UNCHANGED ph
        BY <2>0, <3>1, <4>1 DEF TypeOK
      <4> QED BY <4>1, <4>2
    <3>2. CASE onceFlag[cls[t]] # 0
      BY <2>5, <3>2 DEF Cas
    <3> QED BY <3>1, <3>2
  <2>6. ASSUME NEW t \in Threads, Recheck(t) PROVE [Once!Next]_(Once!vars)
    <3>1. onceFlag[cls[t]] = 1 /\ lockTid[cls[t]] = t
      BY <2>6 DEF IInv, LabelInv, Recheck
    <3> QED BY <2>0, <2>1, <2>6, <3>1 DEF Recheck, TypeOK
  <2>7. ASSUME NEW t \in Threads, Spin(t) PROVE [Once!Next]_(Once!vars)
    BY <2>0, <2>1, <2>7 DEF Spin, TypeOK
  <2>8. ASSUME UNCHANGED <<onceFlag, lockTid, passed>> PROVE [Once!Next]_(Once!vars)
    BY <2>8
  <2>9. ASSUME NEW t \in Threads, NEW c \in Classes, Touch(t, c) \/ TouchInCctor(t, c)
        PROVE [Once!Next]_(Once!vars)
    BY <2>8, <2>9 DEF Touch, TouchInCctor
  <2>10. ASSUME NEW t \in Threads, Throw(t) \/ ReadTid(t) PROVE [Once!Next]_(Once!vars)
    BY <2>8, <2>10 DEF Throw, ReadTid
  <2>11. ASSUME NEW t \in Threads, Own(t) \/ Commit(t) PROVE Once!Next
    <3>1. CASE Own(t)
      <4>1. PICK c \in Classes : c = cls[t]
        BY <2>0 DEF TypeOK
      <4> QED BY <2>2, <3>1, <4>1
    <3>2. CASE Commit(t)
      <4>1. chain[t] \in Seq(Classes) /\ chain[t] # <<>>
        BY <2>0, <3>2 DEF Commit, TypeOK
      <4>2. PICK c \in Classes : c = Running(t)
        BY <4>1, PopChain DEF Running
      <4> QED BY <2>3, <3>2, <4>2
    <3> QED BY <2>11, <3>1, <3>2
  <2>12. CASE UNCHANGED vars
    BY <2>8, <2>12 DEF vars
  <2> QED
    BY <2>4, <2>5, <2>6, <2>7, <2>9, <2>10, <2>11, <2>12 DEF Next, Step
<1> QED BY <1>1, <1>2, Invariance, PTL DEF Spec, ImplementsOnce, Once!Spec

-----------------------------------------------------------------------------
(***************************************************************************)
(* Deadlock.  The cctors can be ranked when none uses itself, directly or  *)
(* through others.  Then a thread calls classes of lower and lower rank    *)
(* the deeper it is, so that a thread that waits for a cctor waits for one *)
(* of higher rank than the one its owner may wait for, and the waits end.  *)
(***************************************************************************)
Ranks(rank) ==
  /\ rank \in [Classes -> Nat]
  /\ \A c \in Classes : \A d \in Uses[c] : rank[d] < rank[c]

RankInv(rank) ==
  /\ \A c \in Classes : todo[c] \subseteq Uses[c]
  /\ \A t \in Threads :
       /\ \A i, j \in 1..Len(chain[t]) : i < j => rank[chain[t][j]] < rank[chain[t][i]]
       /\ pc[t] # "body" /\ chain[t] # <<>> => rank[cls[t]] < rank[Running(t)]

LEMMA LeastNumber ==
  ASSUME NEW S \in SUBSET Nat, S # {}
  PROVE  \E m \in S : \A n \in S : m <= n
<1>1. PICK m \in S : \A n \in S : ~(<<n, m>> \in OpToRel(<, Nat))
  BY WFMin, NatLessThanWellFounded
<1>2. \A n \in S : ~(n < m)
  BY <1>1 DEF OpToRel
<1> QED BY <1>2

LEMMA SomeoneRunsFromRank ==
  ASSUME NEW rank, Ranks(rank), IInv, RankInv(rank), Threads # {}
  PROVE  SomeoneRuns
<1> SUFFICES ASSUME \A t \in Threads : Blocked(t) /\ ~Abandoned(cls[t]) PROVE FALSE
  BY DEF SomeoneRuns
<1> DEFINE S == {rank[cls[t]] : t \in Threads}
<1>1. S \in SUBSET Nat /\ S # {}
  BY DEF Ranks, IInv, TypeOK
<1>2. PICK t \in Threads : \A u \in Threads : rank[cls[t]] <= rank[cls[u]]
  <2>1. PICK m \in S : \A n \in S : m <= n
    BY <1>1, LeastNumber
  <2>2. PICK t \in Threads : m = rank[cls[t]]
    BY <2>1
  <2> QED BY <2>1, <2>2
<1>3. PICK u \in Threads : InCctor(u, cls[t])
  BY WaitCause DEF WaitHasCause
<1>4. pc[u] = "spin"
  BY DEF Blocked
<1>5. PICK i \in 1..Len(chain[u]) : chain[u][i] = cls[t]
  BY <1>3, <1>4 DEF InCctor
<1>6. chain[u] \in Seq(Classes) /\ chain[u] # <<>> /\ Len(chain[u]) \in Nat
  <2>1. chain[u] \in Seq(Classes)
    BY DEF IInv, TypeOK
  <2> QED BY <1>5, <2>1, EmptySeq, LenProperties
<1>7. rank[cls[u]] < rank[Running(u)] /\ Running(u) \in Classes
  BY <1>4, <1>6, PopChain DEF RankInv, Running
<1>8. rank[Running(u)] <= rank[cls[t]]
  <2>1. CASE i = Len(chain[u])
    BY <1>5, <1>7, <2>1 DEF Running, Ranks
  <2>2. CASE i < Len(chain[u])
    <3>1. rank[chain[u][Len(chain[u])]] < rank[chain[u][i]]
      BY <1>5, <1>6, <2>2 DEF RankInv
    <3>2. rank[Running(u)] \in Nat /\ rank[cls[t]] \in Nat
      BY <1>7 DEF Ranks, IInv, TypeOK
    <3> QED BY <1>5, <3>1, <3>2 DEF Running
  <2> QED BY <1>5, <1>6, <2>1, <2>2
<1> QED BY <1>2, <1>7, <1>8 DEF Ranks, IInv, TypeOK

LEMMA RankStep ==
  ASSUME NEW rank, Ranks(rank), IInv, RankInv(rank), [Next]_vars
  PROVE  RankInv(rank)'
<1> USE DEF Goto
<1>0. TypeOK
  BY DEF IInv
<1>1. ASSUME NEW t \in Threads, NEW c \in Classes, Touch(t, c) PROVE RankInv(rank)'
  <2>1. chain[t] = <<>> /\ UNCHANGED <<chain, todo>>
        /\ \A u \in Threads \ {t} : pc'[u] = pc[u] /\ cls'[u] = cls[u]
    BY <1>0, <1>1 DEF Touch, TypeOK
  <2> QED BY <2>1 DEF RankInv, Running
<1>2. ASSUME NEW t \in Threads, NEW c \in Classes, TouchInCctor(t, c) PROVE RankInv(rank)'
  <2>1. Running(t) \in Classes
    BY <1>0, <1>2, PopChain DEF TouchInCctor, Running, TypeOK
  <2>2. rank[c] < rank[Running(t)]
    BY <1>2, <2>1 DEF TouchInCctor, RankInv, Ranks
  <2>3. /\ UNCHANGED chain /\ cls'[t] = c
        /\ \A u \in Threads \ {t} : pc'[u] = pc[u] /\ cls'[u] = cls[u]
        /\ \A d \in Classes : todo'[d] \subseteq todo[d]
    BY <1>0, <1>2, <2>1 DEF TouchInCctor, TypeOK
  <2>4. \A u \in Threads : pc'[u] # "body" /\ chain'[u] # <<>> => rank[cls'[u]] < rank[Running(u)]
    BY <2>2, <2>3 DEF RankInv
  <2> QED BY <2>3, <2>4 DEF RankInv, Running
<1>3. ASSUME NEW t \in Threads,
             TestFlag(t) \/ Cas(t) \/ ReadTid(t) \/ Recheck(t) \/ Spin(t)
      PROVE  RankInv(rank)'
  <2>1. UNCHANGED <<cls, chain, todo>> /\ pc[t] # "body"
    BY <1>3 DEF TestFlag, Cas, ReadTid, Recheck, Spin
  <2>2. \A u \in Threads \ {t} : pc'[u] = pc[u]
    BY <1>0, <1>3 DEF TestFlag, Cas, ReadTid, Recheck, Spin, Return, TypeOK
  <2> QED BY <2>1, <2>2 DEF RankInv, Running
<1>4. ASSUME NEW t \in Threads, Own(t) PROVE RankInv(rank)'
  <2>1. chain[t] \in Seq(Classes) /\ cls[t] \in Classes /\ pc[t] = "own"
    BY <1>0, <1>4 DEF TypeOK, Own
  <2>2. /\ pc'[t] = "body" /\ chain'[t] = Append(chain[t], cls[t]) /\ UNCHANGED <<cls, todo>>
        /\ \A u \in Threads \ {t} : pc'[u] = pc[u] /\ chain'[u] = chain[u]
    BY <1>0, <1>4 DEF Own, TypeOK
  <2>3. /\ Len(chain[t]) \in Nat /\ Len(chain'[t]) = Len(chain[t]) + 1
        /\ \A i \in 1..Len(chain[t]) : chain'[t][i] = chain[t][i] /\ chain[t][i] \in Classes
        /\ chain'[t][Len(chain[t]) + 1] = cls[t]
    BY <2>1, <2>2, AppendProperties, LenProperties, ElementOfSeq
  <2>4. \A i \in 1..Len(chain[t]) : rank[cls[t]] < rank[chain[t][i]]
    <3>1. ASSUME NEW i \in 1..Len(chain[t]) PROVE rank[cls[t]] < rank[chain[t][i]]
      <4>1. chain[t] # <<>>
        BY <2>1, EmptySeq
      <4>2. rank[cls[t]] < rank[Running(t)]
        BY <2>1, <4>1 DEF RankInv
      <4>3. CASE i = Len(chain[t])
        BY <4>2, <4>3 DEF Running
      <4>4. CASE i < Len(chain[t])
        <5>1. rank[chain[t][Len(chain[t])]] < rank[chain[t][i]]
          BY <2>3, <4>4 DEF RankInv
        <5>2. /\ rank[cls[t]] \in Nat /\ rank[chain[t][i]] \in Nat
              /\ rank[chain[t][Len(chain[t])]] \in Nat
          BY <2>1, <2>3, <4>4 DEF Ranks
        <5> QED BY <4>2, <5>1, <5>2 DEF Running
      <4> QED BY <2>3, <4>3, <4>4
    <3> QED BY <3>1
  <2>5. \A i, j \in 1..Len(chain'[t]) : i < j => rank[chain'[t][j]] < rank[chain'[t][i]]
    <3>1. ASSUME NEW i \in 1..Len(chain'[t]), NEW j \in 1..Len(chain'[t]), i < j
          PROVE  rank[chain'[t][j]] < rank[chain'[t][i]]
      <4>1. CASE j = Len(chain[t]) + 1
        BY <2>3, <2>4, <3>1, <4>1
      <4>2. CASE j # Len(chain[t]) + 1
        <5>1. i \in 1..Len(chain[t]) /\ j \in 1..Len(chain[t])
          BY <2>3, <3>1, <4>2
        <5> QED BY <2>3, <3>1, <5>1 DEF RankInv
      <4> QED BY <4>1, <4>2
    <3> QED BY <3>1
  <2>6. \A u \in Threads \ {t} :
          /\ \A i, j \in 1..Len(chain'[u]) : i < j => rank[chain'[u][j]] < rank[chain'[u][i]]
          /\ pc'[u] # "body" /\ chain'[u] # <<>> => rank[cls'[u]] < rank[Running(u)']
    BY <2>2 DEF RankInv, Running
  <2> QED BY <2>2, <2>5, <2>6 DEF RankInv
<1>5. ASSUME NEW t \in Threads, Commit(t) \/ Throw(t) PROVE RankInv(rank)'
  <2>1. chain[t] \in Seq(Classes) /\ chain[t] # <<>> /\ pc[t] = "body"
    BY <1>0, <1>5 DEF TypeOK, Commit, Throw
  <2>2. /\ chain'[t] = SubSeq(chain[t], 1, Len(chain[t]) - 1) /\ UNCHANGED <<pc, cls, todo>>
        /\ \A u \in Threads \ {t} : chain'[u] = chain[u]
    BY <1>0, <1>5 DEF Commit, Throw, Unwind, TypeOK
  <2>3. /\ Len(chain[t]) \in Nat /\ Len(chain'[t]) = Len(chain[t]) - 1
        /\ \A i \in 1..(Len(chain[t]) - 1) : chain'[t][i] = chain[t][i]
    BY <2>1, <2>2, PopChain
  <2>4. \A i, j \in 1..Len(chain'[t]) : i < j => rank[chain'[t][j]] < rank[chain'[t][i]]
    <3>1. ASSUME NEW i \in 1..Len(chain'[t]), NEW j \in 1..Len(chain'[t]), i < j
          PROVE  rank[chain'[t][j]] < rank[chain'[t][i]]
      <4>1. i \in 1..(Len(chain[t]) - 1) /\ j \in 1..(Len(chain[t]) - 1)
        BY <2>3
      <4>2. chain'[t][i] = chain[t][i] /\ chain'[t][j] = chain[t][j]
        BY <2>3, <4>1
      <4>3. rank[chain[t][j]] < rank[chain[t][i]]
        BY <2>3, <3>1, <4>1 DEF RankInv
      <4> QED BY <4>2, <4>3
    <3> QED BY <3>1
  <2>5. \A u \in Threads \ {t} :
          /\ \A i, j \in 1..Len(chain'[u]) : i < j => rank[chain'[u][j]] < rank[chain'[u][i]]
          /\ pc'[u] # "body" /\ chain'[u] # <<>> => rank[cls'[u]] < rank[Running(u)']
    BY <2>2 DEF RankInv, Running
  <2> QED BY <2>1, <2>2, <2>4, <2>5 DEF RankInv
<1>6. CASE UNCHANGED vars
  BY <1>6 DEF vars, RankInv, Running
<1> QED BY <1>1, <1>2, <1>3, <1>4, <1>5, <1>6 DEF Next, Step

\* Threads deadlock on static constructors only where the cctors of a program
\* use each other in a cycle, or where one of them threw.
THEOREM DeadlockFreedom ==
  ASSUME NEW rank, Ranks(rank), Threads # {}
  PROVE  Spec => []SomeoneRuns
<1>1. Init => RankInv(rank)
  <2>1. ASSUME Init PROVE RankInv(rank)
    <3>1. todo = Uses /\ \A t \in Threads : chain[t] = <<>>
      BY <2>1 DEF Init
    <3> QED BY <3>1, EmptySeq DEF RankInv
  <2> QED BY <2>1
<1>2. IInv /\ RankInv(rank) /\ [Next]_vars => RankInv(rank)'
  BY RankStep
<1>3. IInv /\ RankInv(rank) => SomeoneRuns
  BY SomeoneRunsFromRank
<1> QED BY <1>1, <1>2, <1>3, Invariance, PTL DEF Spec
=============================================================================
