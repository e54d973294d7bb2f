---------------------------- MODULE ExceptionCode ---------------------------
(***************************************************************************)
(* The C++ that MethodGenerator emits for exception handling, executed.    *)
(* A step is an IL instruction with the code GenExHandlerStart and         *)
(* GenExHandlerEnd print around it.  A method has one lastException and    *)
(* one leaveTarget for all its handlers, and the object a catch tests is   *)
(* in the C++ variable of stack slot 0, tmp_0.                             *)
(***************************************************************************)
EXTENDS IlExceptions, SequencesExt

VARIABLES
  pc,             \* offset of the instruction to execute
  status,         \* "running", "returned", "escaped", "trap" or "crash"
  thrown,         \* the exception that left the method
  lastException,
  leaveTarget,    \* the offset leaveTarget stands for, 0 before any leave
  tmp0            \* the object variable of stack slot 0
cppVars == <<pc, status, thrown, lastException, leaveTarget, tmp0>>
vars == <<ilVars, cppVars>>

-----------------------------------------------------------------------------
(* The translation of the clauses (BuildInstructions).                     *)

\* By start of the try block, then the longer block first, then declaration.
Precedes(m, i, j) ==
  LET c == m.clauses[i]
      d == m.clauses[j]
  IN \/ c.tryStart < d.tryStart
     \/ c.tryStart = d.tryStart /\ c.tryEnd > d.tryEnd
     \/ c.tryStart = d.tryStart /\ c.tryEnd = d.tryEnd /\ i < j

NeedCombine(c, d) ==
  /\ c.tryStart = d.tryStart
  /\ c.tryEnd = d.tryEnd
  /\ {c.kind, d.kind} \subseteq {"catch", "filter"}

\* Mutant: the clauses as they come, neither sorted nor combined.
RawHandlerList(m) == [i \in DOMAIN m.clauses |-> <<m.clauses[i]>>]

\* ExHandlerList: a sequence of combined handlers, themselves sequences of
\* clauses whose first one is the head.
HandlerList(m) ==
  LET sorted == SortSeq([i \in DOMAIN m.clauses |-> i], LAMBDA i, j : Precedes(m, i, j))
      Add(groups, i) ==
        LET c == m.clauses[i] IN
        IF groups # <<>> /\ NeedCombine(Head(Last(groups)), c)
        THEN Front(groups) \o <<Append(Last(groups), c)>>
        ELSE Append(groups, <<c>>)
  IN FoldLeft(Add, <<>>, sorted)

Handlers == HandlerList(met)
Heads == [i \in DOMAIN Handlers |-> Head(Handlers[i])]

\* Mutant: the handlers that hold the target instead of those that do not.
LeaveInto(offset, target) ==
  SelectSeq(Heads, LAMBDA h :
    h.kind = "finally" /\ Protects(h, offset) /\ Protects(h, target))

\* GetLeaveThroughHandlers, in list order.
LeaveThrough(offset, target) ==
  SelectSeq(Heads, LAMBDA h :
    h.kind = "finally" /\ Protects(h, offset) /\ ~Protects(h, target))

LeaveTargets(h) ==
  {Instr(met, o).to : o \in
     {o \in DOMAIN met.code :
        /\ Instr(met, o).op = "leave"
        /\ h \in Range(LeaveThrough(o, Instr(met, o).to))}}

-----------------------------------------------------------------------------
(* The pieces of the generated code.                                       *)

CppInit ==
  /\ pc = 1
  /\ status = "running"
  /\ thrown = Null
  /\ lastException = Null
  /\ leaveTarget = 0
  /\ tmp0 = Null

Goto(o) == pc' = o /\ UNCHANGED <<status, thrown>>
Stop(how) == status' = how /\ UNCHANGED <<pc, thrown>>

\* Mutant: the type of the exception is not tested.
AnyTaker(group, k, obj) == k..Len(group)

\* The handlers of group, from its k-th on, that take the object of tmp_0:
\* a filter is always run, a catch tests the type of the object.
Takers(group, k, obj) ==
  {j \in k..Len(group) : group[j].kind # "catch" \/ obj \in group[j].catches}

\* throw il2cppException(ex) at offset o: the innermost C++ try block around
\* o catches it, sets lastException and tmp_0 and goes to its handlers; when
\* none of them takes it, lastException is thrown again after the last one.
Throw(ex, o) ==
  LET around == {i \in DOMAIN Handlers : Protects(Heads[i], o)}
      taking == {i \in around : Takers(Handlers[i], 1, ex) # {}}
      group == Handlers[Max(taking)]
  IN IF ex = Null /\ around # {} /\ Heads[Max(around)].kind = "catch"
     THEN /\ Stop("crash")                      \* reads the TypeID of null
          /\ UNCHANGED <<lastException, leaveTarget, tmp0>>
     ELSE IF taking # {}
     THEN /\ Goto(Entry(group[Min(Takers(group, 1, ex))]))
          /\ lastException' = ex
          /\ tmp0' = ex
          /\ UNCHANGED leaveTarget
     ELSE /\ status' = "escaped"
          /\ thrown' = ex
          /\ UNCHANGED <<pc, lastException, leaveTarget, tmp0>>

\* The k-th handler of group is a filter that said no: control goes to the
\* next one with whatever object tmp_0 holds by now.
Decline(group, k) ==
  LET takers == Takers(group, k + 1, tmp0) IN
  IF tmp0 = Null /\ k < Len(group) /\ group[k + 1].kind = "catch"
  THEN /\ Stop("crash")
       /\ UNCHANGED <<lastException, leaveTarget, tmp0>>
  ELSE IF takers # {}
  THEN /\ Goto(Entry(group[Min(takers)]))
       /\ UNCHANGED <<lastException, leaveTarget, tmp0>>
  ELSE Throw(lastException, group[k].start)

-----------------------------------------------------------------------------
(* The instructions.                                                       *)

Work(outcome) ==
  /\ Instr(met, pc).op = "work"
  /\ IF outcome = "ok"
     THEN Goto(pc + 1) /\ UNCHANGED <<lastException, leaveTarget, tmp0>>
     ELSE Throw(outcome, pc)

\* GenIsinst, and any instruction whose result is an object in slot 0.
ChangeSlot0 ==
  /\ Instr(met, pc).op \in {"isinst", "load"}
  /\ Goto(pc + 1)
  /\ tmp0' = IF Instr(met, pc).op = "load" THEN Other
             ELSE IF tmp0 \in Instr(met, pc).keeps THEN tmp0 ELSE Null
  /\ UNCHANGED <<lastException, leaveTarget>>

\* GenLeave.
Leave ==
  LET target == Instr(met, pc).to
      through == LeaveThrough(pc, target)
  IN /\ Instr(met, pc).op = "leave"
     /\ lastException' = Null
     /\ IF through # <<>>
        THEN /\ leaveTarget' = target
             /\ Goto(Head(through).start)
        ELSE /\ Goto(target)
             /\ UNCHANGED leaveTarget
     /\ UNCHANGED tmp0

\* The handlers, in list order, whose code for endfinally is printed at o.
Ending(o) == SelectSeq(Heads, LAMBDA h : Within(o, h.start, h.end))

\* Each of them ends in a jump, a throw or a trap: the first one is executed.
Endfinally ==
  LET handler == Head(Ending(pc)) IN
  /\ Instr(met, pc).op = "endfinally"
  /\ IF handler.kind # "finally" \/ lastException # Null
     THEN Throw(lastException, pc)
     ELSE /\ IF leaveTarget \in LeaveTargets(handler) THEN Goto(leaveTarget) ELSE Stop("trap")
          /\ UNCHANGED <<lastException, leaveTarget, tmp0>>

Rethrow ==
  /\ Instr(met, pc).op = "rethrow"
  /\ Throw(lastException, pc)

\* The filter whose handler starts after pc.
Endfilter(outcome) ==
  /\ Instr(met, pc).op = "endfilter"
  /\ IF outcome = "yes"
     THEN tmp0 # Null /\ Goto(pc + 1) /\ UNCHANGED <<lastException, leaveTarget, tmp0>>
     ELSE \E i \in DOMAIN Handlers : \E k \in DOMAIN Handlers[i] :
            /\ Handlers[i][k].kind = "filter"
            /\ Handlers[i][k].start = pc + 1
            /\ Decline(Handlers[i], k)

Ret ==
  /\ Instr(met, pc).op = "ret"
  /\ Stop("returned")
  /\ UNCHANGED <<lastException, leaveTarget, tmp0>>

CppStep(outcome) ==
  /\ status = "running"
  /\ \/ Work(outcome) \/ ChangeSlot0 \/ Leave \/ Endfinally
     \/ Rethrow \/ Endfilter(outcome) \/ Ret

-----------------------------------------------------------------------------
(* The code and the IL it was made from, run side by side.                 *)

Init == IlInit /\ CppInit

Together(outcome) == CppStep(outcome) /\ IlStep(outcome)

Terminated == status # "running" /\ UNCHANGED vars

Next ==
  \/ \E outcome \in Outcomes(Instr(met, pc)) : Together(outcome)
  \/ Terminated

Spec == Init /\ [][Next]_vars

-----------------------------------------------------------------------------
(* Properties.                                                             *)

TypeOK ==
  /\ met \in Methods
  /\ pc \in DOMAIN met.code
  /\ status \in {"running", "returned", "escaped", "trap", "crash"}
  /\ {thrown, lastException} \subseteq Exceptions \cup {Null}
  /\ tmp0 \in Exceptions \cup {Null, Other}
  /\ leaveTarget \in {0} \cup DOMAIN met.code

\* The generated code executes the IL instructions that IL executes, and the
\* same exception, if any, leaves the method.
SameInstruction ==
  /\ status = ended
  /\ status = "running" => pc = at
  /\ thrown = raised

\* A try block with a finally handler is left only by way of the handler.
NoFinallySkipped ==
  [][\A c \in Clauses(met) :
       c.kind = "finally" /\ Protects(c, pc) /\ Instr(met, pc).op # "ret" =>
         \/ Protects(c, pc') /\ status' = "running"
         \/ pc' = c.start]_vars

\* A catch or filter block begins with its exception in the slot it reads.
HandlerSeesException ==
  \A c \in Clauses(met) :
    c.kind \in {"catch", "filter"} /\ status = "running" /\ pc = Entry(c) =>
      tmp0 \in Exceptions /\ tmp0 = lastException /\ (c.kind = "catch" => tmp0 \in c.catches)

=============================================================================
