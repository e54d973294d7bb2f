---------------------------- MODULE IlExceptions ----------------------------
(***************************************************************************)
(* What the exception instructions of IL mean: a leave runs the finally    *)
(* handlers it crosses from the inside out, an exception is offered to the *)
(* clauses around it from the inside out, a handler that ends hands its    *)
(* exception or its leave on.  The search for a handler and the running of *)
(* finally handlers are one pass, as in C++, where the CLI makes two.      *)
(***************************************************************************)
EXTENDS IlMethod

VARIABLES
  met,      \* the method
  at,       \* offset of the next instruction
  ended,    \* "running", "returned" or "escaped"
  raised,   \* the exception that escaped
  active    \* the handlers being run, outermost first: [clause, why, val]
ilVars == <<met, at, ended, raised, active>>

IlInit ==
  /\ met \in Methods
  /\ at = 1
  /\ ended = "running"
  /\ raised = Null
  /\ active = <<>>

Top == active[Len(active)]
Clause(i) == met.clauses[i]
First(S) == CHOOSE i \in S : \A j \in S : i <= j

\* The handlers still active when control goes to offset o.
Remaining(o) == SelectSeq(active, LAMBDA a : HandlerHolds(Clause(a.clause), o))

GoTo(o) ==
  /\ at' = o
  /\ active' = Remaining(o)
  /\ UNCHANGED <<met, ended, raised>>

Enter(i, why, val) ==
  /\ at' = Entry(Clause(i))
  /\ active' = Append(Remaining(Clause(i).tryStart), [clause |-> i, why |-> why, val |-> val])
  /\ UNCHANGED <<met, ended, raised>>

Accepts(c, ex) == c.kind = "catch" => ex \in c.catches

\* Offer ex to the clauses candidates; without a taker it leaves the method.
Offer(ex, candidates) ==
  LET takers == {i \in candidates : Accepts(Clause(i), ex)} IN
  IF takers # {} THEN Enter(First(takers), "throw", ex)
  ELSE /\ ended' = "escaped"
       /\ raised' = ex
       /\ active' = <<>>
       /\ UNCHANGED <<met, at>>

ThrowHere(ex) == Offer(ex, {i \in DOMAIN met.clauses : Protects(Clause(i), at)})

\* Clause i declined ex or has run its finally or fault handler for it.
PassOn(ex, i) ==
  Offer(ex, {j \in DOMAIN met.clauses :
               /\ j > i
               /\ Protects(Clause(j), Clause(i).tryStart)
               /\ Clause(i).tryEnd <= Clause(j).tryEnd})

LeaveTo(target) ==
  LET crossed == {i \in DOMAIN met.clauses :
                    /\ Clause(i).kind = "finally"
                    /\ Protects(Clause(i), at)
                    /\ ~Protects(Clause(i), target)} IN
  IF crossed # {} THEN Enter(First(crossed), "leave", target) ELSE GoTo(target)

IlStep(outcome) ==
  LET instr == Instr(met, at) IN
  /\ ended = "running"
  /\ \/ /\ instr.op \in {"work", "isinst", "load"}
        /\ IF outcome = "ok" THEN GoTo(at + 1) ELSE ThrowHere(outcome)
     \/ instr.op = "leave" /\ LeaveTo(instr.to)
     \/ instr.op = "rethrow" /\ ThrowHere(Top.val)
     \/ /\ instr.op = "endfinally"
        /\ IF Top.why = "leave" THEN LeaveTo(Top.val) ELSE PassOn(Top.val, Top.clause)
     \/ /\ instr.op = "endfilter"
        /\ IF outcome = "yes" THEN GoTo(at + 1) ELSE PassOn(Top.val, Top.clause)
     \/ /\ instr.op = "ret"
        /\ ended' = "returned"
        /\ UNCHANGED <<met, at, raised, active>>
=============================================================================
