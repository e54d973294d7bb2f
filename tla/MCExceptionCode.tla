--------------------------- MODULE MCExceptionCode --------------------------
(* Method bodies for TLC, shaped like those of the tests (TestException in *)
(* CodeGenTests.cs) and, at the end, like one the tests do not have.       *)
EXTENDS ExceptionCode
CONSTANTS E1, E2, E3, E4

op(name) == [op |-> name, to |-> 0, throws |-> {}, keeps |-> {}]
call(throws) == [op("work") EXCEPT !.throws = throws]
calm == call({})
isinst(keeps) == [op("isinst") EXCEPT !.keeps = keeps]
leave(to) == [op("leave") EXCEPT !.to = to]
endfinally == op("endfinally")

\* The try block is [a, b), the handler [b or start, end).
Block(kind, a, b, start, end, catches) ==
  [kind |-> kind, tryStart |-> a, tryEnd |-> b, filterStart |-> start, start |-> start,
   end |-> end, catches |-> catches]
catch(a, b, start, end, catches) == Block("catch", a, b, start, end, catches)
finally(a, b, end) == Block("finally", a, b, b, end, {})
fault(a, b, end) == Block("fault", a, b, b, end, {})
filter(a, b, filterStart, start, end) ==
  [Block("filter", a, b, start, end, {}) EXCEPT !.filterStart = filterStart]

\* Test1, Test4 and DoIt: try-catch-finally whose catch block may throw.
TryCatchFinally ==
  [code |-> << call({E1, E2}), leave(7), call({E3}), leave(7), calm, endfinally, op("ret") >>,
   clauses |-> << catch(1, 3, 3, 5, {E1}), finally(1, 5, 7) >>]

\* Test3: a filter rethrows into the catch block around it.
FilterRethrow ==
  [code |-> << call({E1}), leave(9), isinst({E1}), op("endfilter"), calm, op("rethrow"),
               calm, leave(9), op("ret") >>,
   clauses |-> << filter(1, 3, 3, 5, 7), catch(1, 7, 7, 9, Exceptions) >>]

\* ExceptionFunc: the leaves of its inner blocks go to target, or step by step.
ExceptionFunc(throws, first, second) ==
  [code |-> << call(throws), leave(first), calm, leave(first),
               leave(second), calm, endfinally,           \* Finally1 at 6
               leave(11), calm, endfinally,               \* Finally2 at 9
               leave(24), calm, leave(24),                \* catch Except2 at 12
               isinst({E3}), op("endfilter"), calm, leave(24),
               isinst({E3}), op("endfilter"), calm, leave(24),
               calm, leave(24),                           \* catch at 22
               leave(27), calm, endfinally,               \* Finally3 at 25
               op("ret") >>,
   clauses |-> << catch(1, 3, 3, 5, {E1}), finally(1, 6, 8), finally(1, 9, 11),
                  catch(1, 12, 12, 14, {E2}), filter(1, 12, 14, 16, 18),
                  filter(1, 12, 18, 20, 22), catch(1, 12, 22, 24, Exceptions),
                  finally(1, 25, 27) >>]

\* The catch block leaves back to the try block; a finally block around both.
Retry ==
  [code |-> << call({E1, E2}), leave(5), calm, leave(1), leave(8), calm, endfinally, op("ret") >>,
   clauses |-> << catch(1, 3, 3, 5, {E1}), finally(1, 6, 8) >>]

\* A try-catch in a catch block, and a fault block around everything.
CatchInCatch ==
  [code |-> << call({E1}), leave(9), calm, call({E2, E3}), leave(8), calm, leave(8), leave(9),
               leave(12), calm, endfinally, op("ret") >>,
   clauses |-> << catch(4, 6, 6, 8, {E2}), catch(1, 3, 3, 9, {E1}), fault(1, 10, 12) >>]

Tested == { TryCatchFinally, FilterRethrow, ExceptionFunc({E1, E2, E3}, 5, 8), Retry, CatchInCatch }

\* return inside two nested try-finally blocks.
NestedReturn ==
  [code |-> << call({E1}), leave(7), calm, endfinally, calm, endfinally, op("ret") >>,
   clauses |-> << finally(1, 3, 5), finally(1, 5, 7) >>]

OnlyNestedReturn == { NestedReturn }
=============================================================================
