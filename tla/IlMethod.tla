------------------------------ MODULE IlMethod ------------------------------
(***************************************************************************)
(* The part of an IL method body that exception handling depends on: its   *)
(* instructions, numbered from 1, and its exception clauses in metadata    *)
(* order (inner before outer, clauses of one try block in search order).   *)
(***************************************************************************)
EXTENDS Naturals, Sequences, FiniteSets

CONSTANTS
  Methods,      \* method bodies: records [code, clauses]
  Exceptions,   \* exception objects; a catch clause lists those it accepts
  Null,         \* the null reference
  Other         \* any object that is not an exception being handled

(* An instruction is [op, to, throws, keeps]:                              *)
(*   "work"      may throw one of throws                                   *)
(*   "isinst"    keeps the object of stack slot 0 if it is in keeps, else  *)
(*               leaves null there                                         *)
(*   "load"      leaves another object in stack slot 0                     *)
(*   "leave"     to the offset to                                          *)
(*   "rethrow", "endfinally", "endfilter", "ret"                           *)
Instr(m, o) == m.code[o]

(* A clause is [kind, tryStart, tryEnd, filterStart, start, end, catches]; *)
(* ranges are half-open and filterStart is start but for filters.          *)
Within(o, first, last) == first <= o /\ o < last
Protects(c, o) == Within(o, c.tryStart, c.tryEnd)
HandlerHolds(c, o) == Within(o, c.filterStart, c.end)
Entry(c) == c.filterStart               \* HandlerOrFilterStart
Clauses(m) == {m.clauses[i] : i \in DOMAIN m.clauses}

\* What an instruction can do beside going on: throw, or answer a filter.
Outcomes(instr) ==
  CASE instr.op = "work"      -> {"ok"} \cup instr.throws
    [] instr.op = "endfilter" -> {"yes", "no"}
    [] OTHER                  -> {"ok"}
=============================================================================
