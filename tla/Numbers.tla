------------------------------- MODULE Numbers -------------------------------
(***************************************************************************)
(* The arithmetic of il2cpp.h that must notice an overflow: the tests of   *)
(* IL2CPP_CHECK_*_OVERFLOW*, used when the compiler has no builtin for     *)
(* them, the additions that wrap, and il2cpp_ConvOverflow.                 *)
(*                                                                         *)
(* A two's complement type is named by its largest signed number m: its    *)
(* signed values are -m-1..m and its unsigned values 0..2m+1, so that one  *)
(* operator stands for the 32 and the 64 bit form of a macro.              *)
(*                                                                         *)
(* A real is a multiple of one half, kept as the number of halves, or not  *)
(* a number; a type of reals is the number of bits of its mantissa.        *)
(***************************************************************************)
EXTENDS Integers

CONSTANTS SignedMax,  \* the m of the integers that are added and multiplied
          Narrow,     \* the m of the targets of conversions: int8_t ... int64_t
          Sources,    \* the m of the integers that are converted: int32_t, int64_t
          Mantissas,  \* bits of the mantissas of float and double
          Halves      \* bound: the halves considered lie in -Halves..Halves

\* the sign and at least one bit more
ASSUME MaxAssumption == SignedMax \in Nat \ {0}

\* a wider type has at least one bit more
ASSUME WidthAssumption ==
  /\ Narrow \subseteq Nat /\ Sources \subseteq Nat
  /\ \A t \in Narrow, s \in Sources : s < t => 2 * s + 1 <= t

Power[n \in Nat] == IF n = 0 THEN 1 ELSE 2 * Power[n - 1]

\* the numbers of a type are a power of two; a mantissa has two bits or more
ASSUME RealAssumption ==
  /\ \A m \in Narrow : \E k \in 0..m : m + 1 = Power[k]
  /\ Mantissas \subseteq Nat \ {0, 1} /\ Halves \in Nat

VARIABLES call,       \* the call of the generated code
          answer      \* what it got: nothing yet, a value, or the exception

numbersVars == <<call, answer>>

Signed(m) == (-m - 1)..m
Unsigned(m) == 0..(2 * m + 1)
Values(m, signed) == IF signed THEN Signed(m) ELSE Unsigned(m)
Modulus(m) == 2 * m + 2

\* static_cast between the signed and the unsigned type of one width
ToUnsigned(m, x) == IF x < 0 THEN x + Modulus(m) ELSE x
ToSigned(m, x) == IF x > m THEN x - Modulus(m) ELSE x
As(m, signed, x) == IF signed THEN ToSigned(m, x) ELSE x

\* an unsigned sum or difference, which wraps
WrapSum(m, x) == IF x > 2 * m + 1 THEN x - Modulus(m) ELSE x

SafeAdd(m, signed, a, b) ==
  As(m, signed, WrapSum(m, ToUnsigned(m, a) + ToUnsigned(m, b)))
SafeSub(m, signed, a, b) ==
  As(m, signed, ToUnsigned(m, ToUnsigned(m, a) - ToUnsigned(m, b)))

CheckAddLoose(m, a, b) == IF b >= 0 THEN m - b <= a ELSE (-m - 1) - b > a
CheckAdd(m, a, b) == IF b >= 0 THEN m - b < a ELSE (-m - 1) - b > a
CheckSub(m, a, b) == IF b < 0 THEN m + b < a ELSE (-m - 1) + b > a
CheckAddUn(m, a, b) == (2 * m + 1) - b < a
CheckSubUn(m, a, b) == a < b

\* the division of C, which rounds towards zero
Quotient(a, b) ==
  LET q == (IF a < 0 THEN -a ELSE a) \div (IF b < 0 THEN -b ELSE b)
  IN  IF (a < 0) = (b < 0) THEN q ELSE -q

CheckMul(m, a, b) ==
  \/ a = -m /\ a < 0 /\ b = -1
  \/ a > 0 /\ b > 0  /\ a > Quotient(m, b)
  \/ a > 0 /\ b < -1 /\ a > Quotient(-m - 1, b)
  \/ a < 0 /\ b > 0  /\ a < Quotient(-m - 1, b)
  \/ a < 0 /\ b < -1 /\ a < Quotient(m, b)
CheckMulUnStrict(m, a, b) == a # 0 /\ b # 0 /\ b >= Quotient(2 * m + 1, a)
CheckMulUn(m, a, b) == a # 0 /\ b # 0 /\ b > Quotient(2 * m + 1, a)

\* `result = lhs * rhs'; the signed product is undefined where it overflows,
\* and wraps in the builds we know
Product(m, signed, a, b) == As(m, signed, (a * b) % Modulus(m))

None == [kind |-> "none"]
Value(x) == [kind |-> "value", value |-> x]
Throws == [kind |-> "throws"]

ThrowsIf(test, x) == IF test THEN Throws ELSE Value(x)

AddOverflow(m, signed, a, b) ==
  ThrowsIf(IF signed THEN CheckAdd(m, a, b) ELSE CheckAddUn(m, a, b),
           SafeAdd(m, signed, a, b))
SubOverflow(m, signed, a, b) ==
  ThrowsIf(IF signed THEN CheckSub(m, a, b) ELSE CheckSubUn(m, a, b),
           SafeSub(m, signed, a, b))
MulOverflow(m, signed, a, b) ==
  ThrowsIf(IF signed THEN CheckMul(m, a, b) ELSE CheckMulUn(m, a, b),
           Product(m, signed, a, b))
-----------------------------------------------------------------------------
(* Conversions of integers: t is the type of the target, s that of the     *)
(* source x.                                                               *)

IntType(m, signed) == [m |-> m, signed |-> signed]
Lowest(t) == IF t.signed THEN -t.m - 1 ELSE 0
Largest(t) == IF t.signed THEN t.m ELSE 2 * t.m + 1
InType(t) == Lowest(t)..Largest(t)

\* static_cast to the type of two of one width, unsigned when either is
Common(t, s, x) == IF t.signed /\ s.signed THEN x ELSE ToUnsigned(s.m, x)

ConvRefusedUnsigned(t, s, x) ==
  IF t.m < s.m THEN x > Largest(t) \/ (s.signed /\ x < Lowest(t)) ELSE ~t.signed /\ x < 0
ConvRefused(t, s, x) ==
  IF t.m < s.m
  THEN \/ x >= Largest(t) + 1
       \/ s.signed /\ x <= Lowest(t) - 1
  ELSE \/ t.m = s.m /\ Common(t, s, x) > Common(t, s, Largest(t))
       \/ ~t.signed /\ x < 0

ConvInt(t, s, x) == ThrowsIf(ConvRefused(t, s, x), x)
-----------------------------------------------------------------------------
(* Conversions of reals.                                                   *)

Magnitude(h) == IF h < 0 THEN -h ELSE h

\* the weight of the last bit of the mantissa for a real of h halves
Ulp(bits, h) ==
  LET fits(e) == Magnitude(h) <= Power[bits + e]
  IN  Power[CHOOSE e \in 0..Magnitude(h) : fits(e) /\ \A f \in 0..(e - 1) : ~fits(f)]

\* the nearest real of the type, the even one of two
Round(bits, h) ==
  LET u == Ulp(bits, h)
      below == (h \div u) * u
      rest == h - below
  IN  IF \/ 2 * rest < u
         \/ 2 * rest = u /\ (h \div u) % 2 = 0
      THEN below ELSE below + u

Reals(bits) == {h \in -Halves..Halves : Round(bits, h) = h}
Truncate(h) == IF h < 0 THEN -((-h) \div 2) ELSE h \div 2

\* max() + 1 and lowest() - 1 in the type of the source
AboveMax(t, bits) == Round(bits, Round(bits, 2 * Largest(t)) + 2)
BelowLowest(t, bits) == Round(bits, Round(bits, 2 * Lowest(t)) - 2)

RealRefusedLoose(t, bits, h) == h > AboveMax(t, bits) \/ h <= BelowLowest(t, bits)
RealRefused(t, bits, h) == h >= AboveMax(t, bits) \/ h <= BelowLowest(t, bits)
-----------------------------------------------------------------------------
IntTypes == {IntType(m, signed) : m \in Narrow, signed \in BOOLEAN}

Binary == [op : {"add", "sub", "mul"}, signed : {TRUE}, a : Signed(SignedMax), b : Signed(SignedMax)]
          \cup [op : {"add", "sub", "mul"}, signed : {FALSE}, a : Unsigned(SignedMax), b : Unsigned(SignedMax)]
IntConversions ==
  UNION {[op : {"conv"}, to : IntTypes, from : {s}, x : InType(s)] :
         s \in {IntType(m, signed) : m \in Sources, signed \in BOOLEAN}}
RealConversions ==
  (UNION {[op : {"convReal"}, to : IntTypes, bits : {p}, nan : {FALSE}, h : Reals(p)] : p \in Mantissas})
  \cup [op : {"convReal"}, to : IntTypes, bits : Mantissas, nan : {TRUE}, h : {0}]

Calls == Binary \cup IntConversions \cup RealConversions

NumbersInit == call \in Calls /\ answer = None

Add == call.op = "add" /\ answer' = AddOverflow(SignedMax, call.signed, call.a, call.b)
Sub == call.op = "sub" /\ answer' = SubOverflow(SignedMax, call.signed, call.a, call.b)
Mul == call.op = "mul" /\ answer' = MulOverflow(SignedMax, call.signed, call.a, call.b)

ConvIntegers == call.op = "conv" /\ answer' = ConvInt(call.to, call.from, call.x)

\* every comparison with a NaN is false, and its conversion is undefined
ConvReals ==
  /\ call.op = "convReal"
  /\ IF call.nan THEN \E x \in InType(call.to) : answer' = Value(x)
     ELSE answer' = ThrowsIf(RealRefused(call.to, call.bits, call.h), Truncate(call.h))

NumbersNext ==
  /\ answer = None
  /\ UNCHANGED call
  /\ Add \/ Sub \/ Mul \/ ConvIntegers \/ ConvReals

NumbersSpec == NumbersInit /\ [][NumbersNext]_numbersVars
-----------------------------------------------------------------------------
Exact(x, range) == IF x \in range THEN Value(x) ELSE Throws
Ready == answer # None

\* add.ovf and sub.ovf, signed or not, give the mathematical result where the
\* type has it and throw where it has not.
SumExact ==
  Ready =>
    LET range == Values(SignedMax, call.signed)
    IN  /\ call.op = "add" => answer = Exact(call.a + call.b, range)
        /\ call.op = "sub" => answer = Exact(call.a - call.b, range)

\* mul.ovf does, except for two products with -1: that of -m, which fits and
\* is refused, and that of -m-1, which does not and comes back as itself.
MulExact ==
  Ready /\ call.op = "mul" =>
    answer =
      CASE call.signed /\ call.b = -1 /\ call.a = -SignedMax -> Throws
        [] call.signed /\ call.b = -1 /\ call.a = -SignedMax - 1 -> Value(call.a)
        [] OTHER -> Exact(call.a * call.b, Values(SignedMax, call.signed))

\* A conversion of integers keeps the number or throws.
ConvIntExact == Ready /\ call.op = "conv" => answer = Exact(call.x, InType(call.to))

\* A conversion of a real gives the number without its fraction where the
\* target has it and throws where it has not, except that the smallest number
\* of the target is refused when the mantissa is too short for the one below
\* it, and that NaN is let through.
ConvRealExact ==
  Ready /\ call.op = "convReal" =>
    CASE call.nan -> answer \in {Value(x) : x \in InType(call.to)}
      [] ~call.nan /\ call.to.signed /\ call.to.m + 1 >= Power[call.bits] /\ call.h = 2 * Lowest(call.to) -> answer = Throws
      [] OTHER -> answer = Exact(Truncate(call.h), InType(call.to))
=============================================================================
