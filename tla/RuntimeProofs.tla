---------------------------- MODULE RuntimeProofs ----------------------------
(***************************************************************************)
(* Three parts of the runtime that share nothing: the arithmetic that must *)
(* notice an overflow, for every width; what il2cpp_CommitRoots hands to   *)
(* the collector, for every set of variables a program may register; the   *)
(* locks of Monitor, for all sets of threads and of locks.                 *)
(***************************************************************************)
EXTENDS Numbers, Roots, SpinLock, WellFoundedInduction, FiniteSetTheorems, TLAPS

-----------------------------------------------------------------------------
(* Numbers.                                                                *)

\* The test of a signed addition tells whether the sum is in the type, and the
\* wrapped sum is the sum when it is (IL2CPP_CHECK_ADD_OVERFLOW).
LEMMA AddSigned ==
  ASSUME NEW m \in Nat, NEW a \in Signed(m), NEW b \in Signed(m)
  PROVE  AddOverflow(m, TRUE, a, b) = Exact(a + b, Signed(m))
<1>1. CheckAdd(m, a, b) <=> a + b \notin Signed(m)
  BY DEF CheckAdd, Signed
<1>2. a + b \in Signed(m) => SafeAdd(m, TRUE, a, b) = a + b
  BY DEF SafeAdd, Signed, As, ToSigned, WrapSum, ToUnsigned, Modulus
<1>. QED BY <1>1, <1>2 DEF AddOverflow, Exact, ThrowsIf

LEMMA SubSigned ==
  ASSUME NEW m \in Nat, NEW a \in Signed(m), NEW b \in Signed(m)
  PROVE  SubOverflow(m, TRUE, a, b) = Exact(a - b, Signed(m))
<1>1. CheckSub(m, a, b) <=> a - b \notin Signed(m)
  BY DEF CheckSub, Signed
<1>2. a - b \in Signed(m) => SafeSub(m, TRUE, a, b) = a - b
  BY DEF SafeSub, Signed, As, ToSigned, ToUnsigned, Modulus
<1>. QED BY <1>1, <1>2 DEF SubOverflow, Exact, ThrowsIf

LEMMA AddUnsigned ==
  ASSUME NEW m \in Nat, NEW a \in Unsigned(m), NEW b \in Unsigned(m)
  PROVE  AddOverflow(m, FALSE, a, b) = Exact(a + b, Unsigned(m))
<1>1. CheckAddUn(m, a, b) <=> a + b \notin Unsigned(m)
  BY DEF CheckAddUn, Unsigned
<1>2. a + b \in Unsigned(m) => SafeAdd(m, FALSE, a, b) = a + b
  BY DEF SafeAdd, Unsigned, As, WrapSum, ToUnsigned, Modulus
<1>. QED BY <1>1, <1>2 DEF AddOverflow, Exact, ThrowsIf

LEMMA SubUnsigned ==
  ASSUME NEW m \in Nat, NEW a \in Unsigned(m), NEW b \in Unsigned(m)
  PROVE  SubOverflow(m, FALSE, a, b) = Exact(a - b, Unsigned(m))
<1>1. CheckSubUn(m, a, b) <=> a - b \notin Unsigned(m)
  BY DEF CheckSubUn, Unsigned
<1>2. a - b \in Unsigned(m) => SafeSub(m, FALSE, a, b) = a - b
  BY DEF SafeSub, Unsigned, As, ToUnsigned, Modulus
<1>. QED BY <1>1, <1>2 DEF SubOverflow, Exact, ThrowsIf

\* What a division with a remainder is.
LEMMA DivFacts ==
  ASSUME NEW n \in Nat, NEW d \in Nat, d > 0
  PROVE  n \div d \in Nat /\ (n \div d) * d <= n /\ n < (n \div d) * d + d
OBVIOUS

LEMMA Monotone ==
  ASSUME NEW x \in Int, NEW y \in Int, NEW d \in Nat, x <= y
  PROVE  x * d \in Int /\ y * d \in Int /\ x * d <= y * d
OBVIOUS

\* A number is larger than a quotient when its product is larger than what was divided.
LEMMA AboveQuotient ==
  ASSUME NEW x \in Int, NEW n \in Nat, NEW d \in Nat, d > 0
  PROVE  x > n \div d <=> x * d > n
<1>1. PICK q \in Nat : q = n \div d
  BY DivFacts
<1>2. q * d <= n /\ n < q * d + d /\ q * d \in Int /\ x * d \in Int
  BY <1>1, DivFacts
<1>3. CASE x <= q
  <2>1. x * d <= q * d
    BY <1>3, Monotone
  <2>. QED BY <2>1, <1>1, <1>2, <1>3
<1>4. CASE x >= q + 1
  <2>1. (q + 1) * d <= x * d
    BY <1>4, Monotone
  <2>2. (q + 1) * d = q * d + d
    OBVIOUS
  <2>. QED BY <2>1, <2>2, <1>1, <1>2, <1>4
<1>. QED BY <1>3, <1>4

\* The remainder of what is in the type, as the processor wraps it.
LEMMA Wraps ==
  ASSUME NEW M \in Nat, NEW p \in Int, -M <= p, p < M
  PROVE  p % M = IF p < 0 THEN p + M ELSE p
<1>1. CASE p >= 0
  BY <1>1
<1>2. CASE p < 0
  BY <1>2
<1>. QED BY <1>1, <1>2

\* The test of a multiplication is right but for the factor -1.
LEMMA MulSigned ==
  ASSUME NEW m \in Nat, NEW a \in Signed(m), NEW b \in Signed(m), m # 0
  PROVE  MulOverflow(m, TRUE, a, b) =
           IF b = -1 /\ a = -m THEN Throws
           ELSE IF b = -1 /\ a = -m - 1 THEN Value(a)
           ELSE Exact(a * b, Signed(m))
<1>0. a \in Int /\ b \in Int /\ -m - 1 <= a /\ a <= m /\ -m - 1 <= b /\ b <= m
  BY DEF Signed
<1>1. PICK p \in Int : p = a * b
  BY <1>0
<1>2. a = 0 \/ b = 0 => p = 0
  BY <1>0, <1>1
<1>6. Modulus(m) \in Nat /\ Modulus(m) = 2 * m + 2
  BY DEF Modulus
<1>7. Exact(a * b, Signed(m)) = IF p \in Signed(m) THEN Value(p) ELSE Throws
  BY <1>1 DEF Exact
<1>3. CASE a = 0 \/ b = 0
  <2>1. ~CheckMul(m, a, b)
    BY <1>3 DEF CheckMul
  <2>2. Product(m, TRUE, a, b) = 0
    <3>1. a * b = 0
      BY <1>3, <1>0
    <3>2. 0 % Modulus(m) = 0
      BY DEF Modulus
    <3>. QED BY <3>1, <3>2 DEF Product, As, ToSigned
  <2>3. ~(b = -1 /\ a = -m) /\ ~(b = -1 /\ a = -m - 1)
    BY <1>0, <1>3
  <2>4. Exact(a * b, Signed(m)) = Value(0)
    BY <1>1, <1>2, <1>3 DEF Exact, Signed
  <2>. QED BY <2>1, <2>2, <2>3, <2>4 DEF MulOverflow, ThrowsIf
<1>4. CASE a # 0 /\ b = -1
  <2>1. CheckMul(m, a, b) <=> a = -m
    <3>1. CASE a > 0
      BY <1>0, <1>4, <3>1 DEF CheckMul
    <3>2. CASE a < 0
      BY <1>0, <1>4, <3>2 DEF CheckMul
    <3>. QED BY <1>0, <1>4, <3>1, <3>2
  <2>2. p = -a
    BY <1>0, <1>1, <1>4
  <2>3. Product(m, TRUE, a, b) = IF a = -m - 1 THEN a ELSE p
    <3>1. p % Modulus(m) = IF p < 0 THEN p + Modulus(m) ELSE p
      <4>1. -Modulus(m) <= p /\ p < Modulus(m)
        BY <1>0, <1>6, <2>2
      <4>. QED BY <4>1, <1>6, Wraps
    <3>. QED BY <3>1, <1>0, <1>1, <2>2 DEF Product, As, ToSigned, Modulus
  <2>4. a # -m - 1 => p \in Signed(m)
    BY <1>0, <1>4, <2>2 DEF Signed
  <2>5. -m # -m - 1
    BY <1>0
  <2>. QED BY <2>1, <2>3, <2>4, <2>5, <1>4, <1>7 DEF MulOverflow, ThrowsIf
<1>5. CASE a # 0 /\ b # 0 /\ b # -1
  <2>1. CheckMul(m, a, b) <=> p \notin Signed(m)
    <3>1. CASE a > 0 /\ b > 0
      <4>1. CheckMul(m, a, b) <=> a > m \div b
        BY <1>0, <3>1 DEF CheckMul, Quotient
      <4>2. a > m \div b <=> p > m
        BY <1>0, <1>1, <3>1, AboveQuotient
      <4>3. p >= 0
        BY <1>0, <1>1, <3>1
      <4>. QED BY <4>1, <4>2, <4>3 DEF Signed
    <3>2. CASE a > 0 /\ b < -1
      <4>1. CheckMul(m, a, b) <=> a > (m + 1) \div (-b)
        <5>1. Quotient(-m - 1, b) = (m + 1) \div (-b)
          BY <1>0, <3>2 DEF Quotient
        <5>. QED BY <5>1, <1>0, <3>2 DEF CheckMul
      <4>2. a > (m + 1) \div (-b) <=> a * (-b) > m + 1
        BY <1>0, <3>2, AboveQuotient
      <4>3. a * (-b) = -p /\ p <= 0
        BY <1>0, <1>1, <3>2
      <4>. QED BY <4>1, <4>2, <4>3 DEF Signed
    <3>3. CASE a < 0 /\ b > 0
      <4>1. CheckMul(m, a, b) <=> -a > (m + 1) \div b
        <5>1. Quotient(-m - 1, b) = -((m + 1) \div b) /\ (m + 1) \div b \in Nat
          BY <1>0, <3>3, DivFacts DEF Quotient
        <5>. QED BY <5>1, <1>0, <3>3 DEF CheckMul
      <4>2. -a > (m + 1) \div b <=> (-a) * b > m + 1
        BY <1>0, <3>3, AboveQuotient
      <4>3. (-a) * b = -p /\ p <= 0
        BY <1>0, <1>1, <3>3
      <4>. QED BY <4>1, <4>2, <4>3 DEF Signed
    <3>4. CASE a < 0 /\ b < -1
      <4>1. CheckMul(m, a, b) <=> -a > m \div (-b)
        <5>1. Quotient(m, b) = -(m \div (-b)) /\ m \div (-b) \in Nat
          BY <1>0, <3>4, DivFacts DEF Quotient
        <5>. QED BY <5>1, <1>0, <3>4 DEF CheckMul
      <4>2. -a > m \div (-b) <=> (-a) * (-b) > m
        BY <1>0, <3>4, AboveQuotient
      <4>3. (-a) * (-b) = p /\ p >= 0
        BY <1>0, <1>1, <3>4
      <4>. QED BY <4>1, <4>2, <4>3 DEF Signed
    <3>. QED BY <1>0, <1>5, <3>1, <3>2, <3>3, <3>4
  <2>2. p \in Signed(m) => Product(m, TRUE, a, b) = p
    <3>. SUFFICES ASSUME p \in Signed(m) PROVE Product(m, TRUE, a, b) = p
      OBVIOUS
    <3>1. p % Modulus(m) = IF p < 0 THEN p + Modulus(m) ELSE p
      <4>1. -Modulus(m) <= p /\ p < Modulus(m)
        BY <1>6 DEF Signed
      <4>. QED BY <4>1, <1>6, Wraps
    <3>. QED BY <3>1, <1>1 DEF Product, As, ToSigned, Modulus, Signed
  <2>. QED BY <2>1, <2>2, <1>1, <1>5 DEF MulOverflow, ThrowsIf, Exact
<1>. QED BY <1>3, <1>4, <1>5

LEMMA MulUnsigned ==
  ASSUME NEW m \in Nat, NEW a \in Unsigned(m), NEW b \in Unsigned(m)
  PROVE  MulOverflow(m, FALSE, a, b) = Exact(a * b, Unsigned(m))
<1>0. a \in Nat /\ b \in Nat /\ 2 * m + 1 \in Nat
  BY DEF Unsigned
<1>1. PICK p \in Nat : p = a * b
  BY <1>0
<1>2. CheckMulUn(m, a, b) <=> p \notin Unsigned(m)
  <2>1. CASE a = 0 \/ b = 0
    <3>1. p = 0
      BY <1>0, <1>1, <2>1
    <3>. QED BY <3>1, <2>1 DEF CheckMulUn, Unsigned
  <2>2. CASE a # 0 /\ b # 0
    <3>1. CheckMulUn(m, a, b) <=> b > (2 * m + 1) \div a
      BY <1>0, <2>2 DEF CheckMulUn, Quotient
    <3>2. b > (2 * m + 1) \div a <=> b * a > 2 * m + 1
      BY <1>0, <2>2, AboveQuotient
    <3>3. b * a = p
      BY <1>0, <1>1
    <3>. QED BY <3>1, <3>2, <3>3 DEF Unsigned
  <2>. QED BY <2>1, <2>2
<1>3. p \in Unsigned(m) => Product(m, FALSE, a, b) = p
  <2>. SUFFICES ASSUME p \in Unsigned(m) PROVE p % Modulus(m) = p
    BY <1>1 DEF Product, As
  <2>. QED BY Wraps DEF Unsigned, Modulus
<1>. QED BY <1>1, <1>2, <1>3 DEF MulOverflow, ThrowsIf, Exact

\* A conversion between integers of any two of the widths refuses what the
\* target has not, and only that (il2cpp_ConvOverflow).
LEMMA ConvExact ==
  ASSUME NEW tm \in Narrow, NEW ts \in BOOLEAN, NEW sm \in Sources, NEW ss \in BOOLEAN,
         NEW x \in InType(IntType(sm, ss))
  PROVE  ConvInt(IntType(tm, ts), IntType(sm, ss), x) = Exact(x, InType(IntType(tm, ts)))
<1>. DEFINE t == IntType(tm, ts)
            s == IntType(sm, ss)
<1>0. /\ tm \in Nat /\ sm \in Nat /\ (sm < tm => 2 * sm + 1 <= tm)
      /\ t.m = tm /\ t.signed = ts /\ s.m = sm /\ s.signed = ss
  BY WidthAssumption DEF IntType
<1>1. x \in Int /\ x >= (IF ss THEN -sm - 1 ELSE 0) /\ x <= (IF ss THEN sm ELSE 2 * sm + 1)
  BY <1>0 DEF InType, Lowest, Largest, IntType
<1>2. x \in InType(t) <=> x >= (IF ts THEN -tm - 1 ELSE 0) /\ x <= (IF ts THEN tm ELSE 2 * tm + 1)
  BY <1>0, <1>1 DEF InType, Lowest, Largest
<1>3. CASE tm < sm
  <2>1. ConvRefused(t, s, x) <=>
          \/ x >= (IF ts THEN tm ELSE 2 * tm + 1) + 1
          \/ ss /\ x <= (IF ts THEN -tm - 1 ELSE 0) - 1
    BY <1>0, <1>3 DEF ConvRefused, Lowest, Largest
  <2>2. ConvRefused(t, s, x) <=> x \notin InType(t)
    BY <2>1, <1>0, <1>1, <1>2
  <2>. QED BY <2>2 DEF ConvInt, ThrowsIf, Exact
<1>4. CASE ~(tm < sm)
  <2>1. ConvRefused(t, s, x) <=>
          \/ tm = sm /\ (IF ts /\ ss THEN x ELSE ToUnsigned(sm, x))
                        > (IF ts /\ ss THEN Largest(t) ELSE ToUnsigned(sm, Largest(t)))
          \/ ~ts /\ x < 0
    BY <1>0, <1>4 DEF ConvRefused, Common
  <2>2. Largest(t) = IF ts THEN tm ELSE 2 * tm + 1
    BY <1>0 DEF Largest
  <2>3. ConvRefused(t, s, x) <=> x \notin InType(t)
    <3>1. CASE tm = sm
      BY <2>1, <2>2, <1>0, <1>1, <1>2, <3>1 DEF ToUnsigned, Modulus
    <3>2. CASE tm # sm
      BY <2>1, <1>0, <1>1, <1>2, <1>4, <3>2
    <3>. QED BY <3>1, <3>2
  <2>. QED BY <2>3 DEF ConvInt, ThrowsIf, Exact
<1>. QED BY <1>3, <1>4

\* The calls that can be made, by operation.
LEMMA CallKinds ==
  ASSUME call \in Calls
  PROVE  /\ call.op \in {"add", "sub", "mul"} =>
              /\ call.signed \in BOOLEAN
              /\ call.a \in Values(SignedMax, call.signed)
              /\ call.b \in Values(SignedMax, call.signed)
         /\ call.op = "conv" =>
              /\ call.to \in IntTypes
              /\ \E m \in Sources, signed \in BOOLEAN :
                   call.from = IntType(m, signed) /\ call.x \in InType(IntType(m, signed))
<1>1. CASE call \in Binary
  BY <1>1 DEF Binary, Values
<1>2. CASE call \in IntConversions
  BY <1>2 DEF IntConversions
<1>3. CASE call \in RealConversions
  <2>1. call.op = "convReal"
    <3>1. CASE call \in [op : {"convReal"}, to : IntTypes, bits : Mantissas, nan : {TRUE}, h : {0}]
      BY <3>1
    <3>2. CASE \E p \in Mantissas :
            call \in [op : {"convReal"}, to : IntTypes, bits : {p}, nan : {FALSE}, h : Reals(p)]
      BY <3>2
    <3>. QED BY <1>3, <3>1, <3>2 DEF RealConversions
  <2>. QED BY <2>1
<1>. QED BY <1>1, <1>2, <1>3 DEF Calls

SumInv == call \in Calls /\ SumExact
ConvInv == call \in Calls /\ ConvIntExact

\* il2cpp_AddOverflow and il2cpp_SubOverflow give the mathematical result or
\* throw, for every width.
THEOREM Sums == NumbersSpec => []SumExact
<1>1. NumbersInit => SumInv
  BY DEF NumbersInit, SumInv, SumExact, Ready
<1>2. SumInv /\ [NumbersNext]_numbersVars => SumInv'
  <2>. SUFFICES ASSUME SumInv, NumbersNext PROVE SumInv'
    BY DEF numbersVars, SumInv, SumExact, Ready
  <2>1. call' = call /\ call \in Calls
    BY DEF SumInv, NumbersNext
  <2>2. CASE call.op \in {"add", "sub"}
    <3>1. /\ call.signed \in BOOLEAN
          /\ call.a \in Values(SignedMax, call.signed)
          /\ call.b \in Values(SignedMax, call.signed)
      BY <2>1, <2>2, CallKinds
    <3>2. /\ call.op = "add" => answer' = Exact(call.a + call.b, Values(SignedMax, call.signed))
          /\ call.op = "sub" => answer' = Exact(call.a - call.b, Values(SignedMax, call.signed))
      <4>1. CASE call.signed = TRUE
        <5>1. call.a \in Signed(SignedMax) /\ call.b \in Signed(SignedMax)
          BY <3>1, <4>1 DEF Values
        <5>2. /\ AddOverflow(SignedMax, TRUE, call.a, call.b) = Exact(call.a + call.b, Signed(SignedMax))
              /\ SubOverflow(SignedMax, TRUE, call.a, call.b) = Exact(call.a - call.b, Signed(SignedMax))
          BY <5>1, AddSigned, SubSigned, MaxAssumption
        <5>. QED BY <5>2, <4>1, <2>2 DEF NumbersNext, Add, Sub, Mul, ConvIntegers, ConvReals, Values
      <4>2. CASE call.signed = FALSE
        <5>1. call.a \in Unsigned(SignedMax) /\ call.b \in Unsigned(SignedMax)
          BY <3>1, <4>2 DEF Values
        <5>2. /\ AddOverflow(SignedMax, FALSE, call.a, call.b) = Exact(call.a + call.b, Unsigned(SignedMax))
              /\ SubOverflow(SignedMax, FALSE, call.a, call.b) = Exact(call.a - call.b, Unsigned(SignedMax))
          BY <5>1, AddUnsigned, SubUnsigned, MaxAssumption
        <5>. QED BY <5>2, <4>2, <2>2 DEF NumbersNext, Add, Sub, Mul, ConvIntegers, ConvReals, Values
      <4>. QED BY <3>1, <4>1, <4>2
    <3>. QED BY <3>2, <2>1, <2>2 DEF SumInv, SumExact, Ready
  <2>3. CASE call.op \notin {"add", "sub"}
    BY <2>1, <2>3 DEF SumInv, SumExact, Ready
  <2>. QED BY <2>2, <2>3
<1>3. SumInv => SumExact
  BY DEF SumInv
<1>. QED BY <1>1, <1>2, <1>3, PTL DEF NumbersSpec

ProductInv == call \in Calls /\ MulExact

\* il2cpp_MulOverflow gives the mathematical product or throws for every
\* width, except that with -1 it refuses the number above the smallest and lets
\* the smallest through.
THEOREM Products == NumbersSpec => []MulExact
<1>1. NumbersInit => ProductInv
  BY DEF NumbersInit, ProductInv, MulExact, Ready
<1>2. ProductInv /\ [NumbersNext]_numbersVars => ProductInv'
  <2>. SUFFICES ASSUME ProductInv, NumbersNext PROVE ProductInv'
    BY DEF numbersVars, ProductInv, MulExact, Ready
  <2>1. call' = call /\ call \in Calls
    BY DEF ProductInv, NumbersNext
  <2>2. CASE call.op = "mul"
    <3>1. /\ call.signed \in BOOLEAN
          /\ call.a \in Values(SignedMax, call.signed)
          /\ call.b \in Values(SignedMax, call.signed)
      BY <2>1, <2>2, CallKinds
    <3>2. answer' = MulOverflow(SignedMax, call.signed, call.a, call.b)
      BY <2>2 DEF NumbersNext, Add, Sub, Mul, ConvIntegers, ConvReals
    <3>3. answer' = IF call.signed /\ call.b = -1 /\ call.a = -SignedMax THEN Throws
                    ELSE IF call.signed /\ call.b = -1 /\ call.a = -SignedMax - 1 THEN Value(call.a)
                    ELSE Exact(call.a * call.b, Values(SignedMax, call.signed))
      <4>1. CASE call.signed = TRUE
        <5>1. call.a \in Signed(SignedMax) /\ call.b \in Signed(SignedMax)
          BY <3>1, <4>1 DEF Values
        <5>. QED BY <5>1, <3>2, <4>1, MulSigned, MaxAssumption DEF Values
      <4>2. CASE call.signed = FALSE
        <5>1. call.a \in Unsigned(SignedMax) /\ call.b \in Unsigned(SignedMax)
          BY <3>1, <4>2 DEF Values
        <5>. QED BY <5>1, <3>2, <4>2, MulUnsigned, MaxAssumption DEF Values
      <4>. QED BY <3>1, <4>1, <4>2
    <3>4. MulExact'
      BY <3>3, <2>1, MaxAssumption DEF MulExact
    <3>. QED BY <3>4, <2>1 DEF ProductInv
  <2>3. CASE call.op # "mul"
    BY <2>1, <2>3 DEF ProductInv, MulExact
  <2>. QED BY <2>2, <2>3
<1>3. ProductInv => MulExact
  BY DEF ProductInv
<1>. QED BY <1>1, <1>2, <1>3, PTL DEF NumbersSpec

\* A conversion of integers keeps the number or throws, for all widths.
THEOREM Conversions == NumbersSpec => []ConvIntExact
<1>1. NumbersInit => ConvInv
  BY DEF NumbersInit, ConvInv, ConvIntExact, Ready
<1>2. ConvInv /\ [NumbersNext]_numbersVars => ConvInv'
  <2>. SUFFICES ASSUME ConvInv, NumbersNext PROVE ConvInv'
    BY DEF numbersVars, ConvInv, ConvIntExact, Ready
  <2>1. call' = call /\ call \in Calls
    BY DEF ConvInv, NumbersNext
  <2>2. CASE call.op = "conv"
    <3>1. PICK sm \in Sources, ss \in BOOLEAN :
            call.from = IntType(sm, ss) /\ call.x \in InType(IntType(sm, ss))
      BY <2>1, <2>2, CallKinds
    <3>2. PICK tm \in Narrow, ts \in BOOLEAN : call.to = IntType(tm, ts)
      BY <2>1, <2>2, CallKinds DEF IntTypes
    <3>3. answer' = ConvInt(call.to, call.from, call.x)
      BY <2>2 DEF NumbersNext, Add, Sub, Mul, ConvIntegers, ConvReals
    <3>4. answer' = Exact(call.x, InType(call.to))
      BY <3>1, <3>2, <3>3, ConvExact
    <3>. QED BY <3>4, <2>1 DEF ConvInv, ConvIntExact
  <2>3. CASE call.op # "conv"
    BY <2>1, <2>3 DEF ConvInv, ConvIntExact
  <2>. QED BY <2>2, <2>3
<1>3. ConvInv => ConvIntExact
  BY DEF ConvInv
<1>. QED BY <1>1, <1>2, <1>3, PTL DEF NumbersSpec

-----------------------------------------------------------------------------
(* Conversions of reals: powers of two, the length of a real and the      *)
(* rounding to the mantissa.                                               *)

\* A set of numbers that is not empty has a least one.
LEMMA LeastNumber ==
  ASSUME NEW S, S \subseteq Nat, S # {}
  PROVE  \E n \in S : \A m \in S : n <= m
<1>. DEFINE R == OpToRel(<, Nat)
<1>1. \A m, n \in Nat : m < n => <<m, n>> \in R
  BY DEF OpToRel
<1>2. \E n \in S : \A m \in S : ~(<<m, n>> \in R)
  <2>1. IsWellFoundedOn(R, Nat)
    BY NatLessThanWellFounded
  <2>. HIDE DEF R
  <2>. QED BY <2>1, WFMin
<1>. HIDE DEF R
<1>3. PICK n \in S : \A m \in S : ~(<<m, n>> \in R)
  BY <1>2
<1>4. ASSUME NEW m \in S PROVE n <= m
  <2>1. m \in Nat /\ n \in Nat /\ ~(m < n)
    BY <1>1, <1>3
  <2>. QED BY <2>1
<1>. QED BY <1>4

\* There is a function with the recursion of Power: up to each number there is
\* one, and they agree.
LEMMA PowerExists == \E f : f = [n \in Nat |-> IF n = 0 THEN 1 ELSE 2 * f[n - 1]]
<1>. DEFINE UpTo(n, f) == f = [k \in 0..n |-> IF k = 0 THEN 1 ELSE 2 * f[k - 1]]
            upTo(n) == CHOOSE f : UpTo(n, f)
            g == [n \in Nat |-> upTo(n)[n]]
<1>1. ASSUME NEW n \in Nat, NEW f, UpTo(n, f)
      PROVE  f[0] = 1 /\ \A k \in 1..n : f[k] = 2 * f[k - 1]
  <2>1. \A k \in 0..n : f[k] = IF k = 0 THEN 1 ELSE 2 * f[k - 1]
    BY <1>1
  <2>2. 0 \in 0..n /\ 1..n \subseteq 0..n
    OBVIOUS
  <2>. QED BY <2>1, <2>2
<1>2. ASSUME NEW n \in Nat, NEW f, f = [k \in 0..n |-> f[k]], f[0] = 1,
             \A k \in 1..n : f[k] = 2 * f[k - 1]
      PROVE  UpTo(n, f)
  <2>. DEFINE h == [k \in 0..n |-> IF k = 0 THEN 1 ELSE 2 * f[k - 1]]
  <2>1. \A k \in 0..n : f[k] = h[k]
    <3>. SUFFICES ASSUME NEW k \in 0..n PROVE f[k] = h[k]
      OBVIOUS
    <3>1. CASE k = 0
      BY <3>1, <1>2
    <3>2. CASE k # 0
      <4>1. k \in 1..n
        BY <3>2
      <4>2. f[k] = 2 * f[k - 1]
        BY <4>1, <1>2
      <4>. QED BY <3>2, <4>2
    <3>. QED BY <3>1, <3>2
  <2>2. h = [k \in 0..n |-> h[k]]
    OBVIOUS
  <2>3. f = h
    <3>. HIDE DEF h
    <3>. QED BY <2>1, <2>2, <1>2
  <2>. QED BY <2>3
<1>3. \A n \in Nat : \E f : UpTo(n, f)
  <2>. DEFINE Bad == {n \in Nat : ~\E f : UpTo(n, f)}
  <2>1. SUFFICES ASSUME Bad # {} PROVE FALSE
    OBVIOUS
  <2>2. PICK n \in Bad : \A m \in Bad : n <= m
    <3>1. Bad \subseteq Nat
      OBVIOUS
    <3>. HIDE DEF Bad
    <3>. QED BY <2>1, <3>1, LeastNumber
  <2>3. n \in Nat /\ ~\E f : UpTo(n, f)
    BY <2>2
  <2>4. n # 0
    <3>1. ASSUME n = 0 PROVE UpTo(n, [k \in 0..0 |-> 1])
      <4>1. 1..n = {} /\ 0 \in 0..0
        BY <3>1
      <4>. QED BY <4>1, <3>1, <1>2
    <3>. QED BY <3>1, <2>3
  <2>5. n - 1 \in Nat /\ n - 1 \notin Bad
    <3>1. n - 1 \in Nat /\ ~(n <= n - 1)
      BY <2>3, <2>4
    <3>. HIDE DEF Bad
    <3>. QED BY <3>1, <2>2
  <2>6. PICK f : UpTo(n - 1, f)
    BY <2>5
  <2>7. f[0] = 1 /\ \A k \in 1..(n - 1) : f[k] = 2 * f[k - 1]
    <3>. HIDE DEF UpTo
    <3>. QED BY <2>5, <2>6, <1>1
  <2>. DEFINE h == [k \in 0..n |-> IF k = n THEN 2 * f[n - 1] ELSE f[k]]
  <2>8. h[0] = 1
    BY <2>3, <2>4, <2>7
  <2>9. ASSUME NEW k \in 1..n PROVE h[k] = 2 * h[k - 1]
    <3>1. k \in 0..n /\ k - 1 \in 0..n /\ k - 1 # n
      BY <2>3
    <3>2. h[k - 1] = f[k - 1]
      BY <3>1
    <3>3. CASE k = n
      BY <3>1, <3>2, <3>3
    <3>4. CASE k # n
      <4>1. k \in 1..(n - 1)
        BY <3>4, <2>3
      <4>2. h[k] = f[k]
        BY <3>1, <3>4
      <4>. QED BY <4>1, <4>2, <3>2, <2>7
    <3>. QED BY <3>3, <3>4
  <2>10. h = [k \in 0..n |-> h[k]]
    OBVIOUS
  <2>. HIDE DEF h, UpTo
  <2>11. UpTo(n, h)
    BY <2>3, <2>8, <2>9, <2>10, <1>2
  <2>. QED BY <2>11, <2>3
<1>4. \A n \in Nat : UpTo(n, upTo(n))
  BY <1>3
<1>. HIDE DEF upTo, UpTo
<1>5. ASSUME NEW n \in Nat PROVE upTo(n + 1)[n] = upTo(n)[n]
  <2>1. /\ upTo(n)[0] = 1 /\ \A k \in 1..n : upTo(n)[k] = 2 * upTo(n)[k - 1]
        /\ upTo(n + 1)[0] = 1 /\ \A k \in 1..(n + 1) : upTo(n + 1)[k] = 2 * upTo(n + 1)[k - 1]
    BY <1>1, <1>4
  <2>. DEFINE Bad == {k \in 0..n : upTo(n + 1)[k] # upTo(n)[k]}
  <2>2. ASSUME Bad # {} PROVE FALSE
    <3>1. PICK k \in Bad : \A j \in Bad : k <= j
      <4>1. Bad \subseteq Nat
        OBVIOUS
      <4>. HIDE DEF Bad
      <4>. QED BY <2>2, <4>1, LeastNumber
    <3>2. k \in 1..n /\ k \in 1..(n + 1)
      BY <3>1, <2>1
    <3>3. k - 1 \in 0..n /\ k - 1 \notin Bad
      BY <3>1, <3>2
    <3>4. upTo(n + 1)[k - 1] = upTo(n)[k - 1]
      BY <3>3
    <3>. QED BY <3>1, <3>2, <3>4, <2>1
  <2>. QED BY <2>2
<1>6. ASSUME NEW n \in Nat PROVE g[n] = IF n = 0 THEN 1 ELSE 2 * g[n - 1]
  <2>1. CASE n = 0
    BY <2>1, <1>1, <1>4
  <2>2. CASE n # 0
    <3>1. n - 1 \in Nat /\ n \in 1..n /\ n - 1 + 1 = n
      BY <2>2
    <3>2. upTo(n)[n] = 2 * upTo(n)[n - 1]
      BY <3>1, <1>1, <1>4
    <3>3. upTo(n)[n - 1] = upTo(n - 1)[n - 1]
      BY <3>1, <1>5
    <3>. QED BY <2>2, <3>1, <3>2, <3>3
  <2>. QED BY <2>1, <2>2
<1>7. g = [n \in Nat |-> g[n]]
  OBVIOUS
<1>. HIDE DEF g
<1>. DEFINE h == [n \in Nat |-> IF n = 0 THEN 1 ELSE 2 * g[n - 1]]
<1>8. \A n \in Nat : h[n] = g[n]
  BY <1>6
<1>9. h = [n \in Nat |-> h[n]]
  OBVIOUS
<1>10. g = h
  <2>. HIDE DEF h
  <2>. QED BY <1>7, <1>8, <1>9
<1>. QED BY <1>10

\* What the recursion says.
LEMMA PowerIs == Power[0] = 1 /\ \A n \in Nat : Power[n + 1] = 2 * Power[n]
<1>1. Power = [n \in Nat |-> IF n = 0 THEN 1 ELSE 2 * Power[n - 1]]
  <2>. DEFINE is(f) == f = [n \in Nat |-> IF n = 0 THEN 1 ELSE 2 * f[n - 1]]
  <2>1. is(CHOOSE f : is(f))
    BY PowerExists
  <2>. QED BY <2>1 DEF Power
<1>2. \A n \in Nat : Power[n] = IF n = 0 THEN 1 ELSE 2 * Power[n - 1]
  BY <1>1
<1>. QED BY <1>2

\* A power is larger than its exponent.
LEMMA PowerLarge == \A n \in Nat : Power[n] \in Nat /\ Power[n] > n
<1>. DEFINE Bad == {n \in Nat : ~(Power[n] \in Nat /\ Power[n] > n)}
<1>1. SUFFICES ASSUME Bad # {} PROVE FALSE
  OBVIOUS
<1>2. PICK n \in Bad : \A m \in Bad : n <= m
  <2>1. Bad \subseteq Nat
    OBVIOUS
  <2>. HIDE DEF Bad
  <2>. QED BY <1>1, <2>1, LeastNumber
<1>3. n # 0
  BY <1>2, PowerIs
<1>4. n - 1 \in Nat /\ n - 1 \notin Bad
  BY <1>2, <1>3
<1>5. Power[n - 1] \in Nat /\ Power[n - 1] > n - 1
  BY <1>4
<1>6. Power[n - 1 + 1] = 2 * Power[n - 1] /\ n - 1 + 1 = n
  BY <1>4, PowerIs
<1>. QED BY <1>2, <1>4, <1>5, <1>6

\* The power of a sum.
LEMMA PowerSum ==
  ASSUME NEW a \in Nat, NEW b \in Nat
  PROVE  Power[a + b] = Power[a] * Power[b]
<1>. DEFINE Bad == {n \in Nat : Power[a + n] # Power[a] * Power[n]}
<1>1. SUFFICES ASSUME Bad # {} PROVE FALSE
  OBVIOUS
<1>2. PICK n \in Bad : \A m \in Bad : n <= m
  <2>1. Bad \subseteq Nat
    OBVIOUS
  <2>. HIDE DEF Bad
  <2>. QED BY <1>1, <2>1, LeastNumber
<1>3. n # 0
  <2>1. a + 0 = a /\ Power[a] \in Nat
    BY PowerLarge
  <2>. QED BY <1>2, <2>1, PowerIs
<1>4. n - 1 \in Nat /\ n - 1 \notin Bad
  BY <1>2, <1>3
<1>5. PICK p \in Nat, q \in Nat : p = Power[a] /\ q = Power[n - 1]
  BY <1>4, PowerLarge
<1>6. Power[a + (n - 1)] = p * q
  BY <1>4, <1>5
<1>7. Power[n] = 2 * q /\ Power[a + n] = 2 * (p * q)
  <2>1. n - 1 + 1 = n /\ a + (n - 1) + 1 = a + n /\ a + (n - 1) \in Nat
    BY <1>4
  <2>. QED BY <2>1, <1>4, <1>5, <1>6, PowerIs
<1>8. 2 * (p * q) = p * (2 * q)
  OBVIOUS
<1>. QED BY <1>2, <1>5, <1>7, <1>8

\* Powers keep the order of the exponents.
LEMMA PowerGrows ==
  ASSUME NEW a \in Nat, NEW b \in Nat, a <= b
  PROVE  Power[a] <= Power[b]
<1>1. PICK p \in Nat, q \in Nat : p = Power[a] /\ q = Power[b - a] /\ q >= 1
  BY PowerLarge
<1>2. Power[b] = p * q
  <2>1. a + (b - a) = b /\ b - a \in Nat
    OBVIOUS
  <2>. QED BY <2>1, <1>1, PowerSum
<1>3. p <= p * q
  BY <1>1
<1>. QED BY <1>1, <1>2, <1>3

\* A power with a positive exponent, from the one below it.
LEMMA PowerNext ==
  ASSUME NEW n \in Nat, n > 0
  PROVE  n - 1 \in Nat /\ Power[n - 1] \in Nat \ {0} /\ Power[n] = 2 * Power[n - 1]
<1>1. n - 1 \in Nat /\ n - 1 + 1 = n
  OBVIOUS
<1>2. Power[n - 1] \in Nat /\ Power[n - 1] > n - 1
  BY <1>1, PowerLarge
<1>. QED BY <1>1, <1>2, PowerIs

\* The weight of the last bit is the least power of two with which the mantissa
\* reaches the real.
LEMMA UlpIs ==
  ASSUME NEW bits \in Nat, NEW h \in Int
  PROVE  \E e \in Nat : /\ Ulp(bits, h) = Power[e]
                        /\ Magnitude(h) <= Power[bits + e]
                        /\ \A f \in 0..(e - 1) : ~(Magnitude(h) <= Power[bits + f])
<1>. DEFINE g == Magnitude(h)
            fits(e) == g <= Power[bits + e]
            first(e) == e \in 0..g /\ fits(e) /\ \A f \in 0..(e - 1) : ~fits(f)
            S == {e \in 0..g : fits(e)}
<1>1. g \in Nat
  BY DEF Magnitude
<1>. HIDE DEF g
<1>2. g \in S
  <2>1. bits + g \in Nat /\ g \in 0..g
    BY <1>1
  <2>2. Power[bits + g] \in Nat /\ Power[bits + g] > bits + g
    BY <2>1, PowerLarge
  <2>. QED BY <1>1, <2>1, <2>2
<1>3. PICK e \in S : \A f \in S : e <= f
  <2>1. S \subseteq Nat /\ S # {}
    BY <1>1, <1>2
  <2>. HIDE DEF S
  <2>. QED BY <2>1, LeastNumber
<1>4. first(e)
  <2>1. e \in 0..g /\ fits(e)
    BY <1>3
  <2>2. ASSUME NEW f \in 0..(e - 1), fits(f) PROVE FALSE
    <3>1. f \in 0..g /\ ~(e <= f)
      BY <1>1, <2>1
    <3>. QED BY <2>2, <3>1, <1>3
  <2>. QED BY <2>1, <2>2
<1>. DEFINE c == CHOOSE x \in 0..g : fits(x) /\ \A f \in 0..(x - 1) : ~fits(f)
<1>5. c \in 0..g /\ fits(c) /\ \A f \in 0..(c - 1) : ~fits(f)
  <2>. HIDE DEF fits
  <2>. QED BY <1>4
<1>6. Ulp(bits, h) = Power[c]
  BY DEF Ulp, g
<1>7. c \in Nat
  BY <1>1, <1>5
<1>. HIDE DEF c
<1>. QED BY <1>5, <1>6, <1>7 DEF g

\* The weight is one for a real no longer than the mantissa,
LEMMA UlpSmall ==
  ASSUME NEW bits \in Nat, NEW h \in Int, Magnitude(h) <= Power[bits]
  PROVE  Ulp(bits, h) = 1
<1>1. PICK e \in Nat : /\ Ulp(bits, h) = Power[e]
                       /\ \A f \in 0..(e - 1) : ~(Magnitude(h) <= Power[bits + f])
  BY UlpIs
<1>2. e = 0
  <2>1. bits + 0 = bits
    OBVIOUS
  <2>2. 0 \notin 0..(e - 1)
    BY <1>1, <2>1
  <2>. QED BY <2>2
<1>. QED BY <1>1, <1>2, PowerIs

\* and otherwise the power by which the real is longer.
LEMMA UlpLarge ==
  ASSUME NEW bits \in Nat, NEW h \in Int, NEW i \in Nat, i > 0,
         Power[bits + (i - 1)] < Magnitude(h), Magnitude(h) <= Power[bits + i]
  PROVE  Ulp(bits, h) = Power[i]
<1>1. PICK e \in Nat : /\ Ulp(bits, h) = Power[e]
                       /\ Magnitude(h) <= Power[bits + e]
                       /\ \A f \in 0..(e - 1) : ~(Magnitude(h) <= Power[bits + f])
  BY UlpIs
<1>2. ~(e > i)
  <2>1. e > i => i \in 0..(e - 1)
    OBVIOUS
  <2>. QED BY <1>1, <2>1
<1>3. ~(e < i)
  <2>. SUFFICES ASSUME e < i PROVE FALSE
    OBVIOUS
  <2>1. bits + e \in Nat /\ bits + (i - 1) \in Nat /\ bits + e <= bits + (i - 1)
    OBVIOUS
  <2>2. Power[bits + e] <= Power[bits + (i - 1)]
    BY <2>1, PowerGrows
  <2>3. Power[bits + e] \in Nat /\ Power[bits + (i - 1)] \in Nat /\ Magnitude(h) \in Nat
    BY <2>1, PowerLarge DEF Magnitude
  <2>. QED BY <1>1, <2>2, <2>3
<1>4. e = i
  BY <1>2, <1>3
<1>. QED BY <1>1, <1>4

\* A quotient and a remainder determine the division, below zero as well.
LEMMA DivIs ==
  ASSUME NEW q \in Int, NEW r \in Nat, NEW u \in Nat, r < u
  PROVE  (q * u + r) \div u = q
<1>. DEFINE h == q * u + r
            k == h \div u
<1>1. h \in Int /\ k \in Int /\ k * u <= h /\ h < k * u + u
  OBVIOUS
<1>. HIDE DEF k
<1>2. (q - k) * u = q * u - k * u
  BY <1>1
<1>3. ~(q - k >= 1)
  <2>. SUFFICES ASSUME q - k >= 1 PROVE FALSE
    OBVIOUS
  <2>1. (q - k) * u >= u
    BY <1>1
  <2>. QED BY <2>1, <1>1, <1>2
<1>4. ~(q - k <= -1)
  <2>. SUFFICES ASSUME q - k <= -1 PROVE FALSE
    OBVIOUS
  <2>1. (k - q) * u >= u
    BY <1>1
  <2>2. (k - q) * u = k * u - q * u
    BY <1>1
  <2>. QED BY <2>1, <2>2, <1>1
<1>5. k = q
  BY <1>1, <1>3, <1>4
<1>. QED BY <1>5 DEF k

\* A real of the type that is longer than the mantissa is even in halves.
LEMMA RoundMultiple ==
  ASSUME NEW bits \in Nat, NEW h \in Int, ~(Magnitude(h) <= Power[bits]), Round(bits, h) = h
  PROVE  \E x \in Int : h = 2 * x
<1>1. PICK e \in Nat : /\ Ulp(bits, h) = Power[e]
                       /\ Magnitude(h) <= Power[bits + e]
  BY UlpIs
<1>2. e > 0
  <2>1. bits + 0 = bits
    OBVIOUS
  <2>. QED BY <1>1, <2>1
<1>3. PICK p \in Nat : p = Power[e - 1] /\ Ulp(bits, h) = 2 * p /\ p > 0
  BY <1>1, <1>2, PowerNext
<1>4. PICK k \in Int : h = k * (2 * p)
  <2>. DEFINE q == h \div (2 * p)
  <2>1. q \in Int
    BY <1>3
  <2>2. h = q * (2 * p) \/ h = q * (2 * p) + 2 * p
    <3>. HIDE DEF q
    <3>1. Round(bits, h) = q * (2 * p) \/ Round(bits, h) = q * (2 * p) + 2 * p
      BY <1>3 DEF Round, q
    <3>. QED BY <3>1
  <2>. HIDE DEF q
  <2>3. (q + 1) * (2 * p) = q * (2 * p) + 2 * p
    BY <2>1
  <2>4. CASE h = q * (2 * p)
    BY <2>1, <2>4
  <2>5. CASE h = q * (2 * p) + 2 * p
    <3>1. q + 1 \in Int /\ h = (q + 1) * (2 * p)
      BY <2>1, <2>3, <2>5
    <3>. QED BY <3>1
  <2>. QED BY <2>2, <2>4, <2>5
<1>5. k * (2 * p) = 2 * (k * p) /\ k * p \in Int
  OBVIOUS
<1>. QED BY <1>4, <1>5

\* A real no longer than the mantissa is kept.
LEMMA RoundSmall ==
  ASSUME NEW bits \in Nat, NEW h \in Int, Magnitude(h) <= Power[bits]
  PROVE  Round(bits, h) = h
<1>1. Ulp(bits, h) = 1
  BY UlpSmall
<1>2. h \div 1 = h /\ h * 1 = h
  OBVIOUS
<1>. QED BY <1>1, <1>2 DEF Round

\* Powers of two around one that is longer than the mantissa.
LEMMA PowersAround ==
  ASSUME NEW bits \in Nat, NEW j \in Nat, bits >= 2, j > bits
  PROVE  \E e \in Nat, p \in Nat, v \in Nat :
           /\ e > 0 /\ bits + e = j
           /\ p > 0 /\ v > 0
           /\ Power[e] = 2 * v
           /\ (e = 1 => v = 1) /\ (e = 2 => v = 2) /\ (e > 2 => v >= 4)
           /\ Power[e + 1] = 4 * v
           /\ Power[bits] = 4 * p
           /\ Power[j] = (4 * p) * (2 * v)
           /\ Power[bits + (e - 1)] = (4 * p) * v
           /\ Power[bits + (e + 1)] = 2 * Power[j]
<1>. DEFINE e == j - bits
            v == Power[e - 1]
            p == Power[bits - 2]
<1>1. /\ e \in Nat /\ e > 0 /\ bits + e = j /\ e - 1 \in Nat /\ bits - 2 \in Nat
      /\ bits - 1 \in Nat /\ bits - 1 > 0 /\ bits - 1 - 1 = bits - 2 /\ bits > 0 /\ j + 1 > 0
      /\ j + 1 - 1 = j /\ e + 1 - 1 = e /\ e + 1 > 0 /\ bits + (e + 1) = j + 1
  OBVIOUS
<1>2. /\ v \in Nat /\ v > e - 1 /\ Power[e] = 2 * v /\ Power[e + 1] = 2 * Power[e]
      /\ p \in Nat /\ p > 0 /\ Power[bits - 1] = 2 * p /\ Power[bits] = 2 * Power[bits - 1]
      /\ Power[j + 1] = 2 * Power[j]
  <2>. HIDE DEF e
  <2>1. v \in Nat /\ v > e - 1 /\ p \in Nat /\ p > 0
    BY <1>1, PowerLarge
  <2>. QED BY <1>1, <2>1, PowerNext
<1>3. (e = 1 => v = 1) /\ (e = 2 => v = 2) /\ (e > 2 => v >= 4)
  <2>. HIDE DEF e
  <2>1. e = 1 => v = 1
    <3>1. e = 1 => e - 1 = 0
      OBVIOUS
    <3>. QED BY <3>1, PowerIs
  <2>2. e > 1 => e - 1 > 0 /\ Power[e - 1] = 2 * Power[e - 1 - 1] /\ Power[e - 1 - 1] > e - 1 - 1 /\ Power[e - 1 - 1] \in Nat
    <3>. SUFFICES ASSUME e > 1 PROVE e - 1 > 0 /\ Power[e - 1] = 2 * Power[e - 1 - 1] /\ Power[e - 1 - 1] > e - 1 - 1 /\ Power[e - 1 - 1] \in Nat
      OBVIOUS
    <3>1. e - 1 \in Nat /\ e - 1 > 0 /\ e - 1 - 1 \in Nat
      BY <1>1
    <3>. QED BY <3>1, PowerNext, PowerLarge
  <2>3. e = 2 => v = 2
    <3>1. e = 2 => e - 1 - 1 = 0
      OBVIOUS
    <3>2. e = 2 => Power[e - 1 - 1] = 1
      BY <3>1, PowerIs
    <3>. QED BY <1>1, <2>2, <3>2
  <2>4. e > 2 => v >= 4
    <3>1. e > 2 => Power[e - 1 - 1] > 1
      <4>. SUFFICES ASSUME e > 2 PROVE Power[e - 1 - 1] > 1
        OBVIOUS
      <4>1. e - 1 - 1 >= 1 /\ e > 1
        BY <1>1
      <4>. HIDE DEF v
      <4>. QED BY <4>1, <1>1, <2>2
    <3>. QED BY <1>1, <2>2, <3>1
  <2>. QED BY <2>1, <2>3, <2>4
<1>4. Power[j] = Power[bits] * Power[e] /\ Power[bits + (e - 1)] = Power[bits] * v
  <2>. HIDE DEF e
  <2>. QED BY <1>1, PowerSum
<1>. HIDE DEF e, v, p
<1>5. Power[bits] = 4 * p /\ Power[e + 1] = 4 * v
  BY <1>2
<1>6. Power[j] = (4 * p) * (2 * v) /\ Power[bits + (e - 1)] = (4 * p) * v
  BY <1>2, <1>4, <1>5
<1>7. /\ e \in Nat /\ p \in Nat /\ v \in Nat
      /\ e > 0 /\ bits + e = j
      /\ p > 0 /\ v > 0
      /\ Power[e] = 2 * v
      /\ Power[bits + (e + 1)] = 2 * Power[j]
  BY <1>1, <1>2
<1>. QED BY <1>3, <1>5, <1>6, <1>7

\* One more than the largest number, computed in the reals of the source, is
\* exact.
LEMMA AboveIs ==
  ASSUME NEW bits \in Nat, NEW j \in Nat, bits >= 2, j > 0
  PROVE  Round(bits, Round(bits, Power[j] - 2) + 2) = Power[j]
<1>. DEFINE N == Power[j]
<1>1. N \in Nat /\ N >= 2
  BY PowerLarge
<1>2. CASE j <= bits
  <2>1. N <= Power[bits] /\ Power[bits] \in Nat
    BY <1>2, PowerGrows, PowerLarge
  <2>. HIDE DEF N
  <2>2. Magnitude(N) <= Power[bits] /\ Magnitude(N - 2) <= Power[bits]
    BY <1>1, <2>1 DEF Magnitude
  <2>3. Round(bits, N - 2) = N - 2 /\ Round(bits, N) = N
    BY <1>1, <2>2, RoundSmall
  <2>4. N - 2 + 2 = N
    BY <1>1
  <2>5. Round(bits, Round(bits, N - 2) + 2) = N
    BY <2>3, <2>4
  <2>. QED BY <2>5 DEF N
<1>3. CASE j > bits
  <2>1. PICK e \in Nat, p \in Nat, v \in Nat :
           /\ e > 0 /\ bits + e = j
           /\ p > 0 /\ v > 0
           /\ Power[e] = 2 * v
           /\ (e = 1 => v = 1) /\ (e = 2 => v = 2) /\ (e > 2 => v >= 4)
           /\ Power[e + 1] = 4 * v
           /\ Power[bits] = 4 * p
           /\ Power[j] = (4 * p) * (2 * v)
           /\ Power[bits + (e - 1)] = (4 * p) * v
           /\ Power[bits + (e + 1)] = 2 * Power[j]
    BY <1>3, PowersAround
  <2>. HIDE DEF N
  <2>0. Power[j] = N
    BY DEF N
  <2>2. PICK w \in Nat : w = p * v /\ w > 0 /\ w >= v
    BY <2>1
  <2>3. (4 * p) * v = 4 * w /\ (4 * p) * (2 * v) = 8 * w
    BY <2>2
  <2>4. N = 8 * w /\ Power[bits + (e - 1)] = 4 * w /\ Power[bits + (e + 1)] = 16 * w /\ Power[bits + e] = 8 * w
    BY <2>0, <2>1, <2>3
  <2>5. /\ Magnitude(N - 2) = 8 * w - 2 /\ Magnitude(N) = 8 * w /\ Magnitude(N + 2) = 8 * w + 2
        /\ N - 2 \in Int /\ N + 2 \in Int /\ N \in Int
    BY <2>2, <2>4 DEF Magnitude
  <2>6. Ulp(bits, N - 2) = 2 * v /\ Ulp(bits, N) = 2 * v
    <3>1. 4 * w < 8 * w - 2 /\ 8 * w - 2 <= 8 * w /\ 4 * w < 8 * w /\ 8 * w <= 8 * w
      BY <2>2
    <3>2. /\ Power[bits + (e - 1)] < Magnitude(N - 2) /\ Magnitude(N - 2) <= Power[bits + e]
          /\ Power[bits + (e - 1)] < Magnitude(N) /\ Magnitude(N) <= Power[bits + e]
      BY <2>4, <2>5, <3>1
    <3>3. Ulp(bits, N - 2) = Power[e] /\ Ulp(bits, N) = Power[e]
      BY <2>1, <2>5, <3>2, UlpLarge
    <3>. QED BY <2>1, <3>3
  <2>7. Ulp(bits, N + 2) = 4 * v
    <3>1. 8 * w < 8 * w + 2 /\ 8 * w + 2 <= 16 * w /\ e + 1 \in Nat /\ e + 1 > 0 /\ e + 1 - 1 = e
      BY <2>2
    <3>2. Power[bits + (e + 1 - 1)] < Magnitude(N + 2) /\ Magnitude(N + 2) <= Power[bits + (e + 1)]
      BY <2>4, <2>5, <3>1
    <3>3. Ulp(bits, N + 2) = Power[e + 1]
      BY <2>5, <3>1, <3>2, UlpLarge
    <3>. QED BY <2>1, <3>3
  <2>8. Round(bits, N - 2) = IF v = 1 THEN N - 2 ELSE N
    <3>. DEFINE q == 4 * p - 1
                r == 2 * v - 2
    <3>1. q \in Int /\ r \in Nat /\ r < 2 * v /\ 2 * v \in Nat
      BY <2>1
    <3>2. q * (2 * v) = 8 * w - 2 * v
      <4>1. q * (2 * v) = (4 * p) * (2 * v) - 2 * v
        OBVIOUS
      <4>. QED BY <4>1, <2>3
    <3>3. N - 2 = q * (2 * v) + r
      BY <3>2, <2>4
    <3>4. q % 2 # 0
      <4>1. 4 * p - 1 = 2 * (2 * p - 1) + 1 /\ 2 * p - 1 \in Int
        OBVIOUS
      <4>. QED BY <4>1
    <3>. HIDE DEF q
    <3>5. Round(bits, N - 2) = IF 2 * r < 2 * v \/ (2 * r = 2 * v /\ q % 2 = 0) THEN q * (2 * v) ELSE q * (2 * v) + 2 * v
      <4>. HIDE DEF r
      <4>1. PICK u \in Nat, h \in Int : u = 2 * v /\ h = N - 2
        BY <3>1, <2>5
      <4>2. r < u /\ h = q * u + r /\ Ulp(bits, h) = u
        BY <4>1, <3>1, <3>3, <2>6
      <4>3. Round(bits, h) = IF 2 * r < u \/ (2 * r = u /\ q % 2 = 0) THEN q * u ELSE q * u + u
        <5>1. h \div u = q
          BY <4>2, <3>1, DivIs
        <5>2. h - q * u = r
          BY <4>2, <3>1
        <5>. QED BY <5>1, <5>2, <4>2 DEF Round
      <4>. QED BY <4>1, <4>3
    <3>6. 2 * r < 2 * v <=> v = 1
      BY <2>1
    <3>. QED BY <3>2, <3>4, <3>5, <3>6, <2>4
  <2>9. Round(bits, N) = N
    <3>1. PICK u \in Nat, q \in Int, r \in Nat : u = 2 * v /\ q = 4 * p /\ r = 0
      OBVIOUS
    <3>2. r < u /\ N = q * u + r /\ Ulp(bits, N) = u /\ 2 * r < u
      BY <3>1, <2>1, <2>3, <2>4, <2>6
    <3>3. Round(bits, N) = q * u
      <4>1. N \div u = q
        BY <3>2, DivIs
      <4>2. N - q * u = r
        BY <3>2
      <4>. QED BY <4>1, <4>2, <3>2 DEF Round
    <3>. QED BY <3>1, <3>2, <3>3
  <2>10. v # 1 => Round(bits, N + 2) = N
    <3>. SUFFICES ASSUME v # 1 PROVE Round(bits, N + 2) = N
      OBVIOUS
    <3>1. (2 * p) * (4 * v) = 8 * w
      BY <2>2
    <3>2. PICK u \in Nat, q \in Int, r \in Nat, h \in Int : u = 4 * v /\ q = 2 * p /\ r = 2 /\ h = N + 2
      BY <2>5
    <3>3. r < u /\ h = q * u + r /\ Ulp(bits, h) = u /\ 2 * r < u
      BY <3>1, <3>2, <2>1, <2>4, <2>7
    <3>4. Round(bits, h) = q * u
      <4>1. h \div u = q
        BY <3>3, DivIs
      <4>2. h - q * u = r
        BY <3>3
      <4>. QED BY <4>1, <4>2, <3>3 DEF Round
    <3>. QED BY <3>1, <3>2, <3>4, <2>4
  <2>11. N - 2 + 2 = N
    BY <2>2, <2>4
  <2>12. Round(bits, Round(bits, N - 2) + 2) = N
    BY <2>8, <2>9, <2>10, <2>11
  <2>. QED BY <2>12 DEF N
<1>. QED BY <1>2, <1>3

\* One less than the lowest number is exact up to the length of the mantissa;
\* past it the lowest number comes back.
LEMMA BelowIs ==
  ASSUME NEW bits \in Nat, NEW j \in Nat, bits >= 2, j > 0
  PROVE  Round(bits, Round(bits, -Power[j]) - 2)
           = IF j <= bits THEN -Power[j] - 2 ELSE -Power[j]
<1>. DEFINE N == Power[j]
<1>1. N \in Nat /\ N >= 2 /\ Power[bits] \in Nat
  BY PowerLarge
<1>2. CASE j <= bits
  <2>1. N <= Power[bits]
    BY <1>2, PowerGrows
  <2>2. N = 2 * Power[j - 1] /\ Power[j - 1] \in Nat
    BY PowerNext
  <2>. HIDE DEF N
  <2>3. Round(bits, -N) = -N
    <3>1. Magnitude(-N) <= Power[bits] /\ -N \in Int
      BY <1>1, <2>1 DEF Magnitude
    <3>. QED BY <3>1, RoundSmall
  <2>4. Round(bits, -N - 2) = -N - 2
    <3>1. CASE N + 2 <= Power[bits]
      <4>1. Magnitude(-N - 2) <= Power[bits] /\ -N - 2 \in Int
        BY <1>1, <3>1 DEF Magnitude
      <4>. QED BY <4>1, RoundSmall
    <3>2. CASE ~(N + 2 <= Power[bits])
      <4>1. Power[bits + 1] = 2 * Power[bits] /\ Power[1] = 2
        <5>1. 0 + 1 = 1
          OBVIOUS
        <5>. QED BY <5>1, PowerIs
      <4>2. PICK h \in Int : h = -N - 2
        BY <1>1
      <4>3. Power[bits] < Magnitude(h) /\ Magnitude(h) <= Power[bits + 1]
        BY <4>1, <4>2, <3>2, <1>1, <2>1 DEF Magnitude
      <4>4. Ulp(bits, h) = 2
        <5>1. bits + (1 - 1) = bits
          OBVIOUS
        <5>2. Ulp(bits, h) = Power[1]
          BY <5>1, <4>3, UlpLarge
        <5>. QED BY <5>2, <4>1
      <4>5. (h \div 2) * 2 = h
        BY <4>2, <2>2
      <4>. QED BY <4>2, <4>4, <4>5 DEF Round
    <3>. QED BY <3>1, <3>2
  <2>5. Round(bits, Round(bits, -N) - 2) = -N - 2
    BY <2>3, <2>4
  <2>. QED BY <2>5, <1>2 DEF N
<1>3. CASE j > bits
  <2>1. PICK e \in Nat, p \in Nat, v \in Nat :
           /\ e > 0 /\ bits + e = j
           /\ p > 0 /\ v > 0
           /\ Power[e] = 2 * v
           /\ (e = 1 => v = 1) /\ (e = 2 => v = 2) /\ (e > 2 => v >= 4)
           /\ Power[e + 1] = 4 * v
           /\ Power[bits] = 4 * p
           /\ Power[j] = (4 * p) * (2 * v)
           /\ Power[bits + (e - 1)] = (4 * p) * v
           /\ Power[bits + (e + 1)] = 2 * Power[j]
    BY <1>3, PowersAround
  <2>. HIDE DEF N
  <2>0. Power[j] = N
    BY DEF N
  <2>2. PICK w \in Nat : w = p * v /\ w > 0 /\ w >= v
    BY <2>1
  <2>3. (4 * p) * v = 4 * w /\ (4 * p) * (2 * v) = 8 * w /\ (2 * p) * (4 * v) = 8 * w
    BY <2>2
  <2>4. N = 8 * w /\ Power[bits + (e - 1)] = 4 * w /\ Power[bits + (e + 1)] = 16 * w /\ Power[bits + e] = 8 * w
    BY <2>0, <2>1, <2>3
  <2>5. Round(bits, -N) = -N
    <3>1. PICK h \in Int, u \in Nat, q \in Int, r \in Nat : h = -N /\ u = 2 * v /\ q = -(4 * p) /\ r = 0
      BY <2>4
    <3>2. Power[bits + (e - 1)] < Magnitude(h) /\ Magnitude(h) <= Power[bits + e]
      BY <2>2, <2>4, <3>1 DEF Magnitude
    <3>3. Ulp(bits, h) = u
      <4>1. Ulp(bits, h) = Power[e]
        BY <3>2, <2>1, UlpLarge
      <4>. QED BY <4>1, <3>1, <2>1
    <3>4. r < u /\ h = q * u + r
      <4>1. q * u = -((4 * p) * (2 * v))
        BY <3>1
      <4>. QED BY <4>1, <3>1, <2>1, <2>3, <2>4
    <3>5. h \div u = q
      BY <3>4, DivIs
    <3>6. h - q * u = r
      BY <3>4
    <3>7. 2 * r < u
      BY <3>1, <2>1
    <3>8. Round(bits, h) = q * u
      BY <3>3, <3>5, <3>6, <3>7 DEF Round
    <3>. QED BY <3>1, <3>4, <3>8
  <2>6. Round(bits, -N - 2) = -N
    <3>1. PICK h \in Int, u \in Nat, q \in Int, r \in Nat :
            h = -N - 2 /\ u = 4 * v /\ q = -(2 * p) - 1 /\ r = 4 * v - 2
      BY <2>4, <2>1
    <3>2. e + 1 \in Nat /\ e + 1 > 0 /\ e + 1 - 1 = e
      OBVIOUS
    <3>3. Power[bits + (e + 1 - 1)] < Magnitude(h) /\ Magnitude(h) <= Power[bits + (e + 1)]
      BY <2>2, <2>4, <3>1, <3>2 DEF Magnitude
    <3>4. Ulp(bits, h) = u
      <4>1. PICK i \in Nat : i = e + 1
        BY <3>2
      <4>2. i > 0 /\ Power[bits + (i - 1)] < Magnitude(h) /\ Magnitude(h) <= Power[bits + i]
        BY <4>1, <3>2, <3>3
      <4>3. Ulp(bits, h) = Power[i]
        BY <4>2, UlpLarge
      <4>. QED BY <4>1, <4>3, <3>1, <2>1
    <3>5. q * u = -(8 * w) - u
      <4>1. q * u = -((2 * p) * (4 * v)) - 4 * v
        BY <3>1
      <4>. QED BY <4>1, <3>1, <2>3
    <3>6. r < u /\ h = q * u + r
      BY <3>1, <3>5, <2>4, <2>1
    <3>7. h \div u = q
      BY <3>6, DivIs
    <3>8. h - q * u = r
      BY <3>6
    <3>9. ~(2 * r < u) /\ (2 * r = u => v = 1)
      BY <3>1, <2>1
    <3>10. ~(2 * r = u /\ q % 2 = 0)
      <4>1. v = 1 => q % 2 # 0
        <5>1. \E x \in Nat : p = x
          OBVIOUS
        <5>2. q = 2 * (-p - 1) + 1 /\ -p - 1 \in Int
          BY <3>1
        <5>. QED BY <5>2
      <4>. QED BY <4>1, <3>9
    <3>11. Round(bits, h) = q * u + u
      BY <3>4, <3>7, <3>8, <3>9, <3>10 DEF Round
    <3>. QED BY <3>1, <3>5, <3>11, <2>4
  <2>7. Round(bits, Round(bits, -N) - 2) = -N
    BY <2>5, <2>6
  <2>. QED BY <2>7, <1>3 DEF N
<1>. QED BY <1>2, <1>3

\* The power that one more than the largest number is, in halves.
LEMMA LargestIsPower ==
  ASSUME NEW t \in IntTypes
  PROVE  /\ t.m \in Nat /\ t.signed \in BOOLEAN
         /\ \E j \in Nat : /\ j > 0
                           /\ 2 * Largest(t) + 2 = Power[j]
                           /\ t.signed => t.m + 1 = Power[j - 1]
<1>1. t.m \in Narrow /\ t.m \in Nat /\ t.signed \in BOOLEAN
  BY WidthAssumption DEF IntTypes, IntType
<1>2. PICK k \in Nat : t.m + 1 = Power[k]
  BY <1>1, RealAssumption
<1>3. Power[k + 1] = 2 * (t.m + 1) /\ Power[k + 2] = 4 * (t.m + 1)
  <2>1. k + 1 \in Nat /\ k + 1 + 1 = k + 2
    OBVIOUS
  <2>2. Power[k + 1] = 2 * Power[k] /\ Power[k + 1 + 1] = 2 * Power[k + 1]
    BY <2>1, PowerIs
  <2>3. Power[k + 2] = 2 * Power[k + 1]
    BY <2>1, <2>2
  <2>. QED BY <1>1, <1>2, <2>2, <2>3
<1>4. CASE t.signed
  <2>1. 2 * Largest(t) + 2 = Power[k + 1] /\ k + 1 \in Nat /\ k + 1 > 0 /\ k + 1 - 1 = k
    BY <1>1, <1>3, <1>4 DEF Largest
  <2>2. t.m + 1 = Power[k + 1 - 1]
    BY <2>1, <1>2
  <2>. QED BY <1>1, <2>1, <2>2
<1>5. CASE ~t.signed
  <2>1. 2 * Largest(t) + 2 = Power[k + 2] /\ k + 2 \in Nat /\ k + 2 > 0
    BY <1>1, <1>3, <1>5 DEF Largest
  <2>. QED BY <1>1, <1>5, <2>1
<1>. QED BY <1>4, <1>5

\* The conversions of reals that can be asked for.
LEMMA RealCallKinds ==
  ASSUME call \in Calls, call.op = "convReal"
  PROVE  /\ call.to \in IntTypes /\ call.bits \in Mantissas /\ call.nan \in BOOLEAN
         /\ ~call.nan => call.h \in Reals(call.bits)
<1>1. call \in RealConversions
  <2>1. call \notin Binary
    BY DEF Binary
  <2>2. call \notin IntConversions
    BY DEF IntConversions
  <2>. QED BY <2>1, <2>2 DEF Calls
<1>2. CASE call \in [op : {"convReal"}, to : IntTypes, bits : Mantissas, nan : {TRUE}, h : {0}]
  BY <1>2
<1>3. CASE \E p \in Mantissas :
        call \in [op : {"convReal"}, to : IntTypes, bits : {p}, nan : {FALSE}, h : Reals(p)]
  BY <1>3
<1>. QED BY <1>1, <1>2, <1>3 DEF RealConversions

\* What is let through is what the target has once the fraction is gone: the
\* bound above is exact, and the bound below is exact or refuses the lowest
\* number and nothing else.
LEMMA RealExact ==
  ASSUME NEW t \in IntTypes, NEW bits \in Mantissas, NEW h \in Reals(bits)
  PROVE  ThrowsIf(RealRefused(t, bits, h), Truncate(h))
           = IF t.signed /\ t.m + 1 >= Power[bits] /\ h = 2 * Lowest(t) THEN Throws
             ELSE Exact(Truncate(h), InType(t))
<1>1. bits \in Nat /\ bits >= 2 /\ h \in Int /\ Round(bits, h) = h
  <2>1. bits \in Nat \ {0, 1} /\ Halves \in Nat
    BY RealAssumption
  <2>. QED BY <2>1 DEF Reals
<1>2. t.m \in Nat /\ t.signed \in BOOLEAN
  BY LargestIsPower
<1>3. PICK j \in Nat : j > 0 /\ 2 * Largest(t) + 2 = Power[j] /\ (t.signed => t.m + 1 = Power[j - 1])
  BY LargestIsPower
<1>4. Largest(t) \in Int /\ Lowest(t) \in Int /\ Lowest(t) <= 0 /\ 0 <= Largest(t)
  BY <1>2 DEF Largest, Lowest
<1>5. AboveMax(t, bits) = 2 * Largest(t) + 2
  <2>1. Power[j] - 2 = 2 * Largest(t)
    BY <1>3, <1>4
  <2>2. Round(bits, Round(bits, Power[j] - 2) + 2) = Power[j]
    BY <1>1, <1>3, AboveIs
  <2>. QED BY <1>3, <2>1, <2>2 DEF AboveMax
<1>6. CASE t.signed /\ j > bits
  <2>1. t.m + 1 >= Power[bits]
    <3>1. j - 1 \in Nat /\ bits <= j - 1
      BY <1>1, <1>6
    <3>2. Power[bits] <= Power[j - 1]
      BY <1>1, <3>1, PowerGrows
    <3>3. Power[bits] \in Nat
      BY <1>1, PowerLarge
    <3>. QED BY <1>2, <1>3, <1>6, <3>2, <3>3
  <2>2. Power[j] = -(2 * Lowest(t))
    BY <1>2, <1>3, <1>6 DEF Largest, Lowest
  <2>3. BelowLowest(t, bits) = 2 * Lowest(t)
    <3>1. Round(bits, Round(bits, -Power[j]) - 2) = -Power[j]
      BY <1>1, <1>3, <1>6, BelowIs
    <3>2. -Power[j] = 2 * Lowest(t)
      BY <2>2, <1>4
    <3>. QED BY <3>1, <3>2 DEF BelowLowest
  <2>4. h # 2 * Lowest(t) - 1
    <3>. SUFFICES ASSUME h = 2 * Lowest(t) - 1 PROVE FALSE
      OBVIOUS
    <3>1. Power[bits] <= Power[j] /\ Power[bits] \in Nat /\ Power[j] \in Nat
      BY <1>1, <1>6, PowerGrows, PowerLarge
    <3>2. ~(Magnitude(h) <= Power[bits])
      BY <3>1, <2>2, <1>4 DEF Magnitude
    <3>3. PICK x \in Int : h = 2 * x
      BY <1>1, <3>2, RoundMultiple
    <3>. QED BY <3>3, <1>4
  <2>5. RealRefused(t, bits, h) <=> h >= 2 * Largest(t) + 2 \/ h <= 2 * Lowest(t)
    BY <1>5, <2>3 DEF RealRefused
  <2>6. Truncate(h) \in InType(t) <=> h < 2 * Largest(t) + 2 /\ h > 2 * Lowest(t) - 2
    BY <1>1, <1>4 DEF Truncate, InType
  <2>7. h = 2 * Lowest(t) => RealRefused(t, bits, h)
    BY <2>5
  <2>8. h # 2 * Lowest(t) => (RealRefused(t, bits, h) <=> Truncate(h) \notin InType(t))
    BY <2>4, <2>5, <2>6, <1>1, <1>4
  <2>. QED BY <1>6, <2>1, <2>7, <2>8 DEF ThrowsIf, Exact
<1>7. CASE ~(t.signed /\ j > bits)
  <2>1. BelowLowest(t, bits) = 2 * Lowest(t) - 2
    <3>1. CASE t.signed
      <4>1. j <= bits
        BY <1>1, <1>7, <3>1
      <4>2. Round(bits, Round(bits, -Power[j]) - 2) = -Power[j] - 2
        BY <1>1, <1>3, <4>1, BelowIs
      <4>3. -Power[j] = 2 * Lowest(t)
        BY <1>2, <1>3, <3>1 DEF Largest, Lowest
      <4>. QED BY <4>2, <4>3 DEF BelowLowest
    <3>2. CASE ~t.signed
      <4>1. Lowest(t) = 0 /\ 2 * 0 = 0 /\ 0 - 2 = -2
        BY <3>2 DEF Lowest
      <4>2. Power[bits] \in Nat /\ Power[bits] > 2
        <5>1. Power[bits] \in Nat /\ Power[bits] > bits
          BY <1>1, PowerLarge
        <5>. QED BY <5>1, <1>1
      <4>3. Magnitude(0) <= Power[bits] /\ Magnitude(-2) <= Power[bits]
        BY <4>2 DEF Magnitude
      <4>4. Round(bits, 0) = 0 /\ Round(bits, -2) = -2
        BY <1>1, <4>3, RoundSmall
      <4>5. Round(bits, Round(bits, 2 * 0) - 2) = -2
        BY <4>1, <4>4
      <4>6. 2 * 0 - 2 = -2
        OBVIOUS
      <4>. QED BY <4>1, <4>5, <4>6 DEF BelowLowest
    <3>. QED BY <1>2, <3>1, <3>2
  <2>2. RealRefused(t, bits, h) <=> h >= 2 * Largest(t) + 2 \/ h <= 2 * Lowest(t) - 2
    BY <1>5, <2>1 DEF RealRefused
  <2>3. Truncate(h) \in InType(t) <=> h < 2 * Largest(t) + 2 /\ h > 2 * Lowest(t) - 2
    BY <1>1, <1>4 DEF Truncate, InType
  <2>4. RealRefused(t, bits, h) <=> Truncate(h) \notin InType(t)
    BY <2>2, <2>3, <1>1, <1>4
  <2>5. t.signed => ~(t.m + 1 >= Power[bits])
    <3>. SUFFICES ASSUME t.signed PROVE ~(t.m + 1 >= Power[bits])
      OBVIOUS
    <3>1. Power[j] <= Power[bits]
      BY <1>1, <1>3, <1>7, PowerGrows
    <3>2. Power[j - 1] \in Nat \ {0} /\ Power[j] = 2 * Power[j - 1] /\ Power[bits] \in Nat
      BY <1>1, <1>3, PowerNext, PowerLarge
    <3>. QED BY <3>1, <3>2, <1>3
  <2>. QED BY <2>4, <2>5 DEF ThrowsIf, Exact
<1>. QED BY <1>6, <1>7

RealInv == call \in Calls /\ ConvRealExact

\* il2cpp_ConvOverflow of a real gives the number without its fraction or
\* throws, for all widths and all mantissas, but for the lowest number of a
\* target that is longer than the mantissa, which it refuses, and for NaN.
THEOREM RealConversionsExact == NumbersSpec => []ConvRealExact
<1>1. NumbersInit => RealInv
  BY DEF NumbersInit, RealInv, ConvRealExact, Ready
<1>2. RealInv /\ [NumbersNext]_numbersVars => RealInv'
  <2>. SUFFICES ASSUME RealInv, NumbersNext PROVE RealInv'
    BY DEF numbersVars, RealInv, ConvRealExact, Ready
  <2>1. call' = call /\ call \in Calls
    BY DEF RealInv, NumbersNext
  <2>2. CASE call.op = "convReal"
    <3>1. /\ call.to \in IntTypes /\ call.bits \in Mantissas /\ call.nan \in BOOLEAN
          /\ ~call.nan => call.h \in Reals(call.bits)
      BY <2>1, <2>2, RealCallKinds
    <3>2. ConvReals
      BY <2>2 DEF NumbersNext, Add, Sub, Mul, ConvIntegers
    <3>3. CASE call.nan
      <4>1. answer' \in {Value(x) : x \in InType(call.to)}
        BY <3>2, <3>3 DEF ConvReals
      <4>. QED BY <4>1, <2>1, <3>3 DEF RealInv, ConvRealExact
    <3>4. CASE ~call.nan
      <4>1. answer' = ThrowsIf(RealRefused(call.to, call.bits, call.h), Truncate(call.h))
        BY <3>2, <3>4 DEF ConvReals
      <4>2. answer' = IF call.to.signed /\ call.to.m + 1 >= Power[call.bits] /\ call.h = 2 * Lowest(call.to) THEN Throws
                      ELSE Exact(Truncate(call.h), InType(call.to))
        BY <3>1, <3>4, <4>1, RealExact
      <4>. QED BY <4>2, <2>1, <3>4 DEF RealInv, ConvRealExact
    <3>. QED BY <3>1, <3>3, <3>4
  <2>3. CASE call.op # "convReal"
    BY <2>1, <2>3 DEF RealInv, ConvRealExact
  <2>. QED BY <2>2, <2>3
<1>3. RealInv => ConvRealExact
  BY DEF RealInv
<1>. QED BY <1>1, <1>2, <1>3, PTL DEF NumbersSpec

-----------------------------------------------------------------------------
(* Roots.                                                                  *)

Stop(i) == i.ptr + i.len

\* The array after std::sort: items of distinct places in ascending order.
SortedInv ==
  /\ \E n \in Nat : DOMAIN roots = 1..n /\ Len(roots) = n
  /\ \A k \in DOMAIN roots :
       roots[k].ptr \in Nat /\ roots[k].len \in Nat /\ 0 < roots[k].ptr /\ 0 < roots[k].len
  /\ \A k, l \in DOMAIN roots : k < l => Stop(roots[k]) <= roots[l].ptr

\* The ranges handed over are apart, and lie before the range in hand.
HandedInv ==
  /\ \A r \in handed : r.start \in Nat /\ r.end \in Nat /\ r.start < r.end
  /\ RangesApart
  /\ ~finished => \A r \in handed : start # 0 /\ r.end < start

\* The range in hand ends where or before the next item starts.
InHand(c) == start # 0 /\ ~finished /\ start <= c /\ c < end
Given(c) == \E r \in handed : r.start <= c /\ c < r.end
Taken(c) == \E k \in DOMAIN roots : k < next /\ roots[k].ptr <= c /\ c < Stop(roots[k])

LoopInv ==
  /\ next \in Nat /\ 1 <= next
  /\ start \in Nat /\ end \in Nat
  /\ start = 0 => next = 1
  /\ start # 0 => start < end
  /\ finished \in BOOLEAN /\ (finished => AtEnd)
  /\ ~finished /\ start # 0 => \A k \in DOMAIN roots : next <= k => end <= roots[k].ptr

CellsInv == \A c \in Nat : Given(c) \/ InHand(c) <=> Taken(c)

RInv == SortedInv /\ HandedInv /\ LoopInv /\ CellsInv

LEMMA InitRInv == RootsInit => RInv
<1>. SUFFICES ASSUME RootsInit PROVE RInv
  OBVIOUS
<1>1. PICK I \in ItemSets : roots \in Sorted(I)
  BY DEF RootsInit
<1>2. Cardinality(I) \in Nat
  BY <1>1, Distinct, FS_CardinalityType DEF ItemsAssumption
<1>3. DOMAIN roots = 1..Cardinality(I) /\ \A k \in DOMAIN roots : roots[k] \in I
  BY <1>1 DEF Sorted
<1>4. Len(roots) = Cardinality(I)
  BY <1>1, <1>2, <1>3, roots \in Seq(I) DEF Sorted
<1>5. \A k \in DOMAIN roots :
        roots[k].ptr \in Nat /\ roots[k].len \in Nat /\ 0 < roots[k].ptr /\ 0 < roots[k].len
  BY <1>3, Distinct DEF ItemsAssumption
<1>6. \A k, l \in DOMAIN roots : k < l => Stop(roots[k]) <= roots[l].ptr
  <2>. SUFFICES ASSUME NEW k \in DOMAIN roots, NEW l \in DOMAIN roots, k < l
                PROVE  Stop(roots[k]) <= roots[l].ptr
    OBVIOUS
  <2>1. roots[k].ptr < roots[l].ptr
    BY <1>1 DEF Sorted
  <2>2. roots[k] # roots[l]
    BY <2>1, <1>5
  <2>3. \/ roots[k].ptr + roots[k].len <= roots[l].ptr
        \/ roots[l].ptr + roots[l].len <= roots[k].ptr
    BY <2>2, <1>3, Distinct DEF ItemsAssumption
  <2>. QED BY <2>1, <2>3, <1>5 DEF Stop
<1>7. SortedInv
  BY <1>2, <1>3, <1>4, <1>5, <1>6 DEF SortedInv
<1>8. HandedInv /\ LoopInv
  <2>1. next = 1 /\ start = 0 /\ end = 0 /\ handed = {} /\ finished = FALSE
    BY DEF RootsInit
  <2>2. HandedInv
    BY <2>1 DEF HandedInv, RangesApart
  <2>3. LoopInv
    <3>1. next \in Nat /\ 1 <= next /\ start \in Nat /\ end \in Nat
      BY <2>1
    <3>2. finished \in BOOLEAN
      BY <2>1
    <3>. QED BY <2>1, <3>1, <3>2, Zenon DEF LoopInv
  <2>. QED BY <2>2, <2>3
<1>9. CellsInv
  BY <1>3, <1>2 DEF RootsInit, CellsInv, Given, InHand, Taken
<1>. QED BY <1>7, <1>8, <1>9 DEF RInv

\* A range handed over is added to the others and keeps its bounds.
LEMMA HandOver ==
  ASSUME AddRoots(start, end)
  PROVE  handed' = handed \cup {Extent(start, end)}
BY DEF AddRoots

LEMMA BeginKeeps == RInv /\ Begin => RInv'
<1>. SUFFICES ASSUME RInv, Begin PROVE RInv'
  OBVIOUS
<1>0. PICK n \in Nat : DOMAIN roots = 1..n /\ Len(roots) = n
  BY DEF RInv, SortedInv
<1>1. next \in 1..n /\ next' = next + 1 /\ roots' = roots /\ finished' = finished /\ finished = FALSE
  BY <1>0 DEF Begin, AtEnd, RInv, LoopInv
<1>2. start' = Current.ptr /\ end' = Stop(Current) /\ start' \in Nat /\ end' \in Nat
      /\ 0 < start' /\ start' < end'
  BY <1>0, <1>1 DEF Begin, Current, Stop, RInv, SortedInv
<1>3. start # 0 => end < start'
  BY <1>2 DEF Begin, Joins, RInv, LoopInv
<1>4. handed' = IF start # 0 THEN handed \cup {Extent(start, end)} ELSE handed
  BY HandOver DEF Begin
<1>5. start # 0 => Extent(start, end).start = start /\ Extent(start, end).end = end /\ start < end
  BY DEF Extent, RInv, LoopInv
<1>6. SortedInv'
  BY <1>1 DEF RInv, SortedInv, Stop
<1>7. HandedInv'
  <2>1. \A r \in handed : r.start \in Nat /\ r.end \in Nat /\ r.start < r.end /\ start # 0 /\ r.end < start
    BY <1>1 DEF RInv, HandedInv
  <2>2. \A r \in handed' : r.start \in Nat /\ r.end \in Nat /\ r.start < r.end /\ r.end < start'
    BY <2>1, <1>2, <1>3, <1>4, <1>5 DEF RInv, LoopInv
  <2>3. RangesApart'
    BY <2>1, <1>4, <1>5 DEF RInv, HandedInv, RangesApart
  <2>. QED BY <2>2, <2>3, <1>2 DEF HandedInv
<1>8. LoopInv'
  <2>1. \A k \in DOMAIN roots : next + 1 <= k => end' <= roots[k].ptr
    BY <1>0, <1>1, <1>2 DEF RInv, SortedInv, Current
  <2>2. finished' = FALSE /\ next' \in Nat /\ 1 <= next' /\ start' # 0 /\ roots' = roots
    BY <1>1, <1>2
  <2>. QED BY <2>1, <2>2, <1>1, <1>2 DEF LoopInv
<1>9. CellsInv'
  <2>. SUFFICES ASSUME NEW c \in Nat PROVE (Given(c) \/ InHand(c))' <=> Taken(c)'
    BY DEF CellsInv
  <2>1. Given(c)' <=> Given(c) \/ InHand(c)
    BY <1>1, <1>4, <1>5 DEF Given, InHand
  <2>2. InHand(c)' <=> Current.ptr <= c /\ c < Stop(Current)
    BY <1>1, <1>2 DEF InHand
  <2>3. Taken(c)' <=> Taken(c) \/ (Current.ptr <= c /\ c < Stop(Current))
    BY <1>0, <1>1 DEF Taken, Current, Stop
  <2>. QED BY <2>1, <2>2, <2>3 DEF RInv, CellsInv
<1>. QED BY <1>6, <1>7, <1>8, <1>9 DEF RInv

LEMMA ExtendKeeps == RInv /\ Extend => RInv'
<1>. SUFFICES ASSUME RInv, Extend PROVE RInv'
  OBVIOUS
<1>0. PICK n \in Nat : DOMAIN roots = 1..n /\ Len(roots) = n
  BY DEF RInv, SortedInv
<1>1. /\ next \in 1..n /\ next' = next + 1 /\ roots' = roots
      /\ finished' = finished /\ finished = FALSE /\ start' = start /\ handed' = handed
  BY <1>0 DEF Extend, AtEnd, RInv, LoopInv
<1>2. start # 0 /\ Current.ptr = end
  <2>1. end <= Current.ptr /\ Current.ptr \in Nat
    BY <1>0, <1>1 DEF Extend, Joins, RInv, LoopInv, SortedInv, Current
  <2>. QED BY <2>1 DEF Extend, Joins, RInv, LoopInv
<1>3. end' = Stop(Current) /\ end' \in Nat /\ end < end'
  BY <1>0, <1>1, <1>2 DEF Extend, Current, Stop, RInv, SortedInv
<1>6. SortedInv'
  BY <1>1 DEF RInv, SortedInv, Stop
<1>7. HandedInv'
  BY <1>1 DEF RInv, HandedInv, RangesApart
<1>8. LoopInv'
  <2>1. \A k \in DOMAIN roots : next + 1 <= k => end' <= roots[k].ptr
    BY <1>0, <1>1, <1>3 DEF RInv, SortedInv, Current
  <2>. QED BY <2>1, <1>1, <1>2, <1>3 DEF RInv, LoopInv, AtEnd
<1>9. CellsInv'
  <2>. SUFFICES ASSUME NEW c \in Nat PROVE (Given(c) \/ InHand(c))' <=> Taken(c)'
    BY DEF CellsInv
  <2>1. Given(c)' <=> Given(c)
    BY <1>1 DEF Given
  <2>2. InHand(c)' <=> InHand(c) \/ (Current.ptr <= c /\ c < Stop(Current))
    BY <1>1, <1>2, <1>3 DEF InHand, RInv, LoopInv
  <2>3. Taken(c)' <=> Taken(c) \/ (Current.ptr <= c /\ c < Stop(Current))
    BY <1>0, <1>1 DEF Taken, Current, Stop
  <2>. QED BY <2>1, <2>2, <2>3 DEF RInv, CellsInv
<1>. QED BY <1>6, <1>7, <1>8, <1>9 DEF RInv

LEMMA FinishKeeps == RInv /\ Finish => RInv'
<1>. SUFFICES ASSUME RInv, Finish PROVE RInv'
  OBVIOUS
<1>1. /\ next' = next /\ roots' = roots /\ start' = start /\ end' = end
      /\ finished = FALSE /\ finished' = TRUE /\ AtEnd
  BY DEF Finish, RInv, LoopInv
<1>4. handed' = IF start # 0 THEN handed \cup {Extent(start, end)} ELSE handed
  BY HandOver DEF Finish
<1>5. start # 0 => Extent(start, end).start = start /\ Extent(start, end).end = end /\ start < end
  BY DEF Extent, RInv, LoopInv
<1>6. SortedInv'
  BY <1>1 DEF RInv, SortedInv, Stop
<1>7. HandedInv'
  <2>1. \A r \in handed : r.start \in Nat /\ r.end \in Nat /\ r.start < r.end /\ start # 0 /\ r.end < start
    BY <1>1 DEF RInv, HandedInv
  <2>2. \A r \in handed' : r.start \in Nat /\ r.end \in Nat /\ r.start < r.end
    BY <2>1, <1>4, <1>5 DEF RInv, LoopInv
  <2>3. RangesApart'
    BY <2>1, <1>4, <1>5 DEF RInv, HandedInv, RangesApart
  <2>. QED BY <2>2, <2>3, <1>1 DEF HandedInv
<1>8. LoopInv'
  BY <1>1 DEF RInv, LoopInv, AtEnd
<1>9. CellsInv'
  <2>. SUFFICES ASSUME NEW c \in Nat PROVE (Given(c) \/ InHand(c))' <=> Taken(c)'
    BY DEF CellsInv
  <2>1. Given(c)' <=> Given(c) \/ InHand(c)
    BY <1>1, <1>4, <1>5 DEF Given, InHand
  <2>2. ~InHand(c)' /\ (Taken(c)' <=> Taken(c))
    BY <1>1 DEF InHand, Taken
  <2>. QED BY <2>1, <2>2 DEF RInv, CellsInv
<1>. QED BY <1>6, <1>7, <1>8, <1>9 DEF RInv

LEMMA RootsInvariant == RootsSpec => []RInv
<1>1. RInv /\ [RootsNext]_rootsVars => RInv'
  <2>. SUFFICES ASSUME RInv, [RootsNext]_rootsVars PROVE RInv'
    OBVIOUS
  <2>1. CASE UNCHANGED rootsVars
    BY <2>1 DEF rootsVars, RInv, SortedInv, HandedInv, RangesApart, LoopInv, AtEnd, CellsInv,
                Given, InHand, Taken
  <2>. QED BY <2>1, BeginKeeps, ExtendKeeps, FinishKeeps DEF RootsNext
<1>. QED BY <1>1, InitRInv, PTL DEF RootsSpec

\* il2cpp_CommitRoots gives the collector the static fields that were
\* registered, whole and nothing else.
THEOREM Handed == RootsSpec => []HandedIsRegistered
<1>1. RInv => HandedIsRegistered
  <2>. SUFFICES ASSUME RInv, finished
                PROVE  Covered(handed) = UNION {Place(roots[k]) : k \in DOMAIN roots}
    BY DEF HandedIsRegistered
  <2>0. PICK n \in Nat : DOMAIN roots = 1..n /\ Len(roots) = n
    BY DEF RInv, SortedInv
  <2>1. \A c \in Nat : Given(c) <=> \E k \in DOMAIN roots : roots[k].ptr <= c /\ c < Stop(roots[k])
    BY <2>0 DEF RInv, CellsInv, InHand, Taken, LoopInv, AtEnd
  <2>2. ASSUME NEW c PROVE c \in Covered(handed) <=> c \in Nat /\ Given(c)
    BY DEF Covered, Cells, Given, RInv, HandedInv
  <2>3. ASSUME NEW c
        PROVE  (\E k \in DOMAIN roots : c \in Place(roots[k])) <=>
               c \in Nat /\ \E k \in DOMAIN roots : roots[k].ptr <= c /\ c < Stop(roots[k])
    BY DEF Place, Stop, RInv, SortedInv
  <2>. QED BY <2>1, <2>2, <2>3
<1>. QED BY <1>1, RootsInvariant, PTL

\* In addition the ranges it gives never touch: the items that do are joined.
THEOREM HandedApart == RootsSpec => []RangesRight
<1>1. RInv /\ HandedIsRegistered => RangesRight
  BY DEF RInv, HandedInv, RangesRight
<1>. QED BY <1>1, Handed, RootsInvariant, PTL

-----------------------------------------------------------------------------
(* The table of the collector. Its entries grow, and one is deleted only   *)
(* when another has taken it in.                                           *)

Within(r, q) == q.start <= r.start /\ r.end <= q.end

Keeps(t, u) == \A a \in DOMAIN t : \E b \in DOMAIN u : Within(t[a], u[b])

Looking(s, k) ==
  /\ s = [t |-> s.t, i |-> s.i] /\ s.t \in Tables /\ s.i \in Nat
  /\ k \in DOMAIN s.t /\ k < s.i

LEMMA TableFacts ==
  ASSUME NEW t \in Tables
  PROVE  /\ Len(t) \in Nat /\ DOMAIN t = 1..Len(t)
         /\ \A a \in DOMAIN t : t[a] \in Extents /\ t[a].start \in Nat /\ t[a].end \in Nat
<1>1. /\ Len(t) \in Nat /\ DOMAIN t = 1..Len(t)
      /\ \A a \in DOMAIN t : t[a] \in Extents
  BY DEF Tables
<1>. QED BY <1>1 DEF Extents

LEMMA LeastIndex ==
  ASSUME NEW t \in Tables, NEW S \in SUBSET DOMAIN t, S # {}
  PROVE  Min(S) \in S /\ Max(S) \in S
<1>1. PICK n \in Nat : DOMAIN t = 1..n
  BY DEF Tables
<1>2. Min(S) \in S
  <2>1. \E x \in S : \A y \in S : x <= y
    BY <1>1, LeastNumber
  <2>. QED BY <2>1 DEF Min
<1>3. Max(S) \in S
  <2>. DEFINE D == {n - x : x \in S}
  <2>1. D \subseteq Nat /\ D # {}
    BY <1>1
  <2>2. PICK d \in D : \A c \in D : d <= c
    <3>. HIDE DEF D
    <3>. QED BY <2>1, LeastNumber
  <2>3. PICK x \in S : d = n - x
    OBVIOUS
  <2>4. \A y \in S : x >= y
    <3>1. \A y \in S : d <= n - y
      BY <2>2
    <3>. QED BY <3>1, <2>3, <1>1
  <2>. QED BY <2>4 DEF Max
<1>. QED BY <1>2, <1>3

LEMMA KeepsIsPreorder ==
  /\ \A t \in Tables : Keeps(t, t)
  /\ \A t, u, v \in Tables : Keeps(t, u) /\ Keeps(u, v) => Keeps(t, v)
<1>1. \A t \in Tables : \A a \in DOMAIN t : t[a].start \in Nat /\ t[a].end \in Nat
  BY TableFacts
<1>2. ASSUME NEW t \in Tables PROVE Keeps(t, t)
  BY <1>1 DEF Keeps, Within
<1>3. ASSUME NEW t \in Tables, NEW u \in Tables, NEW v \in Tables, Keeps(t, u), Keeps(u, v)
      PROVE  Keeps(t, v)
  <2>. SUFFICES ASSUME NEW a \in DOMAIN t PROVE \E c \in DOMAIN v : Within(t[a], v[c])
    BY DEF Keeps
  <2>1. PICK b \in DOMAIN u : Within(t[a], u[b])
    BY <1>3 DEF Keeps
  <2>2. PICK c \in DOMAIN v : Within(u[b], v[c])
    BY <1>3 DEF Keeps
  <2>. QED BY <2>1, <2>2, <1>1 DEF Within
<1>. QED BY <1>2, <1>3

\* A range that is joined with another holds both.
LEMMA JoinedHolds ==
  ASSUME NEW r \in Extents, NEW b \in Nat, NEW e \in Nat
  PROVE  /\ Joined(r, b, e) \in Extents
         /\ Within(r, Joined(r, b, e)) /\ Within(Extent(b, e), Joined(r, b, e))
BY DEF Joined, Extent, Extents, Within

LEMMA EntryGrows ==
  ASSUME NEW t \in Tables, NEW k \in DOMAIN t, NEW r \in Extents, Within(t[k], r)
  PROVE  /\ [t EXCEPT ![k] = r] \in Tables
         /\ DOMAIN [t EXCEPT ![k] = r] = DOMAIN t /\ Len([t EXCEPT ![k] = r]) = Len(t)
         /\ Keeps(t, [t EXCEPT ![k] = r])
<1>1. /\ [t EXCEPT ![k] = r] \in Tables /\ DOMAIN [t EXCEPT ![k] = r] = DOMAIN t
      /\ Len([t EXCEPT ![k] = r]) = Len(t)
  BY DEF Tables
<1>2. \A a \in DOMAIN t : t[a].start \in Nat /\ t[a].end \in Nat
  BY TableFacts
<1>3. ASSUME NEW a \in DOMAIN t PROVE Within(t[a], [t EXCEPT ![k] = r][a])
  <2>1. CASE a = k
    BY <2>1
  <2>2. CASE a # k
    BY <2>2, <1>2 DEF Within
  <2>. QED BY <2>1, <2>2
<1>. QED BY <1>1, <1>3 DEF Keeps

\* An entry that another holds may be deleted.
LEMMA MovedKeeps ==
  ASSUME NEW t \in Tables, NEW k \in DOMAIN t, NEW i \in DOMAIN t, k < i, Within(t[i], t[k])
  PROVE  Moved(t, i) \in Tables /\ k \in DOMAIN Moved(t, i) /\ Keeps(t, Moved(t, i))
<1>1. PICK n \in Nat : n = Len(t)
  BY DEF Tables
<1>2. DOMAIN t = 1..n /\ n \in DOMAIN t /\ n - 1 \in Nat /\ k \in 1..(n - 1)
  BY <1>1 DEF Tables
<1>3. PICK q : q = [t EXCEPT ![i] = t[n]]
  OBVIOUS
<1>4. /\ q \in Tables /\ Len(q) = n /\ q[i] = t[n]
      /\ \A a \in 1..n : a # i => q[a] = t[a]
  BY <1>1, <1>2, <1>3 DEF Tables
<1>5. Moved(t, i) = SubSeq(q, 1, n - 1)
  BY <1>1, <1>3 DEF Moved
<1>6. /\ Moved(t, i) \in Tables /\ DOMAIN Moved(t, i) = 1..(n - 1)
      /\ \A a \in 1..(n - 1) : Moved(t, i)[a] = q[a]
  BY <1>2, <1>4, <1>5 DEF Tables
<1>7. \A a \in 1..n : t[a].start \in Nat /\ t[a].end \in Nat
  BY <1>2, TableFacts
<1>8. Moved(t, i)[k] = t[k]
  BY <1>2, <1>4, <1>6
<1>9. ASSUME NEW a \in 1..n PROVE \E b \in 1..(n - 1) : Within(t[a], Moved(t, i)[b])
  <2>1. CASE a = i
    BY <2>1, <1>2, <1>8
  <2>2. CASE a # i /\ a # n
    <3>1. a \in 1..(n - 1) /\ Moved(t, i)[a] = t[a]
      BY <2>2, <1>4, <1>6
    <3>. QED BY <3>1, <1>7 DEF Within
  <2>3. CASE a # i /\ a = n
    <3>1. i \in 1..(n - 1) /\ Moved(t, i)[i] = t[a]
      BY <2>3, <1>2, <1>4, <1>6
    <3>. QED BY <3>1, <1>7 DEF Within
  <2>. QED BY <2>1, <2>2, <2>3
<1>. QED BY <1>2, <1>6, <1>9 DEF Keeps

LEMMA LookKeeps ==
  ASSUME NEW s, NEW k, Looking(s, k)
  PROVE  Looking(Look(s, k), k) /\ Keeps(s.t, Look(s, k).t)
<1>1. s.t \in Tables /\ s.i \in Nat /\ k \in DOMAIN s.t /\ k < s.i /\ s = [t |-> s.t, i |-> s.i]
  BY DEF Looking
<1>2. CASE s.i > Len(s.t)
  <2>1. Look(s, k) = s
    BY <1>2 DEF Look
  <2>. QED BY <2>1, <1>1, KeepsIsPreorder
<1>3. CASE ~(s.i > Len(s.t))
  <2>1. PICK r : r = s.t[s.i]
    OBVIOUS
  <2>2. PICK t : t = [s.t EXCEPT ![k] = Joined(s.t[k], r.start, r.end)]
    OBVIOUS
  <2>3. Look(s, k) = IF Touches(r.start, r.end, s.t[k])
                     THEN [t |-> Moved(t, s.i), i |-> s.i + 1]
                     ELSE [s EXCEPT !.i = s.i + 1]
    BY <1>3, <2>1, <2>2 DEF Look
  <2>4. CASE Touches(r.start, r.end, s.t[k])
    <3>1. s.i \in DOMAIN s.t /\ k \in Nat
      BY <1>1, <1>3 DEF Tables
    <3>2. r \in Extents /\ s.t[k] \in Extents
      BY <3>1, <1>1, <2>1, TableFacts
    <3>3. PICK j : j = Joined(s.t[k], r.start, r.end)
      OBVIOUS
    <3>4. j \in Extents /\ Within(s.t[k], j) /\ Within(r, j)
      <4>1. r.start \in Nat /\ r.end \in Nat /\ Extent(r.start, r.end) = r
        BY <3>2 DEF Extent, Extents
      <4>. QED BY <4>1, <3>2, <3>3, JoinedHolds
    <3>5. t = [s.t EXCEPT ![k] = j]
      BY <2>2, <3>3
    <3>6. t \in Tables /\ DOMAIN t = DOMAIN s.t /\ Keeps(s.t, t)
      BY <3>4, <3>5, <1>1, EntryGrows
    <3>7. t[k] = j /\ t[s.i] = r
      BY <3>1, <3>5, <1>1, <2>1
    <3>8. Moved(t, s.i) \in Tables /\ k \in DOMAIN Moved(t, s.i) /\ Keeps(t, Moved(t, s.i))
      BY <3>1, <3>4, <3>6, <3>7, <1>1, MovedKeeps
    <3>9. Look(s, k) = [t |-> Moved(t, s.i), i |-> s.i + 1]
      BY <2>3, <2>4
    <3>10. Keeps(s.t, Moved(t, s.i))
      BY <3>6, <3>8, <1>1, KeepsIsPreorder
    <3>11. Looking(Look(s, k), k)
      BY <3>1, <3>8, <3>9, <1>1 DEF Looking
    <3>. QED BY <3>9, <3>10, <3>11
  <2>5. CASE ~Touches(r.start, r.end, s.t[k])
    <3>1. Look(s, k) = [t |-> s.t, i |-> s.i + 1]
      BY <2>3, <2>5, <1>1
    <3>2. k \in Nat
      BY <1>1 DEF Tables
    <3>. QED BY <3>1, <3>2, <1>1, KeepsIsPreorder DEF Looking
  <2>. QED BY <2>4, <2>5
<1>. QED BY <1>2, <1>3

IsRun(f, m, s, k) == f = [n \in 0..m |-> IF n = 0 THEN s ELSE Look(f[n - 1], k)]

\* The loop as a function: one for each number of turns, by the least number
\* of turns for which there is none.
LEMMA RunExists ==
  ASSUME NEW L \in Nat, NEW s, NEW k
  PROVE  \E f : IsRun(f, L, s, k)
<1>. DEFINE Run(f, m) == f = [n \in 0..m |-> IF n = 0 THEN s ELSE Look(f[n - 1], k)]
            Without == {m \in Nat : ~ \E f : Run(f, m)}
<1>1. ASSUME Without # {} PROVE FALSE
  <2>1. PICK m \in Without : \A x \in Without : m <= x
    <3>1. Without \subseteq Nat
      OBVIOUS
    <3>. HIDE DEF Without
    <3>. QED BY <3>1, <1>1, LeastNumber
  <2>2. m \in Nat /\ ~ \E f : Run(f, m)
    OBVIOUS
  <2>3. CASE m = 0
    <3>1. PICK f : f = [n \in 0..0 |-> s]
      OBVIOUS
    <3>2. Run(f, 0)
      BY <3>1
    <3>. QED BY <3>2, <2>2, <2>3
  <2>4. CASE m # 0
    <3>1. m - 1 \in Nat /\ m - 1 \notin Without
      BY <2>1, <2>2, <2>4
    <3>2. PICK f : Run(f, m - 1)
      BY <3>1
    <3>3. PICK g : g = [n \in 0..m |-> IF n = m THEN Look(f[m - 1], k) ELSE f[n]]
      OBVIOUS
    <3>4. ASSUME NEW n \in 0..m PROVE g[n] = IF n = 0 THEN s ELSE Look(g[n - 1], k)
      <4>1. CASE n = m
        <5>1. m - 1 \in 0..m /\ m - 1 # m /\ n # 0
          BY <2>2, <2>4, <4>1
        <5>2. g[m - 1] = f[m - 1]
          BY <5>1, <3>3
        <5>. QED BY <5>1, <5>2, <4>1, <3>3
      <4>2. CASE n # m
        <5>1. n \in 0..(m - 1) /\ g[n] = f[n]
          BY <4>2, <3>3, <2>2
        <5>2. f[n] = IF n = 0 THEN s ELSE Look(f[n - 1], k)
          BY <5>1, <3>2
        <5>3. n # 0 => n - 1 \in 0..m /\ n - 1 # m /\ g[n - 1] = f[n - 1]
          BY <3>3, <2>2
        <5>. QED BY <5>1, <5>2, <5>3
      <4>. QED BY <4>1, <4>2
    <3>5. g = [n \in 0..m |-> g[n]]
      BY <3>3
    <3>6. Run(g, m)
      BY <3>4, <3>5
    <3>. QED BY <3>6, <2>2
  <2>. QED BY <2>3, <2>4
<1>2. PICK f : Run(f, L)
  BY <1>1
<1>. QED BY <1>2 DEF IsRun

LEMMA TakeInKeeps ==
  ASSUME NEW t \in Tables, NEW k \in DOMAIN t
  PROVE  TakeIn(t, k) \in Tables /\ Keeps(t, TakeIn(t, k))
<1>1. PICK L \in Nat : L = Len(t) /\ DOMAIN t = 1..L
  BY DEF Tables
<1>2. PICK s : s = [t |-> t, i |-> k + 1]
  OBVIOUS
<1>3. Looking(s, k) /\ Keeps(t, s.t)
  BY <1>1, <1>2, KeepsIsPreorder DEF Looking
<1>4. \E f : IsRun(f, L, s, k)
  BY RunExists
<1>5. PICK f : f = CHOOSE g : IsRun(g, L, s, k)
  OBVIOUS
<1>6. IsRun(f, L, s, k)
  BY <1>4, <1>5
<1>7. TakeIn(t, k) = f[L].t
  BY <1>1, <1>2, <1>5 DEF TakeIn, IsRun
<1>. DEFINE Bad == {n \in 0..L : ~(Looking(f[n], k) /\ Keeps(t, f[n].t))}
<1>8. Bad = {}
  <2>. SUFFICES ASSUME Bad # {} PROVE FALSE
    OBVIOUS
  <2>1. PICK m \in Bad : \A n \in Bad : m <= n
    <3>1. Bad \subseteq Nat
      OBVIOUS
    <3>. HIDE DEF Bad
    <3>. QED BY <3>1, LeastNumber
  <2>2. m \in 0..L /\ m \in Nat
    OBVIOUS
  <2>3. CASE m = 0
    <3>1. f[0] = s
      BY <1>6, <2>2, <2>3 DEF IsRun
    <3>. QED BY <3>1, <1>3, <2>1, <2>3
  <2>4. CASE m # 0
    <3>1. m - 1 \in 0..L /\ m - 1 \notin Bad
      BY <2>1, <2>2, <2>4
    <3>2. Looking(f[m - 1], k) /\ Keeps(t, f[m - 1].t)
      BY <3>1
    <3>3. f[m] = Look(f[m - 1], k)
      BY <1>6, <2>2, <2>4 DEF IsRun
    <3>4. Looking(f[m], k) /\ Keeps(f[m - 1].t, f[m].t)
      BY <3>2, <3>3, LookKeeps
    <3>5. Keeps(t, f[m].t)
      BY <3>2, <3>4, KeepsIsPreorder DEF Looking
    <3>. QED BY <3>4, <3>5, <2>1
  <2>. QED BY <2>3, <2>4
<1>9. Looking(f[L], k) /\ Keeps(t, f[L].t)
  BY <1>8
<1>. QED BY <1>7, <1>9 DEF Looking

LEMMA AddKeeps ==
  ASSUME NEW t \in Tables, NEW b \in Nat, NEW e \in Nat,
         NEW u, u = AddWindows(t, b, e) \/ u = AddElsewhere(t, b, e)
  PROVE  /\ u \in Tables /\ Keeps(t, u)
         /\ \E c \in DOMAIN u : Within(Extent(b, e), u[c])
<1>1. PICK n \in Nat : n = Len(t) /\ DOMAIN t = 1..n
  BY DEF Tables
<1>2. /\ Extent(b, e) \in Extents /\ Within(Extent(b, e), Extent(b, e))
      /\ \A a \in 1..n : t[a] \in Extents
  BY <1>1, TableFacts DEF Extent, Extents, Within
<1>3. CASE u = Append(t, Extent(b, e))
  <2>1. /\ u \in Tables /\ DOMAIN u = 1..(n + 1) /\ u[n + 1] = Extent(b, e)
        /\ \A a \in 1..n : u[a] = t[a]
    BY <1>1, <1>2, <1>3 DEF Tables
  <2>2. \A a \in 1..n : a \in 1..(n + 1) /\ Within(t[a], u[a])
    BY <1>1, <2>1, TableFacts DEF Within
  <2>. QED BY <2>1, <2>2, <1>1, <1>2 DEF Keeps
<1>4. ASSUME NEW S \in SUBSET DOMAIN t, S # {}, u = TakeIn([t EXCEPT ![Min(S)] = Joined(t[Min(S)], b, e)], Min(S))
      PROVE  /\ u \in Tables /\ Keeps(t, u)
             /\ \E c \in DOMAIN u : Within(Extent(b, e), u[c])
  <2>1. PICK k \in DOMAIN t : k = Min(S)
    BY <1>4, LeastIndex
  <2>2. PICK r : r = Joined(t[k], b, e)
    OBVIOUS
  <2>3. r \in Extents /\ Within(t[k], r) /\ Within(Extent(b, e), r)
    BY <2>2, <1>1, <1>2, JoinedHolds
  <2>4. PICK q : q = [t EXCEPT ![k] = r]
    OBVIOUS
  <2>5. q \in Tables /\ DOMAIN q = DOMAIN t /\ Keeps(t, q) /\ q[k] = r
    BY <2>3, <2>4, EntryGrows
  <2>6. u = TakeIn(q, k)
    BY <1>4, <2>1, <2>2, <2>4
  <2>7. u \in Tables /\ Keeps(q, u)
    BY <2>5, <2>6, TakeInKeeps
  <2>8. Keeps(t, u)
    BY <2>5, <2>7, KeepsIsPreorder
  <2>9. PICK c \in DOMAIN u : Within(r, u[c])
    BY <2>5, <2>7 DEF Keeps
  <2>10. u[c].start \in Nat /\ u[c].end \in Nat
    BY <2>7, TableFacts
  <2>11. Within(Extent(b, e), u[c])
    BY <2>3, <2>9, <2>10 DEF Within, Extent, Extents
  <2>. QED BY <2>7, <2>8, <2>11
<1>5. ASSUME NEW S \in SUBSET DOMAIN t, S # {}, \A i \in S : t[i].start = b,
             u = [t EXCEPT ![Max(S)] = Extent(b, IF e > t[Max(S)].end THEN e ELSE t[Max(S)].end)]
      PROVE  /\ u \in Tables /\ Keeps(t, u)
             /\ \E c \in DOMAIN u : Within(Extent(b, e), u[c])
  <2>1. PICK k \in S : k = Max(S)
    BY <1>5, LeastIndex
  <2>2. PICK r : r = Extent(b, IF e > t[k].end THEN e ELSE t[k].end)
    OBVIOUS
  <2>3. r \in Extents /\ Within(t[k], r) /\ Within(Extent(b, e), r)
    BY <2>1, <2>2, <1>1, <1>5, TableFacts DEF Extent, Extents, Within
  <2>4. u = [t EXCEPT ![k] = r]
    BY <1>5, <2>1, <2>2
  <2>5. u \in Tables /\ DOMAIN u = DOMAIN t /\ Keeps(t, u) /\ u[k] = r
    BY <2>3, <2>4, EntryGrows
  <2>. QED BY <2>3, <2>5
<1>6. PICK W : W = {i \in DOMAIN t : Touches(b, e, t[i])}
  OBVIOUS
<1>7. PICK S : S = {i \in DOMAIN t : t[i].start = b}
  OBVIOUS
<1>8. CASE u = AddWindows(t, b, e)
  <2>1. u = IF W = {} THEN Append(t, Extent(b, e))
            ELSE TakeIn([t EXCEPT ![Min(W)] = Joined(t[Min(W)], b, e)], Min(W))
    BY <1>6, <1>8 DEF AddWindows
  <2>. QED BY <2>1, <1>3, <1>4, <1>6
<1>9. CASE u = AddElsewhere(t, b, e)
  <2>1. u = IF S = {} THEN Append(t, Extent(b, e))
            ELSE [t EXCEPT ![Max(S)] = Extent(b, IF e > t[Max(S)].end THEN e ELSE t[Max(S)].end)]
    BY <1>7, <1>9 DEF AddElsewhere
  <2>. QED BY <2>1, <1>3, <1>5, <1>7
<1>. QED BY <1>8, <1>9

\* A whole word of a range is within what is left of the range when its ends
\* are rounded to words.
LEMMA WordInside ==
  ASSUME NEW n \in Nat, NEW b \in Nat, NEW e \in Nat, b <= n * Word, n * Word + Word <= e
  PROVE  /\ RoundUp(b) <= n * Word /\ n * Word + Word <= RoundDown(e)
<1>0. Word \in Nat /\ Word > 0 /\ n * Word \in Nat /\ (n + 1) * Word = n * Word + Word
  BY WordAssumption
<1>1. RoundUp(b) <= n * Word
  <2>1. PICK q : q = (b + Word - 1) \div Word
    OBVIOUS
  <2>2. b + Word - 1 \in Nat
    BY <1>0
  <2>3. q \in Nat /\ q * Word <= b + Word - 1
    BY <2>1, <2>2, <1>0, DivFacts
  <2>4. q <= n
    <3>1. ASSUME n + 1 <= q PROVE FALSE
      <4>1. (n + 1) * Word <= q * Word /\ q * Word \in Int
        BY <3>1, <2>3, <1>0, Monotone
      <4>. QED BY <4>1, <2>3, <1>0
    <3>. QED BY <3>1, <2>3
  <2>5. q * Word <= n * Word
    BY <2>3, <2>4, <1>0, Monotone
  <2>. QED BY <2>1, <2>5 DEF RoundUp
<1>2. n * Word + Word <= RoundDown(e)
  <2>1. PICK q : q = e \div Word
    OBVIOUS
  <2>2. q \in Nat /\ e < q * Word + Word
    BY <2>1, <1>0, DivFacts
  <2>3. n + 1 <= q
    <3>1. ASSUME q <= n PROVE FALSE
      <4>1. q * Word <= n * Word /\ q * Word \in Int
        BY <3>1, <2>2, <1>0, Monotone
      <4>. QED BY <4>1, <2>2, <1>0
    <3>. QED BY <3>1, <2>2
  <2>4. (n + 1) * Word <= q * Word
    BY <2>2, <2>3, <1>0, Monotone
  <2>. QED BY <2>1, <2>4, <1>0 DEF RoundDown
<1>. QED BY <1>1, <1>2

\* What has been handed over is in the table, in whole words, and each item the
\* loop has passed is in one range.
Scanned(r) ==
  RoundUp(r.start) < RoundDown(r.end) =>
    \E t \in DOMAIN table : Within(Extent(RoundUp(r.start), RoundDown(r.end)), table[t])

TableInv == table \in Tables /\ \A r \in handed : Scanned(r)

Home(i) == \/ \E r \in handed : r.start <= i.ptr /\ Stop(i) <= r.end
           \/ start # 0 /\ ~finished /\ start <= i.ptr /\ Stop(i) <= end

HomeInv == \A k \in DOMAIN roots : k < next => Home(roots[k])

WordInv == TableInv /\ HomeInv

LEMMA Rounded == \A a \in Nat : RoundUp(a) \in Nat /\ RoundDown(a) \in Nat
<1>. SUFFICES ASSUME NEW a \in Nat PROVE RoundUp(a) \in Nat /\ RoundDown(a) \in Nat
  OBVIOUS
<1>1. Word \in Nat /\ Word > 0 /\ a + Word - 1 \in Nat
  BY WordAssumption
<1>2. PICK p, q \in Nat : p = (a + Word - 1) \div Word /\ q = a \div Word
  BY <1>1, DivFacts
<1>3. p * Word \in Nat /\ q * Word \in Nat
  BY <1>1
<1>. QED BY <1>2, <1>3 DEF RoundUp, RoundDown

LEMMA TableKeeps ==
  ASSUME TableInv, start \in Nat, end \in Nat,
         \A r \in handed : r.start \in Nat /\ r.end \in Nat,
         AddRoots(start, end) \/ UNCHANGED <<handed, table>>
  PROVE  TableInv'
<1>1. CASE UNCHANGED <<handed, table>>
  BY <1>1 DEF TableInv, Scanned
<1>2. CASE AddRoots(start, end)
  <2>1. PICK b, e \in Nat : b = RoundUp(start) /\ e = RoundDown(end)
    BY Rounded
  <2>0. PICK x : x = Extent(start, end)
    OBVIOUS
  <2>2. /\ handed' = handed \cup {x}
        /\ table' = IF b >= e THEN table
                    ELSE IF windows THEN AddWindows(table, b, e) ELSE AddElsewhere(table, b, e)
    BY <1>2, <2>0, <2>1 DEF AddRoots
  <2>3. table \in Tables
    BY DEF TableInv
  <2>4. table' \in Tables /\ Keeps(table, table')
    BY <2>2, <2>3, AddKeeps, KeepsIsPreorder
  <2>5. b < e => \E t \in DOMAIN table' : Within(Extent(b, e), table'[t])
    BY <2>2, <2>3, AddKeeps
  <2>6. Scanned(x)'
    <3>1. x.start = start /\ x.end = end
      BY <2>0 DEF Extent
    <3>. QED BY <3>1, <2>1, <2>5 DEF Scanned
  <2>7. ASSUME NEW r \in handed, Scanned(r) PROVE Scanned(r)'
    <3>. SUFFICES ASSUME RoundUp(r.start) < RoundDown(r.end)
                  PROVE  \E t \in DOMAIN table' : Within(Extent(RoundUp(r.start), RoundDown(r.end)), table'[t])
      BY DEF Scanned
    <3>1. PICK c, d \in Nat : c = RoundUp(r.start) /\ d = RoundDown(r.end)
      BY Rounded
    <3>2. PICK t \in DOMAIN table : Within(Extent(c, d), table[t])
      BY <2>7, <3>1 DEF Scanned
    <3>3. PICK u \in DOMAIN table' : Within(table[t], table'[u])
      BY <2>4 DEF Keeps
    <3>4. /\ table[t].start \in Nat /\ table[t].end \in Nat
          /\ table'[u].start \in Nat /\ table'[u].end \in Nat
      BY <2>3, <2>4, TableFacts
    <3>5. Within(Extent(c, d), table'[u])
      BY <3>2, <3>3, <3>4 DEF Within, Extent
    <3>. QED BY <3>1, <3>5
  <2>8. \A r \in handed' : Scanned(r)'
    BY <2>2, <2>6, <2>7 DEF TableInv
  <2>. QED BY <2>4, <2>8 DEF TableInv
<1>. QED BY <1>1, <1>2

LEMMA BeginWords == ASSUME RInv, WordInv, Begin PROVE WordInv'
<1>0. PICK n \in Nat : DOMAIN roots = 1..n /\ Len(roots) = n
  BY DEF RInv, SortedInv
<1>1. next \in 1..n /\ next' = next + 1 /\ roots' = roots /\ finished' = finished /\ finished = FALSE
  BY <1>0 DEF Begin, AtEnd, RInv, LoopInv
<1>2. start' = Current.ptr /\ end' = Stop(Current) /\ start' # 0 /\ start' \in Nat /\ end' \in Nat
  BY <1>0, <1>1 DEF Begin, Current, Stop, RInv, SortedInv
<1>3. handed' = IF start # 0 THEN handed \cup {Extent(start, end)} ELSE handed
  BY HandOver DEF Begin
<1>4. TableInv'
  BY TableKeeps DEF Begin, WordInv, RInv, LoopInv, HandedInv
<1>5. ASSUME NEW k \in 1..n, k < next' PROVE Home(roots[k])'
  <2>1. CASE k = next
    BY <2>1, <1>1, <1>2 DEF Home, Current, Stop
  <2>2. CASE k # next
    <3>1. Home(roots[k])
      BY <2>2, <1>0, <1>1, <1>5 DEF WordInv, HomeInv
    <3>2. CASE \E r \in handed : r.start <= roots[k].ptr /\ Stop(roots[k]) <= r.end
      BY <3>2, <1>1, <1>3 DEF Home, Stop
    <3>3. CASE start # 0 /\ start <= roots[k].ptr /\ Stop(roots[k]) <= end
      <4>1. Extent(start, end) \in handed' /\ Extent(start, end).start = start /\ Extent(start, end).end = end
        BY <3>3, <1>3 DEF Extent
      <4>. QED BY <4>1, <3>3, <1>1 DEF Home, Stop
    <3>. QED BY <3>1, <3>2, <3>3 DEF Home
  <2>. QED BY <2>1, <2>2
<1>6. HomeInv'
  <2>1. \A i : Stop(i)' = Stop(i)
    BY DEF Stop
  <2>. QED BY <2>1, <1>0, <1>1, <1>5 DEF HomeInv, Home
<1>. QED BY <1>4, <1>6 DEF WordInv

LEMMA ExtendWords == ASSUME RInv, WordInv, Extend PROVE WordInv'
<1>0. PICK n \in Nat : DOMAIN roots = 1..n /\ Len(roots) = n
  BY DEF RInv, SortedInv
<1>1. /\ next \in 1..n /\ next' = next + 1 /\ roots' = roots
      /\ finished' = finished /\ finished = FALSE /\ start' = start /\ handed' = handed /\ table' = table
  BY <1>0 DEF Extend, AtEnd, RInv, LoopInv
<1>2. /\ start # 0 /\ start \in Nat /\ end \in Nat /\ start < end /\ Current.ptr = end
      /\ Current.len \in Nat /\ end' = end + Current.len
  <2>1. /\ start # 0 /\ start \in Nat /\ end \in Nat /\ start < end /\ end <= Current.ptr /\ Current.ptr <= end
        /\ Current.ptr \in Nat /\ Current.len \in Nat /\ end' = end + Current.len
    BY <1>0, <1>1 DEF Extend, Joins, RInv, LoopInv, SortedInv, Current
  <2>. QED BY <2>1
<1>3. TableInv'
  BY <1>1 DEF WordInv, TableInv, Scanned
<1>4. ASSUME NEW k \in 1..n, k < next' PROVE Home(roots[k])'
  <2>1. CASE k = next
    BY <2>1, <1>1, <1>2 DEF Home, Current, Stop
  <2>2. CASE k # next
    <3>1. Home(roots[k]) /\ roots[k].ptr \in Nat /\ roots[k].len \in Nat
      BY <2>2, <1>0, <1>1, <1>4 DEF WordInv, HomeInv, RInv, SortedInv
    <3>. QED BY <3>1, <1>1, <1>2 DEF Home, Stop
  <2>. QED BY <2>1, <2>2
<1>5. HomeInv'
  <2>1. \A i : Stop(i)' = Stop(i)
    BY DEF Stop
  <2>. QED BY <2>1, <1>0, <1>1, <1>4 DEF HomeInv, Home
<1>. QED BY <1>3, <1>5 DEF WordInv

LEMMA FinishWords == ASSUME RInv, WordInv, Finish PROVE WordInv'
<1>1. next' = next /\ roots' = roots /\ finished = FALSE
  BY DEF Finish, RInv, LoopInv
<1>2. handed' = IF start # 0 THEN handed \cup {Extent(start, end)} ELSE handed
  BY HandOver DEF Finish
<1>3. TableInv'
  BY TableKeeps DEF Finish, WordInv, RInv, LoopInv, HandedInv
<1>4. ASSUME NEW k \in DOMAIN roots, k < next
      PROVE  \E r \in handed' : r.start <= roots[k].ptr /\ Stop(roots[k]) <= r.end
  <2>1. Home(roots[k])
    BY <1>4 DEF WordInv, HomeInv
  <2>2. CASE start # 0 /\ start <= roots[k].ptr /\ Stop(roots[k]) <= end
    <3>1. Extent(start, end) \in handed' /\ Extent(start, end).start = start /\ Extent(start, end).end = end
      BY <2>2, <1>2 DEF Extent
    <3>. QED BY <3>1, <2>2
  <2>. QED BY <2>1, <2>2, <1>2 DEF Home
<1>5. HomeInv'
  <2>1. \A i : Stop(i)' = Stop(i)
    BY DEF Stop
  <2>. QED BY <2>1, <1>1, <1>4 DEF HomeInv, Home
<1>. QED BY <1>3, <1>5 DEF WordInv

LEMMA WordsInvariant == RootsSpec => [](RInv /\ WordInv)
<1>1. RootsInit => WordInv
  <2>. SUFFICES ASSUME RootsInit PROVE WordInv
    OBVIOUS
  <2>1. table \in Tables /\ handed = {}
    BY SegmentsAssumption DEF RootsInit
  <2>2. next = 1 /\ \A k \in DOMAIN roots : ~(k < 1)
    BY InitRInv DEF RootsInit, RInv, SortedInv
  <2>. QED BY <2>1, <2>2 DEF WordInv, TableInv, HomeInv
<1>2. RInv /\ WordInv /\ [RootsNext]_rootsVars => WordInv'
  <2>. SUFFICES ASSUME RInv, WordInv, [RootsNext]_rootsVars PROVE WordInv'
    OBVIOUS
  <2>1. CASE UNCHANGED rootsVars
    <3>1. /\ roots' = roots /\ next' = next /\ start' = start /\ end' = end /\ handed' = handed
          /\ finished' = finished /\ table' = table
      BY <2>1 DEF rootsVars
    <3>. QED BY <3>1 DEF WordInv, TableInv, Scanned, HomeInv, Home, Stop
  <2>. QED BY <2>1, BeginWords, ExtendWords, FinishWords DEF RootsNext
<1>. QED BY <1>1, <1>2, RootsInvariant, PTL DEF RootsSpec

\* Every word of a static field is within one entry of the collector's table,
\* on both platforms, whatever the table held before.
THEOREM ScannedWhole == RootsSpec => []WordsScanned
<1>1. RInv /\ WordInv => WordsScanned
  <2>. SUFFICES ASSUME RInv, WordInv, finished, NEW k \in DOMAIN roots,
                       NEW n \in 0..(roots[k].ptr + roots[k].len),
                       (n * Word)..(n * Word + Word - 1) \subseteq Place(roots[k])
                PROVE  \E t \in DOMAIN table : (n * Word)..(n * Word + Word - 1) \subseteq Cells(table[t])
    BY DEF WordsScanned
  <2>1. roots[k].ptr \in Nat /\ roots[k].len \in Nat /\ n \in Nat /\ Word \in Nat /\ Word > 0
    BY WordAssumption DEF RInv, SortedInv
  <2>2. PICK w \in Nat : w = n * Word
    BY <2>1
  <2>3. roots[k].ptr <= w /\ w + Word <= roots[k].ptr + roots[k].len
    <3>1. w \in w..(w + Word - 1) /\ w + Word - 1 \in w..(w + Word - 1)
      BY <2>1, <2>2
    <3>2. w \in Place(roots[k]) /\ w + Word - 1 \in Place(roots[k])
      BY <3>1, <2>2
    <3>. QED BY <3>2, <2>1, <2>2 DEF Place
  <2>4. PICK r \in handed : r.start <= roots[k].ptr /\ Stop(roots[k]) <= r.end
    <3>1. k < next
      BY DEF RInv, SortedInv, LoopInv, AtEnd
    <3>. QED BY <3>1 DEF WordInv, HomeInv, Home
  <2>5. r.start \in Nat /\ r.end \in Nat /\ r.start <= w /\ w + Word <= r.end
    BY <2>1, <2>3, <2>4 DEF RInv, HandedInv, Stop
  <2>6. PICK b, e \in Nat : b = RoundUp(r.start) /\ e = RoundDown(r.end)
    BY <2>5, Rounded
  <2>7. b <= w /\ w + Word <= e
    BY <2>1, <2>2, <2>5, <2>6, WordInside
  <2>8. PICK t \in DOMAIN table : Within(Extent(b, e), table[t])
    BY <2>1, <2>6, <2>7 DEF WordInv, TableInv, Scanned
  <2>9. table[t].start \in Nat /\ table[t].end \in Nat /\ table[t].start <= b /\ e <= table[t].end
    BY <2>8, TableFacts DEF WordInv, TableInv, Within, Extent
  <2>10. w..(w + Word - 1) \subseteq Cells(table[t])
    BY <2>1, <2>7, <2>9 DEF Cells
  <2>. QED BY <2>2, <2>10
<1>. QED BY <1>1, WordsInvariant, PTL

-----------------------------------------------------------------------------
(* SpinLock.                                                               *)

IInv == TypeOK /\ MutualExclusion /\ FlagIsTrue

\* What is in a sequence after something is put at its end.
LEMMA AppendFacts ==
  ASSUME NEW S, NEW s \in Seq(S), NEW e \in S
  PROVE  /\ Append(s, e) \in Seq(S)
         /\ DOMAIN Append(s, e) = 1..Len(s) + 1
         /\ \A i \in 1..Len(s) : Append(s, e)[i] = s[i]
         /\ Append(s, e)[Len(s) + 1] = e
  OBVIOUS

\* What is in a sequence without its last element.
LEMMA FrontFacts ==
  ASSUME NEW S, NEW s \in Seq(S), s # <<>>
  PROVE  /\ Front(s) \in Seq(S)
         /\ Len(s) \in Nat /\ Len(s) > 0
         /\ DOMAIN s = 1..Len(s)
         /\ DOMAIN Front(s) = 1..Len(s) - 1
         /\ \A i \in 1..Len(s) - 1 : Front(s)[i] = s[i]
         /\ Last(s) = s[Len(s)]
  BY DEF Front, Last

LEMMA InitInv == Init => IInv
  BY LocksAssumption DEF Init, IInv, TypeOK, MutualExclusion, FlagIsTrue, In

\* A thread enters l, which nobody that counts is in, or starts a finalizer:
\* the conditions on the other locks are not disturbed.
LEMMA PushKeeps ==
  ASSUME TypeOK, NEW t \in Threads, NEW e, e \in Locks \/ e = Finalizer,
         entered' = [entered EXCEPT ![t] = Append(@, e)]
  PROVE  /\ entered' \in [Threads -> Seq(Locks \cup {Finalizer})]
         /\ \A u \in Threads, l \in Locks : In(u, l)' <=> In(u, l) \/ (u = t /\ l = e)
         /\ \A u \in Threads : \A i \in DOMAIN entered'[u] :
              \/ i \in DOMAIN entered[u] /\ entered'[u][i] = entered[u][i]
              \/ u = t /\ i = Len(entered[t]) + 1 /\ entered'[u][i] = e
<1> DEFINE s == entered[t]
<1>1. s \in Seq(Locks \cup {Finalizer})
  BY DEF TypeOK
<1>2. entered'[t] = Append(s, e) /\ \A u \in Threads \ {t} : entered'[u] = entered[u]
  BY DEF TypeOK
<1>8. e \in Locks \cup {Finalizer}
  OBVIOUS
<1>3. /\ Append(s, e) \in Seq(Locks \cup {Finalizer})
      /\ DOMAIN Append(s, e) = 1..Len(s) + 1
      /\ \A i \in 1..Len(s) : Append(s, e)[i] = s[i]
      /\ Append(s, e)[Len(s) + 1] = e
  BY <1>1, <1>8, AppendFacts
<1>4. DOMAIN s = 1..Len(s) /\ Len(s) \in Nat
  BY <1>1
<1>5. entered' \in [Threads -> Seq(Locks \cup {Finalizer})]
  BY <1>2, <1>3 DEF TypeOK
<1>6. ASSUME NEW u \in Threads, NEW i \in DOMAIN entered'[u]
      PROVE  \/ i \in DOMAIN entered[u] /\ entered'[u][i] = entered[u][i]
             \/ u = t /\ i = Len(entered[t]) + 1 /\ entered'[u][i] = e
  <2>1. CASE u = t
    <3>1. i \in 1..Len(s) + 1
      BY <1>2, <1>3, <2>1
    <3>2. CASE i = Len(s) + 1
      BY <1>2, <1>3, <2>1, <3>2
    <3>3. CASE i \in 1..Len(s)
      BY <1>2, <1>3, <1>4, <2>1, <3>3
    <3> QED BY <1>4, <3>1, <3>2, <3>3
  <2>2. CASE u # t
    BY <1>2, <2>2
  <2> QED BY <2>1, <2>2
<1>7. ASSUME NEW u \in Threads, NEW l \in Locks
      PROVE  In(u, l)' <=> In(u, l) \/ (u = t /\ l = e)
  <2>1. In(u, l)' => In(u, l) \/ (u = t /\ l = e)
    BY <1>6 DEF In
  <2>2. In(u, l) => In(u, l)'
    <3> SUFFICES ASSUME NEW i \in DOMAIN entered[u], entered[u][i] = l PROVE In(u, l)'
      BY DEF In
    <3>1. i \in DOMAIN entered'[u] /\ entered'[u][i] = l
      BY <1>2, <1>3, <1>4
    <3> QED BY <3>1 DEF In
  <2>3. u = t /\ l = e => In(u, l)'
    <3>1. Len(s) + 1 \in DOMAIN Append(s, e)
      BY <1>3, <1>4
    <3> QED BY <1>2, <1>3, <3>1 DEF In
  <2> QED BY <2>1, <2>2, <2>3
<1> QED BY <1>5, <1>6, <1>7

\* A thread leaves what it entered last.
LEMMA PopKeeps ==
  ASSUME TypeOK, NEW t \in Threads, entered[t] # <<>>,
         entered' = [entered EXCEPT ![t] = Front(@)]
  PROVE  /\ entered' \in [Threads -> Seq(Locks \cup {Finalizer})]
         /\ \A u \in Threads : \A i \in DOMAIN entered'[u] :
              /\ i \in DOMAIN entered[u] /\ entered'[u][i] = entered[u][i]
              /\ u = t => i # Len(entered[t])
         /\ \A u \in Threads : \A i \in DOMAIN entered[u] :
              \/ i \in DOMAIN entered'[u]
              \/ u = t /\ i = Len(entered[t])
<1> DEFINE s == entered[t]
<1>1. s \in Seq(Locks \cup {Finalizer}) /\ s # <<>>
  BY DEF TypeOK
<1>2. entered'[t] = Front(s) /\ \A u \in Threads \ {t} : entered'[u] = entered[u]
  BY DEF TypeOK
<1>3. /\ Front(s) \in Seq(Locks \cup {Finalizer})
      /\ Len(s) \in Nat /\ Len(s) > 0
      /\ DOMAIN s = 1..Len(s)
      /\ DOMAIN Front(s) = 1..Len(s) - 1
      /\ \A i \in 1..Len(s) - 1 : Front(s)[i] = s[i]
  BY <1>1, FrontFacts
<1>4. entered' \in [Threads -> Seq(Locks \cup {Finalizer})]
  BY <1>2, <1>3 DEF TypeOK
<1>5. ASSUME NEW u \in Threads, NEW i \in DOMAIN entered'[u]
      PROVE  /\ i \in DOMAIN entered[u] /\ entered'[u][i] = entered[u][i]
             /\ u = t => i # Len(entered[t])
  BY <1>2, <1>3
<1>6. ASSUME NEW u \in Threads, NEW i \in DOMAIN entered[u]
      PROVE  i \in DOMAIN entered'[u] \/ (u = t /\ i = Len(entered[t]))
  BY <1>2, <1>3
<1> QED BY <1>4, <1>5, <1>6

\* Every step keeps the invariant.
LEMMA InvStep == IInv /\ [Next]_vars => IInv'
<1> SUFFICES ASSUME IInv, [Next]_vars PROVE IInv'
  OBVIOUS
<1> USE LocksAssumption
<1>1. ASSUME NEW t \in Threads, NEW l \in Locks, Enter(t, l) PROVE IInv'
  BY <1>1 DEF Enter, IInv, TypeOK, MutualExclusion, FlagIsTrue, In
<1>2. ASSUME NEW t \in Threads, Acquire(t) PROVE IInv'
  <2> DEFINE m == waiting[t]
  <2>1. m \in Locks /\ flag[m] = 0
    BY <1>2 DEF Acquire, Runs, IInv, TypeOK
  <2>2. /\ flag' = [flag EXCEPT ![m] = 1] /\ opened' = opened
        /\ waiting' = [waiting EXCEPT ![t] = NoLock]
        /\ entered' = [entered EXCEPT ![t] = Append(@, m)]
    BY <1>2, <2>1 DEF Acquire, CAS, IInv, TypeOK
  <2>3. /\ entered' \in [Threads -> Seq(Locks \cup {Finalizer})]
        /\ \A u \in Threads, l \in Locks : In(u, l)' <=> In(u, l) \/ (u = t /\ l = m)
        /\ \A u \in Threads : \A i \in DOMAIN entered'[u] :
             \/ i \in DOMAIN entered[u] /\ entered'[u][i] = entered[u][i]
             \/ u = t /\ i = Len(entered[t]) + 1 /\ entered'[u][i] = m
    BY <2>1, <2>2, PushKeeps DEF IInv
  <2>4. TypeOK'
    BY <2>1, <2>2, <2>3 DEF IInv, TypeOK
  <2>5. FlagIsTrue'
    BY <2>1, <2>2, <2>3 DEF IInv, TypeOK, FlagIsTrue
  <2>6. m \notin opened => \A u \in Threads : \A i \in DOMAIN entered[u] : entered[u][i] # m
    BY <2>1 DEF IInv, FlagIsTrue, In
  <2>7. MutualExclusion'
    <3> SUFFICES ASSUME NEW l \in Locks, l \notin opened, NEW u \in Threads, NEW v \in Threads,
                        NEW i \in DOMAIN entered'[u], NEW j \in DOMAIN entered'[v],
                        entered'[u][i] = l, entered'[v][j] = l
                 PROVE  u = v /\ i = j
      BY <2>2 DEF MutualExclusion
    <3>1. CASE l = m
      BY <2>3, <2>6, <3>1
    <3>2. CASE l # m
      <4>1. /\ i \in DOMAIN entered[u] /\ entered[u][i] = l
            /\ j \in DOMAIN entered[v] /\ entered[v][j] = l
        BY <2>3, <3>2
      <4> QED BY <4>1 DEF IInv, MutualExclusion
    <3> QED BY <3>1, <3>2
  <2> QED BY <2>4, <2>5, <2>7 DEF IInv
<1>3. ASSUME NEW t \in Threads, StartFinalizer(t) PROVE IInv'
  <2>1. PICK e : e = Finalizer
    OBVIOUS
  <2>2. (e \in Locks \/ e = Finalizer) /\ e \notin Locks
    BY <2>1 DEF Finalizer
  <2>3. /\ entered' = [entered EXCEPT ![t] = Append(@, e)]
        /\ UNCHANGED <<flag, waiting, opened>>
    BY <1>3, <2>1 DEF StartFinalizer
  <2>4. TypeOK
    BY DEF IInv
  <2>5. /\ entered' \in [Threads -> Seq(Locks \cup {Finalizer})]
        /\ \A u \in Threads, l \in Locks : In(u, l)' <=> In(u, l) \/ (u = t /\ l = e)
        /\ \A u \in Threads : \A i \in DOMAIN entered'[u] :
             \/ i \in DOMAIN entered[u] /\ entered'[u][i] = entered[u][i]
             \/ u = t /\ i = Len(entered[t]) + 1 /\ entered'[u][i] = e
    BY <2>2, <2>3, <2>4, PushKeeps
  <2>6. TypeOK'
    BY <2>3, <2>5 DEF IInv, TypeOK
  <2>7. FlagIsTrue'
    BY <2>2, <2>3, <2>5 DEF IInv, FlagIsTrue
  <2>8. MutualExclusion'
    BY <2>2, <2>3, <2>5 DEF IInv, MutualExclusion
  <2> QED BY <2>6, <2>7, <2>8 DEF IInv
<1>4. ASSUME NEW t \in Threads, Leave(t) PROVE IInv'
  <2> DEFINE s == entered[t]
             m == Last(entered[t])
  <2>1. s # <<>> /\ entered' = [entered EXCEPT ![t] = Front(@)] /\ UNCHANGED <<waiting, opened>>
    BY <1>4 DEF Leave, Exit, EndFinalizer
  <2>2. m = s[Len(s)] /\ Len(s) \in DOMAIN s
    <3>1. s \in Seq(Locks \cup {Finalizer}) /\ s # <<>>
      BY <2>1 DEF IInv, TypeOK
    <3>2. Len(s) \in Nat /\ Len(s) > 0 /\ DOMAIN s = 1..Len(s) /\ Last(s) = s[Len(s)]
      BY <3>1, FrontFacts
    <3> QED BY <3>2
  <2>3. /\ entered' \in [Threads -> Seq(Locks \cup {Finalizer})]
        /\ \A u \in Threads : \A i \in DOMAIN entered'[u] :
             /\ i \in DOMAIN entered[u] /\ entered'[u][i] = entered[u][i]
             /\ u = t => i # Len(entered[t])
        /\ \A u \in Threads : \A i \in DOMAIN entered[u] :
             \/ i \in DOMAIN entered'[u]
             \/ u = t /\ i = Len(entered[t])
    BY <2>1, PopKeeps DEF IInv
  <2>4. MutualExclusion'
    BY <2>1, <2>3 DEF IInv, MutualExclusion
  <2>5. \A u \in Threads, l \in Locks \ opened : In(u, l)' <=> In(u, l) /\ l # m
    <3> SUFFICES ASSUME NEW u \in Threads, NEW l \in Locks \ opened
                 PROVE  In(u, l)' <=> In(u, l) /\ l # m
      OBVIOUS
    <3>1. In(u, l)' => In(u, l) /\ l # m
      BY <2>2, <2>3 DEF IInv, MutualExclusion, In
    <3>2. In(u, l) /\ l # m => In(u, l)'
      BY <2>2, <2>3 DEF In
    <3> QED BY <3>1, <3>2
  <2>6. CASE m \in Locks /\ SpinUnlock(m)
    <3>1. flag' = [flag EXCEPT ![m] = 0]
      BY <2>6 DEF SpinUnlock, CAS, IInv, TypeOK
    <3>2. TypeOK'
      BY <2>1, <2>3, <3>1 DEF IInv, TypeOK
    <3>3. FlagIsTrue'
      BY <2>1, <2>5, <2>6, <3>1 DEF IInv, TypeOK, FlagIsTrue
    <3> QED BY <2>4, <3>2, <3>3 DEF IInv
  <2>7. CASE m = Finalizer /\ UNCHANGED flag
    <3>1. TypeOK'
      BY <2>1, <2>3, <2>7 DEF IInv, TypeOK
    <3>2. FlagIsTrue'
      BY <2>1, <2>5, <2>7 DEF IInv, FlagIsTrue, Finalizer
    <3> QED BY <2>4, <3>1, <3>2 DEF IInv
  <2> QED BY <1>4, <2>6, <2>7 DEF Leave, Exit, EndFinalizer
<1>5. ASSUME NEW t \in Threads, NEW l \in Locks, CarelessExit(t, l) PROVE IInv'
  <2>1. /\ flag' = [flag EXCEPT ![l] = 0] /\ UNCHANGED <<waiting, entered>>
        /\ opened' = IF flag[l] = 1 THEN opened \cup {l} ELSE opened
    BY <1>5 DEF CarelessExit, SpinUnlock, CAS, IInv, TypeOK
  <2>2. TypeOK' /\ MutualExclusion'
    BY <2>1 DEF IInv, TypeOK, MutualExclusion
  <2>3. \A k \in Locks \ opened' : flag'[k] = flag[k]
    BY <2>1 DEF IInv, TypeOK
  <2> QED BY <2>1, <2>2, <2>3 DEF IInv, FlagIsTrue, In
<1>6. CASE UNCHANGED vars
  BY <1>6 DEF vars, IInv, TypeOK, MutualExclusion, FlagIsTrue, In
<1> QED BY <1>1, <1>2, <1>3, <1>4, <1>5, <1>6 DEF Next

LEMMA AlwaysInv == Spec => []IInv
<1> QED BY InitInv, InvStep, PTL DEF Spec

\* The variables keep their types.
THEOREM Typing == Spec => []TypeOK
<1>1. IInv => TypeOK
  BY DEF IInv
<1> QED BY <1>1, AlwaysInv, PTL

\* Two threads are never in a lock together, nor is one in it twice, unless a
\* thread that was not in it has called Exit.
THEOREM Exclusion == Spec => []MutualExclusion
<1>1. IInv => MutualExclusion
  BY DEF IInv
<1> QED BY <1>1, AlwaysInv, PTL

\* The flag of the object tells whether a thread is in the lock.
THEOREM FlagTells == Spec => []FlagIsTrue
<1>1. IInv => FlagIsTrue
  BY DEF IInv
<1> QED BY <1>1, AlwaysInv, PTL

\* A lock excludes, and is free when nobody is in it, unless a thread that was
\* not in it has called Exit.
THEOREM Excluding == Spec => []Excludes
<1>1. MutualExclusion /\ FlagIsTrue => Excludes
  BY DEF Excludes
<1>. QED BY <1>1, Exclusion, FlagTells, PTL

\* The one step that ends the wait of a thread finds the flag 0, and then
\* nobody is in the lock.
LEMMA WaitStep ==
  ASSUME IInv, [Next]_vars, NEW t \in Threads,
         waiting[t] # NoLock, In(t, waiting[t]), waiting[t] \notin opened'
  PROVE  waiting'[t] = waiting[t]
<1>0. waiting[t] \in Locks /\ waiting \in [Threads -> Locks \cup {NoLock}]
  BY DEF IInv, TypeOK
<1>1. CASE UNCHANGED vars
  BY <1>1 DEF vars
<1>2. ASSUME NEW u \in Threads, Acquire(u) PROVE waiting'[t] = waiting[t]
  <2>1. CASE u = t
    <3>1. waiting[t] \in Locks \ opened /\ flag[waiting[t]] = 0
      BY <1>0, <1>2, <2>1 DEF Acquire
    <3>2. flag[waiting[t]] = 1
      BY <3>1 DEF IInv, FlagIsTrue
    <3> QED BY <3>1, <3>2
  <2>2. CASE u # t
    BY <1>0, <1>2, <2>2 DEF Acquire
  <2> QED BY <2>1, <2>2
<1>3. ASSUME NEW u \in Threads, Leave(u) \/ StartFinalizer(u) \/ \E l \in Locks : CarelessExit(u, l)
      PROVE  waiting'[t] = waiting[t]
  BY <1>3 DEF Leave, Exit, EndFinalizer, StartFinalizer, CarelessExit
<1>4. ASSUME NEW u \in Threads, NEW l \in Locks, Enter(u, l) PROVE waiting'[t] = waiting[t]
  <2>1. u # t
    BY <1>4 DEF Enter, Runs
  <2> QED BY <1>0, <1>4, <2>1 DEF Enter
<1> QED BY <1>1, <1>2, <1>3, <1>4 DEF Next

\* A thread that enters a lock it is in goes on spinning, whatever the others
\* do, until an Exit by a thread that was not in it opens the lock.
THEOREM NotReentrant == Spec => NeverReentered
<1> DEFINE Waits(t) ==
      LET l == waiting[t]
      IN  l # NoLock /\ In(t, l) /\ l \notin opened' => waiting'[t] = l
<1>1. IInv /\ [Next]_vars => [\A t \in Threads : Waits(t)]_vars
  BY WaitStep
<1>. HIDE DEF Waits
<1>2. Spec => [][\A t \in Threads : Waits(t)]_vars
  BY <1>1, AlwaysInv, PTL DEF Spec
<1>. QED BY <1>2 DEF NeverReentered, Waits
=============================================================================
