------------------------------- MODULE Numbers -------------------------------
(***************************************************************************)
(* The values the interpreter and the compiled row functions compute with: *)
(* pairs of a kind and a datum.  Integers have IntWidth bits and wrap, the *)
(* way Go's int64 and uint64 do; a float is an exact fraction in lowest    *)
(* terms (infinities are <<1, 0>> and <<-1, 0>>, NaN is <<0, 0>>): the     *)
(* rounding of float64 is not modelled.                                    *)
(***************************************************************************)
EXTENDS Integers, Sequences

CONSTANT IntWidth   \* bits of an int64 / uint64 of the model

ASSUME WidthAssumption == IntWidth \in Nat \ {0}

Panic == <<"Panic">>       \* a Go panic
NoFunc == <<"NoFunc">>     \* the operands' signature is not in the table

NewIntValue(n) == <<"Int", ((n + 2^(IntWidth - 1)) % 2^IntWidth) - 2^(IntWidth - 1)>>

NewUIntValue(n) == <<"UInt", n % 2^IntWidth>>

NewBoolValue(b) == <<"Bool", b>>

-----------------------------------------------------------------------------
Abs(n) == IF n < 0 THEN -n ELSE n

\* Go's integer division truncates towards zero.
Quotient(a, b) == IF (a < 0) = (b < 0) THEN Abs(a) \div Abs(b) ELSE -(Abs(a) \div Abs(b))

\* The greatest common divisor.
GCD(a, b) ==
  LET Divides(k) == a % k = 0 /\ b % k = 0
  IN  IF a = 0 \/ b = 0 THEN a + b
      ELSE CHOOSE k \in 1..(IF a < b THEN a ELSE b) :
             Divides(k) /\ \A j \in (k + 1)..(IF a < b THEN a ELSE b) : ~Divides(j)

Fraction(n, d) ==
  LET g == GCD(Abs(n), Abs(d))
      s == IF d < 0 THEN -1 ELSE 1
  IN  IF g = 0 THEN <<"Float", 0, 0>> ELSE <<"Float", s * Quotient(n, g), s * Quotient(d, g)>>

NaN == Fraction(0, 0)

\* float64(v) of an integer, or the float itself.
Float64(v) == IF v[1] = "Float" THEN v ELSE Fraction(v[2], 1)

Infinite(x) == x[3] = 0

FloatAdd(x, y) ==
  IF Infinite(x) /\ x = y THEN x
  ELSE Fraction(x[2] * y[3] + y[2] * x[3], x[3] * y[3])

FloatNegate(x) == <<"Float", -x[2], x[3]>>

FloatMultiply(x, y) == Fraction(x[2] * y[2], x[3] * y[3])

FloatDivide(x, y) == Fraction(x[2] * y[3], x[3] * y[2])

\* Every comparison with NaN but # is false.
FloatLess(x, y) ==
  /\ NaN \notin {x, y}
  /\ IF Infinite(x) /\ Infinite(y) THEN x[2] < y[2] ELSE x[2] * y[3] < y[2] * x[3]

FloatEqual(x, y) == x # NaN /\ x = y

\* regexp.MatchString, for patterns that hold no metacharacter.
MatchString(p, s) ==
  \E i \in 0..(Len(s) - Len(p)) : SubSeq(s, i + 1, i + Len(p)) = p
=============================================================================
