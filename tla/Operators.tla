------------------------------ MODULE Operators ------------------------------
(***************************************************************************)
(* The binary operators of the language, three times over as in the code:  *)
(* binaryTypesLookup of semantic/binary_types.go gives the kind of the     *)
(* result, binaryFuncLookup of interpreter/interpreter.go evaluates a      *)
(* script's own expressions, and binaryFuncs of compiler/runtime.go        *)
(* evaluates a row function's (RowFunction.tla).                           *)
(***************************************************************************)
EXTENDS Numbers

Number == {"Int", "UInt", "Float"}
Arithmetic == {"+", "-", "*", "/"}
Ordering == {"<=", "<", ">=", ">"}
Equality == {"==", "!="}
Matching == {"=~", "!~"}

Sig(l, r) == <<l[1], r[1]>>

\* The kind of an operation's result, "Invalid" when the table has no entry.
binaryTypesLookup(op, l, r) ==
  CASE op \in Arithmetic /\ l = r /\ l \in Number -> l
    [] op \in Ordering \cup Equality /\ l \in Number /\ r \in Number -> "Bool"
    [] op \in Equality /\ l = "String" /\ r = "String" -> "Bool"
    [] op \in Matching /\ {l, r} = {"String", "Regexp"} -> "Bool"
    [] OTHER -> "Invalid"

-----------------------------------------------------------------------------
(* interpreter/interpreter.go: one definition per operator of the table.   *)

addition(l, r) ==
  CASE Sig(l, r) = <<"Int", "Int">> -> NewIntValue(l[2] + r[2])
    [] Sig(l, r) = <<"UInt", "UInt">> -> NewUIntValue(l[2] + r[2])
    [] Sig(l, r) = <<"Float", "Float">> -> FloatAdd(l, r)
    [] OTHER -> NoFunc

subtraction(l, r) ==
  CASE Sig(l, r) = <<"Int", "Int">> -> NewIntValue(l[2] - r[2])
    [] Sig(l, r) = <<"UInt", "UInt">> -> NewUIntValue(l[2] - r[2])
    [] Sig(l, r) = <<"Float", "Float">> -> FloatAdd(l, FloatNegate(r))
    [] OTHER -> NoFunc

multiplication(l, r) ==
  CASE Sig(l, r) = <<"Int", "Int">> -> NewIntValue(l[2] * r[2])
    [] Sig(l, r) = <<"UInt", "UInt">> -> NewUIntValue(l[2] * r[2])
    [] Sig(l, r) = <<"Float", "Float">> -> FloatMultiply(l, r)
    [] OTHER -> NoFunc

\* An integer division by zero panics; a float's does not.
division(l, r) ==
  CASE Sig(l, r) = <<"Float", "Float">> -> FloatDivide(l, r)
    [] l[1] # r[1] \/ l[1] \notin {"Int", "UInt"} -> NoFunc
    [] r[2] = 0 -> Panic
    [] Sig(l, r) = <<"Int", "Int">> -> NewIntValue(Quotient(l[2], r[2]))
    [] Sig(l, r) = <<"UInt", "UInt">> -> NewUIntValue(Quotient(l[2], r[2]))

\* A float on either side makes the comparison one of floats; two integers
\* compare as they are once a negative one facing an unsigned has been
\* answered for.
lessThanEqual(l, r) ==
  CASE "Float" \in {l[1], r[1]} -> FloatLess(Float64(l), Float64(r)) \/ FloatEqual(Float64(l), Float64(r))
    [] Sig(l, r) = <<"Int", "UInt">> -> l[2] < 0 \/ l[2] <= r[2]
    [] Sig(l, r) = <<"UInt", "Int">> -> r[2] >= 0 /\ l[2] <= r[2]
    [] OTHER -> l[2] <= r[2]

lessThan(l, r) ==
  CASE "Float" \in {l[1], r[1]} -> FloatLess(Float64(l), Float64(r))
    [] Sig(l, r) = <<"Int", "UInt">> -> l[2] < 0 \/ l[2] < r[2]
    [] Sig(l, r) = <<"UInt", "Int">> -> r[2] >= 0 /\ l[2] < r[2]
    [] OTHER -> l[2] < r[2]

\* The answers for a negative operand are those of lessThanEqual: -1 >= 1 of
\* an int and a uint is true.
greaterThanEqual(l, r) ==
  CASE "Float" \in {l[1], r[1]} -> FloatLess(Float64(r), Float64(l)) \/ FloatEqual(Float64(l), Float64(r))
    [] Sig(l, r) = <<"Int", "UInt">> -> l[2] < 0 \/ l[2] >= r[2]
    [] Sig(l, r) = <<"UInt", "Int">> -> r[2] >= 0 /\ l[2] >= r[2]
    [] OTHER -> l[2] >= r[2]

greaterThan(l, r) ==
  CASE "Float" \in {l[1], r[1]} -> FloatLess(Float64(r), Float64(l))
    [] Sig(l, r) = <<"Int", "UInt">> -> l[2] < 0 \/ l[2] > r[2]
    [] Sig(l, r) = <<"UInt", "Int">> -> r[2] >= 0 /\ l[2] > r[2]
    [] OTHER -> l[2] > r[2]

equal(l, r) ==
  CASE "Float" \in {l[1], r[1]} -> FloatEqual(Float64(l), Float64(r))
    [] Sig(l, r) = <<"Int", "UInt">> -> l[2] >= 0 /\ l[2] = r[2]
    [] Sig(l, r) = <<"UInt", "Int">> -> r[2] >= 0 /\ l[2] = r[2]
    [] OTHER -> l[2] = r[2]

notEqual(l, r) ==
  CASE "Float" \in {l[1], r[1]} -> ~FloatEqual(Float64(l), Float64(r))
    [] Sig(l, r) = <<"Int", "UInt">> -> l[2] < 0 \/ l[2] # r[2]
    [] Sig(l, r) = <<"UInt", "Int">> -> r[2] < 0 \/ l[2] # r[2]
    [] OTHER -> l[2] # r[2]

\* Either operand may be the expression.
regexpMatch(l, r) ==
  IF r[1] = "Regexp" THEN MatchString(r[2], l[2]) ELSE MatchString(l[2], r[2])

\* The table: arithmetic gives a value of the operands' kind, the rest a Bool.
binaryFuncLookup(op, l, r) ==
  CASE op = "+" -> addition(l, r)
    [] op = "-" -> subtraction(l, r)
    [] op = "*" -> multiplication(l, r)
    [] op = "/" -> division(l, r)
    [] op \in Ordering /\ ~({l[1], r[1]} \subseteq Number) -> NoFunc
    [] op \in Equality /\ ~({l[1], r[1]} \subseteq Number \/ Sig(l, r) = <<"String", "String">>) -> NoFunc
    [] op \in Matching /\ {l[1], r[1]} # {"String", "Regexp"} -> NoFunc
    [] op = "<=" -> NewBoolValue(lessThanEqual(l, r))
    [] op = "<" -> NewBoolValue(lessThan(l, r))
    [] op = ">=" -> NewBoolValue(greaterThanEqual(l, r))
    [] op = ">" -> NewBoolValue(greaterThan(l, r))
    [] op = "==" -> NewBoolValue(equal(l, r))
    [] op = "!=" -> NewBoolValue(notEqual(l, r))
    [] op = "=~" -> NewBoolValue(regexpMatch(l, r))
    [] op = "!~" -> NewBoolValue(~regexpMatch(l, r))
    [] OTHER -> NoFunc
=============================================================================
