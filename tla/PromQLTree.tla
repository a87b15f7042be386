--------------------------- MODULE PromQLTree ---------------------------
(***************************************************************************)
(* The values that the PromQL grammar builds (promql/types.go) and the     *)
(* query specification made from them.                                     *)
(*                                                                         *)
(* A duration is an int64 of Width bits; UnitNanos gives the length of its *)
(* units.  A string is the sequence of its characters, where a character   *)
(* that an escape names and that is not printable ASCII is "other".        *)
(***************************************************************************)
EXTENDS PEGForms, Integers, FiniteSets

CONSTANTS
    Width,         \* bits of a time.Duration
    UnitNanos      \* the length of the units ns, us, ms, s, m, h, d, w, y

Chars(s) == {SubSeq(s, i, i) : i \in 1 .. Len(s)}

Ascii ==
    " !\"#$%&'()*+,-./0123456789:;<=>?@ABCDEFGHIJKLMNOPQRSTUVWXYZ[\\]^_´abcdefghijklmnopqrstuvwxyz{|}~"

\* TLA+ has no backquote in strings.
Backquote == "´"

Digit == Chars("0123456789")

Letter == Chars("ABCDEFGHIJKLMNOPQRSTUVWXYZabcdefghijklmnopqrstuvwxyz") \cup {"µ", "μ"}

Lower == [c \in Chars("ABCDEFGHIJKLMNOPQRSTUVWXYZ") |->
             LET i == CHOOSE j \in 1 .. Len(Ascii) : SubSeq(Ascii, j, j) = c
             IN  SubSeq(Ascii, i + 32, i + 32)]

Value(v) == [val |-> v, errs |-> {}]

Error(e) == [val |-> Nil, errs |-> {e}]

Asserting(p, r) == IF p THEN Value(r) ELSE Error("panic")

From(s, i) == IF i > Len(s) THEN "" ELSE SubSeq(s, i, Len(s))

\* Two's complement: the int64 that n wraps to.
Wrap(n) ==
    LET m == (n + 2^(Width - 1)) % 2^Width IN m - 2^(Width - 1)

MaxDuration == 2^(Width - 1) - 1

-----------------------------------------------------------------------------
\* Literals

RECURSIVE Number(_, _, _), Unquote(_)

Hex == "0123456789abcdef"

\* The number that the digits of s spell in base b after acc; it stops above
\* the largest code point, so that it stays within TLC's integers.
Number(s, b, acc) ==
    IF s = "" \/ acc > 1114111 THEN acc
    ELSE LET c == SubSeq(s, 1, 1)
             d == CHOOSE i \in 0 .. 15 :
                      SubSeq(Hex, i + 1, i + 1) = IF c \in DOMAIN Lower THEN Lower[c] ELSE c
         IN  Number(From(s, 2), b, b * acc + d)

CharOf(code) == IF code \in 32 .. 126 THEN SubSeq(Ascii, code - 31, code - 31) ELSE "other"

\* The length of the escape at the start of s, after its backslash.
EscapeLen(s) ==
    LET c == SubSeq(s, 1, 1)
    IN  IF c \in Digit THEN 3 ELSE IF c = "x" THEN 3 ELSE IF c = "u" THEN 5
        ELSE IF c = "U" THEN 9 ELSE 1

\* strconv.Unquote of what is between the quotes; the grammar has refused all
\* other escapes.
Unquote(s) ==
    IF s = "" THEN <<>>
    ELSE IF SubSeq(s, 1, 1) # "\\" THEN <<SubSeq(s, 1, 1)>> \o Unquote(From(s, 2))
    ELSE LET r == From(s, 2)
             c == SubSeq(r, 1, 1)
             n == EscapeLen(r)
             v == IF n = 1 THEN IF c \in {"\"", "'", "\\"} THEN c ELSE "other"
                  ELSE IF c \in Digit THEN CharOf(Number(SubSeq(r, 1, 3), 8, 0))
                  ELSE CharOf(Number(SubSeq(r, 2, n), 16, 0))
         IN  <<v>> \o Unquote(From(r, n + 1))

\* An octal escape names a byte.
BytesOnly(s) ==
    \A i \in 1 .. Len(s) - 3 :
        SubSeq(s, i, i) = "\\" /\ SubSeq(s, i + 1, i + 1) \in Digit
            => Number(SubSeq(s, i + 1, i + 3), 8, 0) < 256

NewStringLiteral(text) ==
    LET s == IF Len(text) = 2 THEN "" ELSE SubSeq(text, 2, Len(text) - 1)
        RECURSIVE raw(_)
        raw(r) == IF r = "" THEN <<>> ELSE <<SubSeq(r, 1, 1)>> \o raw(From(r, 2))
    IN  IF SubSeq(text, 1, 1) = Backquote THEN Value(<<"StringLiteral", raw(s)>>)
        ELSE IF BytesOnly(s) THEN Value(<<"StringLiteral", Unquote(s)>>)
        ELSE Error("invalid syntax")

\* A code point that is too large, or half of a surrogate pair, is refused.
validateUnicodeEscape(text) ==
    LET r == Number(From(text, 2), 16, 0)
    IN  IF r > 1114111 \/ r \in 55296 .. 57343 THEN Error("invalid Unicode escape") ELSE Value(Nil)

\* The text of a number: strconv.ParseFloat keeps every number the grammar
\* accepts apart, up to the sign of zero and trailing zeros of a fraction.
NewNumber(text) == Value(<<"Number", text>>)

\* The grammar returns the text "0" without conversion and the other integers
\* as numbers.
NewInteger(text) ==
    IF Number(text, 10, 0) > MaxDuration THEN Error("value out of range")
    ELSE Value(<<"Integer", Number(text, 10, 0)>>)

\* Duration1: nanos * conversion, which may wrap.  The assertion dur.(int64)
\* panics for the integer 0, whose value is a text of length one and no pair.
NewDuration(dur, unit) ==
    Asserting(Len(dur) = 2, <<"Duration", Wrap(dur[2] * UnitNanos[unit])>>)

-----------------------------------------------------------------------------
\* Selectors and aggregates

NewIdentifierList(first, rest) == Value(<<first>> \o rest)

NewLabelMatcher(ident, kind, value) == Value(<<"LabelMatcher", ident[2], kind, value>>)

NewLabelMatches(first, rest) == Value(<<first>> \o rest)

NewSelector(metric, block, rng, offset) ==
    Value([type |-> "Selector", Name |-> metric[2],
           Range |-> IF rng = Nil THEN 0 ELSE rng[2],
           Offset |-> IF offset = Nil THEN 0 ELSE offset[2],
           LabelMatchers |-> IF block = Nil THEN <<>> ELSE block])

OperatorNames ==
    {"count_values", "topk", "bottomk", "quantile", "sum", "min", "max", "avg", "stddev",
     "stdvar", "count"}

\* strings.ToLower and the switch over the names.
ToOperatorKind(op) ==
    CHOOSE o \in OperatorNames :
        /\ Len(o) = Len(op)
        /\ \A i \in 1 .. Len(o) :
              LET c == SubSeq(op, i, i)
              IN  SubSeq(o, i, i) = IF c \in DOMAIN Lower THEN Lower[c] ELSE c

NewAggregate(by, labels, keep) ==
    Asserting(labels # Nil, <<"Aggregate", by, labels, keep>>)

NewAggregateExpr(op, arg, selector, group) ==
    Value([type |-> "AggregateExpr", Op |-> op[2], Arg |-> arg, Selector |-> selector,
           Aggregate |-> group])

-----------------------------------------------------------------------------
\* The query specification: operations and edges.

Op(id, spec) == [ID |-> id, Spec |-> spec]

Spec(ops, edges) == [ok |-> TRUE, Operations |-> ops, Edges |-> edges]

NoSpec == [ok |-> FALSE, Operations |-> <<>>, Edges |-> <<>>]

\* Adds op below the last operation.
Extended(spec, op) ==
    LET parent == IF spec.Edges = <<>> THEN "from" ELSE spec.Edges[Len(spec.Edges)][2]
    IN  Spec(Append(spec.Operations, op), Append(spec.Edges, <<parent, op.ID>>))

\* The start of the range is -rng - offset (relative, but not marked so); the
\* selector has no range operation when both are zero.
NewRangeOp(rng, offset) == Op("range", [Start |-> Wrap(Wrap(- rng) - offset)])

operatorLookup(kind) == IF kind \in {"Equal", "RegexMatch"} THEN "==" ELSE "!="

\* r._metric == name and r.label op value and ..., as the list of its conjuncts.
NewWhereOperation(name, labels) ==
    Op("where", <<[Property |-> "_metric", Operator |-> "==", Value |-> <<"String", name>>]>> \o
        [i \in 1 .. Len(labels) |->
            [Property |-> labels[i][2], Operator |-> operatorLookup(labels[i][3]),
             Value |-> labels[i][4]]])

SelectorSpec(s) ==
    LET from == Spec(<<Op("from", "prometheus")>>, <<>>)
        rng  == IF s.Range = 0 /\ s.Offset = 0 THEN from
                ELSE Extended(from, NewRangeOp(s.Range, s.Offset))
    IN  Extended(rng, NewWhereOperation(s.Name, s.LabelMatchers))

\* "by" groups by the labels and keeps them if asked to; "without" is refused.
AggregateSpec(a) ==
    LET keys == [i \in DOMAIN a[3] |-> a[3][i][2]]
    IN  Op("merge", [By |-> keys, Keep |-> IF a[4] THEN keys ELSE <<>>])

OperatorSpec(kind) == Op(kind, "aggregate")

AggregateExprSpec(a) ==
    LET sel    == SelectorSpec(a.Selector)
        merged == IF a.Aggregate = Nil THEN sel ELSE Extended(sel, AggregateSpec(a.Aggregate))
    IN  IF a.Aggregate # Nil /\ ~ a.Aggregate[2] THEN NoSpec
        ELSE IF a.Op \notin {"count", "sum"} THEN NoSpec
        ELSE Extended(merged, OperatorSpec(a.Op))

\* Build, of what the parser returned; a comment has no specification.
Build(parsed) ==
    IF ~ parsed.ok THEN NoSpec
    ELSE CASE parsed.val.type = "Selector"      -> SelectorSpec(parsed.val)
           [] parsed.val.type = "AggregateExpr" -> AggregateExprSpec(parsed.val)
           [] parsed.val.type = "Comment"       -> NoSpec
=========================================================================
