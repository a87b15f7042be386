-------------------------- MODULE PromQLGrammar -------------------------
(***************************************************************************)
(* The grammar table of promql/promql.go with the callbacks of its         *)
(* actions, and the parser it defines.  One definition per rule, in the    *)
(* order of the file, the rules that the first rule does not reach         *)
(* included.                                                               *)
(***************************************************************************)
EXTENDS PromQLTree, TLC

Ref(r) == ruleRefExpr(r)

Lit(s) == litMatcher(s)

\* What an unfinished escape or literal may run into.
Anything == choiceExpr(<<Ref("SourceChar"), Ref("EOL"), Ref("EOF")>>)

Ends == choiceExpr(<<Ref("EOL"), Ref("EOF")>>)

Grammar ==
    actionExpr("Grammar1", seqExpr(<<
        labeledExpr("grammar",
            choiceExpr(<<Ref("Comment"), Ref("AggregateExpression"), Ref("VectorSelector")>>)),
        Ref("EOF")>>))

SourceChar == anyMatcher

Comment ==
    actionExpr("Comment1",
        seqExpr(<<Lit("#"), zeroOrMoreExpr(seqExpr(<<notExpr(Ref("EOL")), Ref("SourceChar")>>))>>))

Identifier == actionExpr("Identifier1", labeledExpr("ident", Ref("IdentifierName")))

IdentifierName ==
    actionExpr("IdentifierName1",
        seqExpr(<<Ref("IdentifierStart"), zeroOrMoreExpr(Ref("IdentifierPart"))>>))

IdentifierStart == charClassMatcher(Letter \cup {"_"})

IdentifierPart == choiceExpr(<<Ref("IdentifierStart"), charClassMatcher(Digit)>>)

StringLiteral ==
    LET quoted(q, chars, end) == seqExpr(<<Lit(q), chars, end>>)
        double == zeroOrMoreExpr(Ref("DoubleStringChar"))
        raw    == zeroOrMoreExpr(Ref("RawStringChar"))
    IN  choiceExpr(<<
            actionExpr("StringLiteral2", choiceExpr(<<
                quoted("\"", double, Lit("\"")),
                quoted("'", Ref("SingleStringChar"), Lit("'")),
                quoted(Backquote, raw, Lit(Backquote))>>)),
            actionExpr("StringLiteral18", choiceExpr(<<
                quoted("\"", double, Ends),
                quoted("'", zeroOrOneExpr(Ref("SingleStringChar")), Ends),
                quoted(Backquote, raw, Ref("EOF"))>>))>>)

\* A character that is none of the ones in stops, or an escape.
StringChar(quote, escape) ==
    choiceExpr(<<
        seqExpr(<<notExpr(choiceExpr(<<Lit(quote), Lit("\\"), Ref("EOL")>>)), Ref("SourceChar")>>),
        seqExpr(<<Lit("\\"), Ref(escape)>>)>>)

DoubleStringChar == StringChar("\"", "DoubleStringEscape")

SingleStringChar == StringChar("'", "SingleStringEscape")

RawStringChar == seqExpr(<<notExpr(Lit(Backquote)), Ref("SourceChar")>>)

Escape(quote, bad) ==
    choiceExpr(<<choiceExpr(<<Lit(quote), Ref("CommonEscapeSequence")>>), bad>>)

DoubleStringEscape == Escape("\"", actionExpr("invalid escape character", Anything))

SingleStringEscape == Escape("'", actionExpr("invalid escape character", Anything))

CommonEscapeSequence ==
    choiceExpr(<<Ref("SingleCharEscape"), Ref("OctalEscape"), Ref("HexEscape"),
                 Ref("LongUnicodeEscape"), Ref("ShortUnicodeEscape")>>)

SingleCharEscape ==
    choiceExpr(<<Lit("a"), Lit("b"), Lit("n"), Lit("f"), Lit("r"), Lit("t"), Lit("v"), Lit("\\")>>)

OctalEscape ==
    choiceExpr(<<
        seqExpr(<<Ref("OctalDigit"), Ref("OctalDigit"), Ref("OctalDigit")>>),
        actionExpr("invalid octal escape", seqExpr(<<Ref("OctalDigit"), Anything>>))>>)

HexDigits(n) == [i \in 1 .. n |-> Ref("HexDigit")]

HexEscape ==
    choiceExpr(<<
        seqExpr(<<Lit("x")>> \o HexDigits(2)),
        actionExpr("invalid hexadecimal escape", seqExpr(<<Lit("x"), Anything>>))>>)

LongUnicodeEscape ==
    choiceExpr(<<
        actionExpr("validateUnicodeEscape", seqExpr(<<Lit("U")>> \o HexDigits(8))),
        actionExpr("invalid Unicode escape", seqExpr(<<Lit("U"), Anything>>))>>)

ShortUnicodeEscape ==
    choiceExpr(<<
        actionExpr("validateUnicodeEscape", seqExpr(<<Lit("u")>> \o HexDigits(4))),
        actionExpr("invalid Unicode escape", seqExpr(<<Lit("u"), Anything>>))>>)

OctalDigit == charClassMatcher(Chars("01234567"))

DecimalDigit == charClassMatcher(Digit)

HexDigit == charClassMatcher(Chars("0123456789abcdefABCDEF"))

CharClassMatcher ==
    choiceExpr(<<
        actionExpr("ignored", seqExpr(<<
            Lit("["),
            zeroOrMoreExpr(choiceExpr(<<Ref("ClassCharRange"), Ref("ClassChar"),
                                        seqExpr(<<Lit("\\"), Ref("UnicodeClassEscape")>>)>>)),
            Lit("]"), zeroOrOneExpr(Lit("i"))>>)),
        actionExpr("character class not terminated", seqExpr(<<
            Lit("["), zeroOrMoreExpr(seqExpr(<<notExpr(Ref("EOL")), Ref("SourceChar")>>)),
            Ends>>))>>)

ClassCharRange == seqExpr(<<Ref("ClassChar"), Lit("-"), Ref("ClassChar")>>)

ClassChar == StringChar("]", "CharClassEscape")

CharClassEscape ==
    Escape("]", actionExpr("invalid escape character", seqExpr(<<notExpr(Lit("p")), Anything>>)))

UnicodeClassEscape ==
    seqExpr(<<Lit("p"), choiceExpr(<<
        Ref("SingleCharUnicodeClass"),
        actionExpr("invalid Unicode class escape", seqExpr(<<notExpr(Lit("{")), Anything>>)),
        actionExpr("UnicodeClassEscape13",
            seqExpr(<<Lit("{"), labeledExpr("ident", Ref("IdentifierName")), Lit("}")>>)),
        actionExpr("Unicode class not terminated",
            seqExpr(<<Lit("{"), Ref("IdentifierName"),
                      choiceExpr(<<Lit("]"), Ref("EOL"), Ref("EOF")>>)>>))>>)>>)

SingleCharUnicodeClass == charClassMatcher(Chars("LMNCPZS"))

Number_ ==
    actionExpr("Number1", seqExpr(<<
        zeroOrOneExpr(Lit("-")), Ref("Integer"),
        zeroOrOneExpr(seqExpr(<<Lit("."), oneOrMoreExpr(Ref("Digit"))>>))>>))

\* "0" has no action: its value is its text.
Integer ==
    choiceExpr(<<
        Lit("0"),
        actionExpr("Integer3", seqExpr(<<Ref("NonZeroDigit"), zeroOrMoreExpr(Ref("Digit"))>>))>>)

NonZeroDigit == charClassMatcher(Chars("123456789"))

ADigit == charClassMatcher(Digit)

\* A block that the end of the text cuts off is an error.
LabelBlock ==
    choiceExpr(<<
        actionExpr("LabelBlock2",
            seqExpr(<<Lit("{"), labeledExpr("block", Ref("LabelMatches")), Lit("}")>>)),
        actionExpr("code block not terminated",
            seqExpr(<<Lit("{"), Ref("LabelMatches"), Ref("EOF")>>))>>)

NanoSecondUnits == actionExpr("ns", Lit("ns"))

MicroSecondUnits == actionExpr("us", choiceExpr(<<Lit("us"), Lit("µs"), Lit("μs")>>))

MilliSecondUnits == actionExpr("ms", Lit("ms"))

SecondUnits == actionExpr("s", Lit("s"))

MinuteUnits == actionExpr("m", Lit("m"))

HourUnits == actionExpr("h", Lit("h"))

DayUnits == actionExpr("d", Lit("d"))

WeekUnits == actionExpr("w", Lit("w"))

YearUnits == actionExpr("y", Lit("y"))

DurationUnits ==
    choiceExpr(<<Ref("NanoSecondUnits"), Ref("MicroSecondUnits"), Ref("MilliSecondUnits"),
                 Ref("SecondUnits"), Ref("MinuteUnits"), Ref("HourUnits"), Ref("DayUnits"),
                 Ref("WeekUnits"), Ref("YearUnits")>>)

Duration ==
    actionExpr("Duration1",
        seqExpr(<<labeledExpr("dur", Ref("Integer")), labeledExpr("units", Ref("DurationUnits"))>>))

Operators ==
    choiceExpr(<<Lit("-"), Lit("+"), Lit("*"), Lit("%"), Lit("/"), Lit("=="), Lit("!="), Lit("<="),
                 Lit("<"), Lit(">="), Lit(">"), Lit("=~"), Lit("!~"), Lit("^"), Lit("=")>>)

LabelOperators ==
    choiceExpr(<<actionExpr("NotEqual", Lit("!=")), actionExpr("RegexMatch", Lit("=~")),
                 actionExpr("RegexNoMatch", Lit("!~")), actionExpr("Equal", Lit("="))>>)

Label == Ref("Identifier")

LabelMatch ==
    actionExpr("LabelMatch1", seqExpr(<<
        labeledExpr("label", Ref("Label")), Ref("__"),
        labeledExpr("op", Ref("LabelOperators")), Ref("__"),
        labeledExpr("match", choiceExpr(<<Ref("StringLiteral"), Ref("Number")>>))>>))

LabelMatches ==
    actionExpr("LabelMatches1", seqExpr(<<
        labeledExpr("first", Ref("LabelMatch")), Ref("__"),
        labeledExpr("rest", zeroOrMoreExpr(Ref("LabelMatchesRest")))>>))

LabelMatchesRest ==
    actionExpr("LabelMatchesRest1",
        seqExpr(<<Lit(","), Ref("__"), labeledExpr("match", Ref("LabelMatch"))>>))

LabelList ==
    choiceExpr(<<
        actionExpr("LabelList2", seqExpr(<<Lit("("), Ref("__"), Lit(")")>>)),
        actionExpr("LabelList7", seqExpr(<<
            Lit("("), Ref("__"), labeledExpr("label", Ref("Label")), Ref("__"),
            labeledExpr("rest", zeroOrMoreExpr(Ref("LabelListRest"))), Ref("__"), Lit(")")>>))>>)

LabelListRest ==
    actionExpr("LabelListRest1",
        seqExpr(<<Lit(","), Ref("__"), labeledExpr("label", Ref("Label"))>>))

VectorSelector ==
    actionExpr("VectorSelector1", seqExpr(<<
        labeledExpr("metric", Ref("Identifier")), Ref("__"),
        labeledExpr("block", zeroOrOneExpr(Ref("LabelBlock"))), Ref("__"),
        labeledExpr("rng", zeroOrOneExpr(Ref("Range"))), Ref("__"),
        labeledExpr("offset", zeroOrOneExpr(Ref("Offset")))>>))

Range ==
    actionExpr("dur",
        seqExpr(<<Lit("["), Ref("__"), labeledExpr("dur", Ref("Duration")), Ref("__"), Lit("]")>>))

Offset ==
    actionExpr("dur",
        seqExpr(<<litMatcherI("offset"), Ref("__"), labeledExpr("dur", Ref("Duration"))>>))

CountValueOperator == actionExpr("CountValueOperator1", litMatcherI("count_values"))

BinaryAggregateOperators ==
    actionExpr("ToOperatorKind", labeledExpr("op",
        choiceExpr(<<litMatcherI("topk"), litMatcherI("bottomk"), litMatcherI("quantile")>>)))

UnaryAggregateOperators ==
    actionExpr("ToOperatorKind", labeledExpr("op",
        choiceExpr(<<litMatcherI("sum"), litMatcherI("min"), litMatcherI("max"), litMatcherI("avg"),
                     litMatcherI("stddev"), litMatcherI("stdvar"), litMatcherI("count")>>)))

AggregateOperators ==
    choiceExpr(<<Ref("CountValueOperator"), Ref("BinaryAggregateOperators"),
                 Ref("UnaryAggregateOperators")>>)

AggregateBy ==
    actionExpr("AggregateBy1", seqExpr(<<
        litMatcherI("by"), Ref("__"), labeledExpr("labels", Ref("LabelList")), Ref("__"),
        labeledExpr("keep", zeroOrOneExpr(litMatcherI("keep_common")))>>))

AggregateWithout ==
    actionExpr("AggregateWithout1",
        seqExpr(<<litMatcherI("without"), Ref("__"), labeledExpr("labels", Ref("LabelList"))>>))

AggregateGroup == choiceExpr(<<Ref("AggregateBy"), Ref("AggregateWithout")>>)

\* Interleaves the parts of a sequence with optional whitespace.
Spaced(es) ==
    [i \in 1 .. 2 * Len(es) - 1 |-> IF i % 2 = 1 THEN es[(i + 1) \div 2] ELSE Ref("__")]

\* op (param, vector) group   or   op group (param, vector); the two forms of
\* each of the three kinds of operators.
AggregateExpression ==
    LET op(r)  == labeledExpr("op", Ref(r))
        group  == labeledExpr("group", zeroOrOneExpr(Ref("AggregateGroup")))
        vector == labeledExpr("vector", Ref("VectorSelector"))
        plain  == <<Lit("("), vector, Lit(")")>>
        of(r)  == <<Lit("("), labeledExpr("param", Ref(r)), Lit(","), vector, Lit(")")>>
        after(o, args)  == seqExpr(Spaced(<<op(o)>> \o args \o <<group>>))
        before(o, args) == seqExpr(Spaced(<<op(o), group>> \o args))
    IN  choiceExpr(<<
            actionExpr("with param", after("CountValueOperator", of("StringLiteral"))),
            actionExpr("with param", before("CountValueOperator", of("StringLiteral"))),
            actionExpr("with param", after("BinaryAggregateOperators", of("Number"))),
            actionExpr("with param", before("BinaryAggregateOperators", of("Number"))),
            actionExpr("no param", after("UnaryAggregateOperators", plain)),
            actionExpr("no param", before("UnaryAggregateOperators", plain))>>)

Gap == zeroOrMoreExpr(choiceExpr(<<Ref("Whitespace"), Ref("EOL"), Ref("Comment")>>))

Blank == zeroOrMoreExpr(Ref("Whitespace"))

Whitespace == charClassMatcher(Chars(" \t\r"))

EOL == Lit("\n")

EOS ==
    choiceExpr(<<
        seqExpr(<<Ref("__"), Lit(";")>>),
        seqExpr(<<Ref("_"), zeroOrOneExpr(Ref("SingleLineComment")), Ref("EOL")>>),
        seqExpr(<<Ref("__"), Ref("EOF")>>)>>)

EOF == notExpr(anyMatcher)

Rules ==
    [Grammar |-> Grammar, SourceChar |-> SourceChar, Comment |-> Comment,
     Identifier |-> Identifier, IdentifierName |-> IdentifierName,
     IdentifierStart |-> IdentifierStart, IdentifierPart |-> IdentifierPart,
     StringLiteral |-> StringLiteral, DoubleStringChar |-> DoubleStringChar,
     SingleStringChar |-> SingleStringChar, RawStringChar |-> RawStringChar,
     DoubleStringEscape |-> DoubleStringEscape, SingleStringEscape |-> SingleStringEscape,
     CommonEscapeSequence |-> CommonEscapeSequence, SingleCharEscape |-> SingleCharEscape,
     OctalEscape |-> OctalEscape, HexEscape |-> HexEscape,
     LongUnicodeEscape |-> LongUnicodeEscape, ShortUnicodeEscape |-> ShortUnicodeEscape,
     OctalDigit |-> OctalDigit, DecimalDigit |-> DecimalDigit, HexDigit |-> HexDigit,
     CharClassMatcher |-> CharClassMatcher, ClassCharRange |-> ClassCharRange,
     ClassChar |-> ClassChar, CharClassEscape |-> CharClassEscape,
     UnicodeClassEscape |-> UnicodeClassEscape,
     SingleCharUnicodeClass |-> SingleCharUnicodeClass, Number |-> Number_,
     Integer |-> Integer, NonZeroDigit |-> NonZeroDigit, Digit |-> ADigit,
     LabelBlock |-> LabelBlock, NanoSecondUnits |-> NanoSecondUnits,
     MicroSecondUnits |-> MicroSecondUnits, MilliSecondUnits |-> MilliSecondUnits,
     SecondUnits |-> SecondUnits, MinuteUnits |-> MinuteUnits, HourUnits |-> HourUnits,
     DayUnits |-> DayUnits, WeekUnits |-> WeekUnits, YearUnits |-> YearUnits,
     DurationUnits |-> DurationUnits, Duration |-> Duration, Operators |-> Operators,
     LabelOperators |-> LabelOperators, Label |-> Label, LabelMatch |-> LabelMatch,
     LabelMatches |-> LabelMatches, LabelMatchesRest |-> LabelMatchesRest,
     LabelList |-> LabelList, LabelListRest |-> LabelListRest,
     VectorSelector |-> VectorSelector, Range |-> Range, Offset |-> Offset,
     CountValueOperator |-> CountValueOperator,
     BinaryAggregateOperators |-> BinaryAggregateOperators,
     UnaryAggregateOperators |-> UnaryAggregateOperators,
     AggregateOperators |-> AggregateOperators, AggregateBy |-> AggregateBy,
     AggregateWithout |-> AggregateWithout, AggregateGroup |-> AggregateGroup,
     AggregateExpression |-> AggregateExpression, Whitespace |-> Whitespace, EOL |-> EOL,
     EOS |-> EOS, EOF |-> EOF]
    @@ ("__" :> Gap) @@ ("_" :> Blank)

-----------------------------------------------------------------------------
\* The callbacks of the actions.

\* Of the two hundred names in unicode.go, three.
unicodeClasses == {"L", "Nd", "Latin"}

\* reservedWords is empty.
reservedWords == {}

RunLexical(run, l, text) ==
    CASE run = "Grammar1"        -> Value(l.grammar)
      [] run = "Comment1"        -> Value([type |-> "Comment", Source |-> text])
      [] run = "Identifier1"     ->
             IF text \in reservedWords THEN Error("identifier is a reserved word")
             ELSE Value(<<"Identifier", l.ident>>)
      [] run = "IdentifierName1" -> Value(text)
      [] run = "StringLiteral2"  -> NewStringLiteral(text)
      [] run = "StringLiteral18" -> Error("string literal not terminated")

RunEscape(run, l, text) ==
    CASE run = "ignored"               -> Value(Nil)
      [] run = "validateUnicodeEscape" -> validateUnicodeEscape(text)
      [] run = "UnicodeClassEscape13"  ->
             IF l.ident \in unicodeClasses THEN Value(Nil) ELSE Error("invalid Unicode class escape")
      [] OTHER                         -> Error(run)

RunNumber(run, l, text) ==
    CASE run = "Number1"     -> NewNumber(text)
      [] run = "Integer3"    -> NewInteger(text)
      [] run = "Duration1"   -> NewDuration(l.dur, l.units)
      [] run = "LabelBlock2" -> Value(l.block)

RunUnit(run) == Value(run)

RunLabel(run, l) ==
    CASE run \in {"NotEqual", "RegexMatch", "RegexNoMatch", "Equal"} -> Value(run)
      [] run = "LabelMatch1"       -> NewLabelMatcher(l.label, l.op, l.match)
      [] run = "LabelMatches1"     -> NewLabelMatches(l.first, l.rest)
      [] run = "LabelMatchesRest1" -> Value(l.match)
      [] run = "LabelList2"        -> Value(Nil)
      [] run = "LabelList7"        -> NewIdentifierList(l.label, l.rest)
      [] run = "LabelListRest1"    -> Value(l.label)

RunAggregate(run, l) ==
    CASE run = "VectorSelector1"     -> NewSelector(l.metric, l.block, l.rng, l.offset)
      [] run = "dur"                 -> Value(l.dur)
      [] run = "CountValueOperator1" -> Value(<<"Operator", "count_values">>)
      [] run = "ToOperatorKind"      -> Value(<<"Operator", ToOperatorKind(l.op)>>)
      \* (the keyword, and not nil)
      [] run = "AggregateBy1"        -> NewAggregate(TRUE, l.labels, Len(l.keep) > Len(Nil))
      [] run = "AggregateWithout1"   -> NewAggregate(FALSE, l.labels, FALSE)
      [] run = "with param"          -> NewAggregateExpr(l.op, l.param, l.vector, l.group)
      [] run = "no param"            -> NewAggregateExpr(l.op, Nil, l.vector, l.group)

RunAction(run, l, text) ==
    CASE run \in {"Grammar1", "Comment1", "Identifier1", "IdentifierName1", "StringLiteral2",
                  "StringLiteral18"} -> RunLexical(run, l, text)
      [] run \in {"Number1", "Integer3", "Duration1", "LabelBlock2"} -> RunNumber(run, l, text)
      [] run \in DOMAIN UnitNanos -> RunUnit(run)
      [] run \in {"NotEqual", "RegexMatch", "RegexNoMatch", "Equal", "LabelMatch1",
                  "LabelMatches1", "LabelMatchesRest1", "LabelList2", "LabelList7",
                  "LabelListRest1"} -> RunLabel(run, l)
      [] run \in {"VectorSelector1", "dur", "CountValueOperator1", "ToOperatorKind",
                  "AggregateBy1", "AggregateWithout1", "with param", "no param"} ->
             RunAggregate(run, l)
      [] OTHER -> RunEscape(run, l, text)

Engine ==
    INSTANCE PEG WITH Start <- "Grammar", Steps <- <<"Identifier", "StringLiteral", "VectorSelector">>,
                      Run <- RunAction

\* ParsePromQL: the tree of a text, read with its table.
ParsePromQL(T, text) == Engine!parse(T, text)
=========================================================================
