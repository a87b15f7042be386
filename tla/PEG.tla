------------------------------ MODULE PEG -------------------------------
(***************************************************************************)
(* The engine of the generated parsers: parse and the parse* methods at    *)
(* the end of parser/ifql.go (promql/promql.go ends with the same text).   *)
(*                                                                         *)
(* Parsing an expression at position p of a text yields a record           *)
(*   ok    whether it matched                                              *)
(*   at    the position after the match (where the parser stands)          *)
(*   val   the value of the match                                          *)
(*   lab   the labels it stores in the map on top of vstack                *)
(*   errs  the errors added to p.errs.                                     *)
(* Two features of the code matter.  A labelled value is visible to the    *)
(* action of the sequence it occurs in and nowhere else, because choices,  *)
(* repetitions, labels and rules push a map of their own on vstack and     *)
(* sequences and actions do not.  And an error that an action returns is   *)
(* kept for good, also when the parser later abandons the alternative that *)
(* ran the action.  A panic in an action is recovered by parse into an     *)
(* error, which ends the parse; as any error makes the parse fail, it is   *)
(* here one more error.                                                    *)
(*                                                                         *)
(* The text of error messages, the farthest failure position and the       *)
(* parser's statistics are left out.                                       *)
(***************************************************************************)
EXTENDS PEGForms, FiniteSets

CONSTANTS
    Rules,         \* the grammar table: name of a rule -> parsing expression
    Start,         \* the first rule of the grammar
    Steps,         \* the rules whose results are tabulated (see below)
    Lower,         \* unicode.ToLower on the characters of the model
    Run(_, _, _)   \* an action: callback, labels and text -> [val, errs]

NoLabels == [l \in {} |-> l]

Matched(at, val) ==
    [ok |-> TRUE, at |-> at, val |-> val, lab |-> NoLabels, errs |-> {}]

Failed(at, errs) ==
    [ok |-> FALSE, at |-> at, val |-> Nil, lab |-> NoLabels, errs |-> errs]

Slice(t, from, to) == IF from >= to THEN "" ELSE SubSeq(t, from, to - 1)

CharAt(t, p) == SubSeq(t, p, p)

LowerAt(t, p) == LET c == CharAt(t, p) IN IF c \in DOMAIN Lower THEN Lower[c] ELSE c

parseLitMatcher(e, t, p) ==
    LET end == p + Len(e.s)
        same(i) == CharAt(e.s, i) = IF e.fold THEN LowerAt(t, p + i - 1)
                                              ELSE CharAt(t, p + i - 1)
    IN  IF end <= Len(t) + 1 /\ \A i \in 1 .. Len(e.s) : same(i)
        THEN Matched(end, Slice(t, p, end))
        ELSE Failed(p, {})

parseCharClassMatcher(e, t, p) ==
    IF p <= Len(t) /\ (CharAt(t, p) \in e.chars) # e.inverted
    THEN Matched(p + 1, CharAt(t, p))
    ELSE Failed(p, {})

parseAnyMatcher(t, p) ==
    IF p <= Len(t) THEN Matched(p + 1, CharAt(t, p)) ELSE Failed(p, {})

-----------------------------------------------------------------------------
(***************************************************************************)
(* The parser is recursive.  What a rule yields at a position is a         *)
(* function of the text alone: the rule gets a map of its own for labels,  *)
(* and errors are only ever added.  The model uses this to take the        *)
(* recursion in small steps.  A table holds what the rules in Steps yield  *)
(* at the positions from the end of the text backwards, one entry per      *)
(* step; a reference to such a rule reads the table where it has an entry  *)
(* and recurs otherwise.                                                   *)
(***************************************************************************)
NoTable == [r \in {Steps[i] : i \in DOMAIN Steps} |-> <<>>]

Entered(T, t, r, p) == r \in DOMAIN T /\ Len(t) + 2 - p <= Len(T[r])

Entry(T, t, r, p) == T[r][Len(t) + 2 - p]

RECURSIVE parseExpr(_, _, _, _), parseSeqExpr(_, _, _, _, _, _),
          parseChoiceExpr(_, _, _, _, _, _), parseOneOrMoreExpr(_, _, _, _)

\* The rest of a sequence from its i-th expression on; r is the result so far.
parseSeqExpr(es, i, t, p, T, r) ==
    IF i > Len(es) THEN r
    ELSE LET m == parseExpr(es[i], t, r.at, T)
             l == [x \in DOMAIN r.lab \cup DOMAIN m.lab |->
                      IF x \in DOMAIN m.lab THEN m.lab[x] ELSE r.lab[x]]
         IN  IF m.ok
             THEN parseSeqExpr(es, i + 1, t, p, T,
                      [ok |-> TRUE, at |-> m.at, val |-> Append(r.val, m.val),
                       lab |-> l, errs |-> r.errs \cup m.errs])
             ELSE Failed(p, r.errs \cup m.errs)

\* The alternatives from the i-th on, in order: the first that matches.
parseChoiceExpr(es, i, t, p, T, errs) ==
    IF i > Len(es) THEN Failed(p, errs)
    ELSE LET m == parseExpr(es[i], t, p, T)
         IN  IF m.ok THEN [m EXCEPT !.lab = NoLabels, !.errs = @ \cup errs]
                     ELSE parseChoiceExpr(es, i + 1, t, p, T, errs \cup m.errs)

\* The loop of parseZeroOrMoreExpr and parseOneOrMoreExpr; r has the values
\* matched so far.  The loop does not ask for progress: an expression that
\* matches the empty text would repeat for ever.
parseOneOrMoreExpr(e, t, T, r) ==
    LET m == parseExpr(e, t, r.at, T)
    IN  IF m.ok
        THEN parseOneOrMoreExpr(e, t, T,
                 [r EXCEPT !.at = m.at, !.val = Append(@, m.val), !.errs = @ \cup m.errs])
        ELSE [r EXCEPT !.errs = @ \cup m.errs]

parseZeroOrOneExpr(m) == [m EXCEPT !.ok = TRUE, !.lab = NoLabels]

\* Lookahead: the position is restored and the value is nil.
parseNotExpr(m, p) == [Matched(p, Nil) EXCEPT !.ok = ~ m.ok, !.errs = m.errs]

parseAndExpr(m, p) == [Matched(p, Nil) EXCEPT !.ok = m.ok, !.errs = m.errs]

parseLabeledExpr(l, m) == IF m.ok THEN [m EXCEPT !.lab = [x \in {l} |-> m.val]] ELSE m

\* The action runs on the labels and the text of a match.
parseActionExpr(run, m, t, p) ==
    LET a == Run(run, m.lab, Slice(t, p, m.at))
    IN  IF m.ok THEN [m EXCEPT !.val = a.val, !.errs = @ \cup a.errs] ELSE m

parseExpr(e, t, p, T) ==
    CASE e.k = "ref"    -> IF Entered(T, t, e.name, p) THEN Entry(T, t, e.name, p)
                           ELSE IF e.name \notin DOMAIN Rules THEN Failed(p, {"undefined rule"})
                           ELSE [parseExpr(Rules[e.name], t, p, T) EXCEPT !.lab = NoLabels]
      [] e.k = "seq"    -> parseSeqExpr(e.exprs, 1, t, p, T, Matched(p, <<>>))
      [] e.k = "choice" -> parseChoiceExpr(e.alternatives, 1, t, p, T, {})
      [] e.k = "class"  -> parseCharClassMatcher(e, t, p)
      [] e.k = "lit"    -> parseLitMatcher(e, t, p)
      [] e.k = "star"   -> parseOneOrMoreExpr(e.expr, t, T, Matched(p, <<>>))
      [] e.k = "action" -> parseActionExpr(e.run, parseExpr(e.expr, t, p, T), t, p)
      [] e.k = "label"  -> parseLabeledExpr(e.label, parseExpr(e.expr, t, p, T))
      [] e.k = "plus"   -> LET r == parseOneOrMoreExpr(e.expr, t, T, Matched(p, <<>>))
                           IN  IF r.val = <<>> THEN Failed(p, r.errs) ELSE r
      [] e.k = "opt"    -> parseZeroOrOneExpr(parseExpr(e.expr, t, p, T))
      [] e.k = "not"    -> parseNotExpr(parseExpr(e.expr, t, p, T), p)
      [] e.k = "and"    -> parseAndExpr(parseExpr(e.expr, t, p, T), p)
      [] e.k = "any"    -> parseAnyMatcher(t, p)

\* One more entry of the table: the first rule of Steps that has no entry yet at
\* the position where the last one needs one.
Tabulated(T, t) == Len(T[Steps[Len(Steps)]]) = Len(t) + 1

Tabulate(T, t) ==
    LET n == Len(T[Steps[Len(Steps)]])
        i == CHOOSE j \in DOMAIN Steps : /\ Len(T[Steps[j]]) = n
                                         /\ \A h \in 1 .. j - 1 : Len(T[Steps[h]]) > n
        r == Steps[i]
    IN  [T EXCEPT ![r] = Append(@, [parseExpr(Rules[r], t, Len(t) + 1 - n, T)
                                        EXCEPT !.lab = NoLabels])]

\* Parse: the value of the start rule, or an error; any error recorded on the
\* way makes the parse fail.
parse(T, t) ==
    LET m == parseExpr(ruleRefExpr(Start), t, 1, T)
    IN  IF m.ok /\ m.errs = {} THEN [ok |-> TRUE, val |-> m.val, errs |-> {}]
        ELSE [ok |-> FALSE, val |-> Nil,
              errs |-> IF m.errs = {} THEN {"no match found"} ELSE m.errs]
=============================================================================
