---------------------------- MODULE PEGForms ----------------------------
(***************************************************************************)
(* The forms of parsing expressions from which the generated parsers of    *)
(* parser/ifql.go and promql/promql.go build their grammar tables.  A      *)
(* parsing expression is a record whose field k names the Go type of the   *)
(* table entry.  Characters are strings of length one; a character class   *)
(* is the set of the characters it lists.  Positions of the entries in the *)
(* grammar file (field pos of every Go type) are left out.                 *)
(***************************************************************************)
EXTENDS Naturals, Sequences

\* The value nil of an interface.
Nil == <<"nil">>

litMatcher(s) == [k |-> "lit", s |-> s, fold |-> FALSE]

\* ignoreCase: the input, not the literal, is lowered.
litMatcherI(s) == [k |-> "lit", s |-> s, fold |-> TRUE]

charClassMatcher(C) == [k |-> "class", chars |-> C, inverted |-> FALSE]

charClassMatcherInverted(C) == [k |-> "class", chars |-> C, inverted |-> TRUE]

anyMatcher == [k |-> "any"]

seqExpr(es) == [k |-> "seq", exprs |-> es]

choiceExpr(es) == [k |-> "choice", alternatives |-> es]

zeroOrMoreExpr(e) == [k |-> "star", expr |-> e]

oneOrMoreExpr(e) == [k |-> "plus", expr |-> e]

zeroOrOneExpr(e) == [k |-> "opt", expr |-> e]

notExpr(e) == [k |-> "not", expr |-> e]

andExpr(e) == [k |-> "and", expr |-> e]

labeledExpr(l, e) == [k |-> "label", label |-> l, expr |-> e]

\* run names the function that the callback of the action calls.
actionExpr(run, e) == [k |-> "action", run |-> run, expr |-> e]

ruleRefExpr(r) == [k |-> "ref", name |-> r]
=========================================================================
