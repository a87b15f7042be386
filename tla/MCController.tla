---------------------------- MODULE MCController ----------------------------
(***************************************************************************)
(* Model values for the queries of Controller: they are interchangeable.   *)
(***************************************************************************)
EXTENDS Controller, TLC

Symmetry == Permutations(Query)
=============================================================================
