----------------------------- MODULE MCFilters -----------------------------
(***************************************************************************)
(* Every filter of a few comparisons, from each language to each other one  *)
(* and back to its own.                                                     *)
(***************************************************************************)
EXTENDS Filters

T(k, o, v) == [key |-> k, op |-> o, values |-> {v}]
FewTests == {T("a", "=", 1), T("a", "=", 2), T("b", "!=", 1), T("a", ">", 1), T(FieldBody, "|=", 1)}
EveryPair == Languages \X Languages

(* The pair that shows a filter loosened. *)
LogsToSpans == {<<"logql", "traceql">>}
=============================================================================
