------------------------------ MODULE MCPromQL ------------------------------
(***************************************************************************)
(* PromQL into LogQL: the verdicts a crossing collects, whether the report  *)
(* shows them all, and which of the author's modifiers survive resolution.  *)
(***************************************************************************)
EXTENDS Compiler

(* Constructs a LogQL target judges, some of them twice. *)
VerdictConstructs ==
    {"instant selector", "@", "subquery", "regex", "RATE", "SUM", "QUANTILE",
     "COUNT_DISTINCT", "comparison", "bool", "join", "arithmetic", "histogram_fraction"}

(* Modifiers, and what may be written around the queries that carry them. *)
ModifierConstructs ==
    {"instant selector", "offset", "@", "subquery", "RATE", "comparison", "bool",
     "number first", "arithmetic"}
=============================================================================
