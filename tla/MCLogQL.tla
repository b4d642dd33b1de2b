------------------------------ MODULE MCLogQL ------------------------------
(***************************************************************************)
(* LogQL into LogQL: what re-emitting a query in the language it was        *)
(* written in does to the order of its stages, and what it loses.           *)
(***************************************************************************)
EXTENDS Compiler

(* One selector and its pipeline: everything the sort can move. *)
PipelineConstructs ==
    {"line filter", "label filter", "label_format", "line_format", "parse_json", "unwrap",
     "bytes_rate", "RATE", "SUM", "sort", "comparison", "bool"}

(* Operators and bare numbers, around short pipelines. *)
OperatorConstructs ==
    {"label filter", "parse_json", "RATE", "SUM", "sort", "comparison", "literal",
     "arithmetic", "unary", "offset"}
=============================================================================
