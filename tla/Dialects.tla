------------------------------ MODULE Dialects ------------------------------
(***************************************************************************)
(* What the registry says of each language, as far as the validator and the *)
(* emitter ask: one record per definition file.                             *)
(*                                                                         *)
(* Functions and aggregations are the representatives the models build      *)
(* queries from; names the languages treat alike share a representative.    *)
(***************************************************************************)

CONSTANTS Source,   \* the language the query is written in
          Target    \* the language it is translated into

RangeFunctions == {"bytes_rate", "stdvar_over_time"}
Parsers == {"parse_json"}
LabelFormatters == {"label_format", "drop_labels", "keep_labels"}
LineFormatters == {"line_format", "decolorize"}
LogStages == Parsers \cup LabelFormatters \cup LineFormatters \cup {"unwrap"}

Promql ==
    [dsl |-> "promql", signals |-> {"METRIC"}, nanAsSentinel |-> TRUE,
     joins |-> TRUE, subqueries |-> TRUE, pipelineOrdered |-> FALSE,
     boolModifier |-> TRUE, arithmetic |-> TRUE, temporalWindows |-> TRUE,
     groupAggregationNeedsSamples |-> FALSE, offsetNeedsRange |-> FALSE,
     functions |-> {"stdvar_over_time", "sort", "abs", "histogram_fraction"},
     rangeFunctions |-> {"stdvar_over_time"},
     aggregations |-> {<<"RATE", "TEMPORAL">>, <<"SUM", "TEMPORAL">>, <<"SUM", "GROUP">>,
                       <<"QUANTILE", "TEMPORAL">>, <<"QUANTILE", "GROUP">>,
                       <<"COUNT_DISTINCT", "GROUP">>}]

Logql ==
    [dsl |-> "logql", signals |-> {"LOG"}, nanAsSentinel |-> FALSE,
     joins |-> FALSE, subqueries |-> FALSE, pipelineOrdered |-> TRUE,
     boolModifier |-> FALSE, arithmetic |-> TRUE, temporalWindows |-> TRUE,
     groupAggregationNeedsSamples |-> TRUE, offsetNeedsRange |-> TRUE,
     functions |-> RangeFunctions \cup LogStages \cup {"sort"},
     rangeFunctions |-> RangeFunctions,
     aggregations |-> {<<"RATE", "TEMPORAL">>, <<"SUM", "TEMPORAL">>, <<"SUM", "GROUP">>,
                       <<"QUANTILE", "TEMPORAL">>}]

Traceql ==
    [dsl |-> "traceql", signals |-> {"SPAN"}, nanAsSentinel |-> FALSE,
     joins |-> FALSE, subqueries |-> FALSE, pipelineOrdered |-> FALSE,
     boolModifier |-> FALSE, arithmetic |-> FALSE, temporalWindows |-> FALSE,
     groupAggregationNeedsSamples |-> FALSE, offsetNeedsRange |-> FALSE,
     functions |-> {}, rangeFunctions |-> {},
     aggregations |-> {<<"SUM", "GROUP">>}]

Dialect == [promql |-> Promql, logql |-> Logql, traceql |-> Traceql]

ASSUME LanguagesAssumption == Source \in DOMAIN Dialect /\ Target \in DOMAIN Dialect

-----------------------------------------------------------------------------
(* The questions the validator and the emitters put to a definition. *)

SupportsSignal(def, signal) == signal \in def.signals
FunctionByIRName(def, name) == name \in def.functions
FunctionForAggregation(def, op, scope) == <<op, scope>> \in def.aggregations
FunctionsForAggOp(def, op) == {a \in def.aggregations : a[1] = op}
ReadsRangeOperand(def, name) == name \in def.rangeFunctions
=============================================================================
