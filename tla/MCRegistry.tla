---------------------------- MODULE MCRegistry -----------------------------
(***************************************************************************)
(* Two goroutines, a directory of two files and somebody editing it.        *)
(***************************************************************************)
EXTENDS Registry

CONSTANTS t1, t2

(* A caller may spell a name as it likes, and may ask for one that is not     *)
(* there.                                                                     *)
Names == [x \in {"promql", "PromQL", "traceql"} |->
            IF x = "traceql" THEN "traceql" ELSE "promql"]

Rate == [kind |-> "RATE", scope |-> "", args |-> <<"range">>, returns |-> "DOUBLE",
         arity |-> 1, variadic |-> 0]

Promql ==
    [parses |-> TRUE, dsl |-> "promql", signals |-> {"METRIC"}, coercions |-> {"range"},
     functions |-> {Rate}, joins |-> TRUE, joinTypes |-> {"INNER"},
     claims |-> {}, spells |-> {}, revision |-> 1]

Traceql ==
    [Promql EXCEPT !.dsl = "traceql", !.signals = {"SPAN"}, !.functions = {},
                   !.claims = {"CHILD"}, !.spells = {<<"CHILD", ">">>}]

Respelled == [Promql EXCEPT !.dsl = "PromQL", !.revision = 2]

(* A file that must not load. *)
Unspelled == [Traceql EXCEPT !.spells = {}]

Versions == {Promql, Respelled, Traceql, Unspelled}

Directory == [f \in {1, 2} |-> IF f = 1 THEN Promql ELSE Traceql]
CompiledIn == <<Promql, Traceql>>
=============================================================================
