------------------------------ MODULE Resolver ------------------------------
(***************************************************************************)
(* Resolution of a parsed PromQL or LogQL expression into the IR.           *)
(*                                                                         *)
(* The resolver recurses over an AST; here the expression is visited in     *)
(* postorder, so that each action is one resolveX applied to operands       *)
(* already on a stack.  The stack records what type the language's own      *)
(* parser gives each operand, and an action is enabled only where that      *)
(* parser admits the construct, so exactly the queries the two grammars can *)
(* produce are built.                                                       *)
(***************************************************************************)
EXTENDS IR, Dialects

CONSTANTS Constructs,  \* the constructs expressions are built from
          MaxModifiers \* bound: modifiers after which no further subquery nests

ASSUME ModelledSource == Source \in {"promql", "logql"}

VARIABLES
    stack,     \* resolved operands not yet consumed: [q |-> query, is |-> its type]
    authored   \* every modifier the author wrote, in order: what the IR should hold

resolverVars == <<heap, stack, authored>>

(* Types of an operand.  LogQL: a log expression, one that has been unwrapped, *)
(* a log range, and a metric expression, which is its only other type.  PromQL:*)
(* a range vector, an instant vector and a scalar.  A bare number is a type of *)
(* its own, because resolveComparisonFilter and resolveOperand look for it.    *)
ScalarType == IF Source = "promql" THEN "scalar" ELSE "vector"
MetricTypes == {"vector", "scalar"}

MetricSignal == IF Source = "promql" THEN "METRIC" ELSE "LOG"

Room(queries, stages) ==
    Len(query) + queries <= MaxQueries /\ Len(stage) + stages <= MaxStages

Top == stack[Len(stack)]
Below == stack[Len(stack) - 1]
Pop(n) == SubSeq(stack, 1, Len(stack) - n)
Operand(types) == stack # << >> /\ Top.is \in types

Allow(construct) == construct \in Constructs

(* newQuery, for a query with a data source and no stage. *)
PushQuery(q, type) ==
    /\ query' = Append(query, q)
    /\ stack' = Append(stack, [q |-> Len(query) + 1, is |-> type])
    /\ UNCHANGED stage

(* newQuery without a data source, for an expression that is its own stage. *)
PushStage(st, operands, type) ==
    LET s == Len(stage) + 1
    IN  /\ stage' = Append(stage, st)
        /\ query' = Append(query, [NewQuery(MetricSignal, "none") EXCEPT !.pipeline = <<s>>])
        /\ stack' = Append(Pop(operands), [q |-> Len(query) + 1, is |-> type])

(* Mutant: the stage is looked for one past where it was put. *)
AppendStageBeyond(st, type) ==
    /\ stage' = Append(stage, st)
    /\ query' = [query EXCEPT ![Top.q].pipeline = Append(@, Len(stage) + 2)]
    /\ stack' = [stack EXCEPT ![Len(stack)].is = type]

(* appendStage: fold the enclosing construct into its operand's query. *)
AppendStage(st, type) ==
    LET s == Len(stage) + 1
    IN  /\ stage' = Append(stage, st)
        /\ query' = [query EXCEPT ![Top.q].pipeline = Append(@, s)]
        /\ stack' = [stack EXCEPT ![Len(stack)].is = type]

-----------------------------------------------------------------------------
(* What the author wrote.  A modifier's occurrence number is its index here.  *)

Wrote(construct, home) == [construct |-> construct, home |-> home]

Modifiers(offset, pinned, q) ==
    authored \o Given(offset, <<Wrote("offset", q)>>) \o Given(pinned, <<Wrote("@", q)>>)

(* Mutant: an absent modifier clears the one already there. *)
OccurrenceOrNone(written, n, otherwise) == IF written THEN Len(authored) + n ELSE 0

Occurrence(written, n, otherwise) == IF written THEN Len(authored) + n ELSE otherwise
PinOccurrence(offset, pinned, otherwise) ==
    Occurrence(pinned, IF offset THEN 2 ELSE 1, otherwise)

Modified(offset, pinned) == (offset => Allow("offset")) /\ (pinned => Allow("@"))

-----------------------------------------------------------------------------
(* PromQL selectors. *)

WithModifiers(q, offset, pinned) ==
    [q EXCEPT !.offset = Occurrence(offset, 1, 0), !.pinned = PinOccurrence(offset, pinned, 0)]

ResolveVectorSelector(matches, offset, pinned) ==
    /\ Source = "promql" /\ Room(1, 0) /\ Modified(offset, pinned)
    /\ Allow("instant selector")
    /\ PushQuery(WithModifiers(NewQuery("METRIC", matches), offset, pinned), "vector")
    /\ authored' = Modifiers(offset, pinned, Len(query) + 1)

ResolveMatrixSelector(matches, offset, pinned) ==
    /\ Source = "promql" /\ Room(1, 0) /\ Modified(offset, pinned)
    /\ PushQuery(WithModifiers([NewQuery("METRIC", matches) EXCEPT !.step = TRUE],
                               offset, pinned), "range")
    /\ authored' = Modifiers(offset, pinned, Len(query) + 1)

(* A subquery leaves the inner window's step where it is, and writes its own   *)
(* range, offset and pinned instant over whatever the query already holds.     *)
ResolveSubqueryExpr(offset, pinned) ==
    /\ Source = "promql" /\ Allow("subquery") /\ Modified(offset, pinned)
    /\ Operand({"vector"}) /\ Len(authored) < MaxModifiers
    /\ query' = [query EXCEPT
          ![Top.q].offset = Occurrence(offset, 1, @),
          ![Top.q].pinned = PinOccurrence(offset, pinned, @),
          ![Top.q].subquery = Len(Modifiers(offset, pinned, Top.q)) + 1]
    /\ authored' = Append(Modifiers(offset, pinned, Top.q), Wrote("subquery", Top.q))
    /\ stack' = [stack EXCEPT ![Len(stack)].is = "range"]
    /\ UNCHANGED stage

-----------------------------------------------------------------------------
(* LogQL selectors, pipeline stages and ranges. *)

ResolveStreamSelector(matches) ==
    /\ Source = "logql" /\ Room(1, 0)
    /\ PushQuery(NewQuery("LOG", matches), "log")
    /\ UNCHANGED authored

ResolveStage(st) ==
    /\ Source = "logql" /\ Room(0, 1) /\ Operand({"log"})
    /\ AppendStage(st, "log")
    /\ UNCHANGED authored

(* The unwrap and the filters after it belong to the range, and follow the    *)
(* stages of the pipeline.                                                    *)
ResolveUnwrap ==
    /\ Source = "logql" /\ Allow("unwrap") /\ Room(0, 1) /\ Operand({"log"})
    /\ AppendStage(Function("unwrap"), "unwrapping")
    /\ UNCHANGED authored

ResolvePostFilter ==
    /\ Source = "logql" /\ Allow("label filter") /\ Room(0, 1) /\ Operand({"unwrapping"})
    /\ AppendStage(Filter("label", "equal", 0), "unwrapping")
    /\ UNCHANGED authored

ResolveLogRange(offset) ==
    /\ Source = "logql" /\ Modified(offset, FALSE) /\ Operand({"log", "unwrapping"})
    /\ query' = [query EXCEPT ![Top.q].step = TRUE,
                              ![Top.q].offset = Occurrence(offset, 1, 0)]
    /\ authored' = Modifiers(offset, FALSE, Top.q)
    /\ stack' = [stack EXCEPT ![Len(stack)].is =
                    IF @ = "log" THEN "range" ELSE "unwrapped range"]
    /\ UNCHANGED stage

-----------------------------------------------------------------------------
(* Constructs the two languages share. *)

(* A range function: PromQL's resolveCall over a range vector, LogQL's        *)
(* resolveRangeAggregation.  With an IR operator it is a temporal             *)
(* aggregation, without one it stays a function.  LogQL's parser demands an   *)
(* unwrap for the operators that reduce extracted values and refuses it for   *)
(* those that count lines.                                                    *)
ReducesExtractedValues(op) == op \in {"SUM", "QUANTILE", "stdvar_over_time"}

ResolveRangeFunction(op) ==
    /\ Room(0, 1) /\ Allow(op) /\ Operand({"range", "unwrapped range"})
    /\ Source = "logql" => (ReducesExtractedValues(op) <=> Top.is = "unwrapped range")
    /\ \/ /\ <<op, "TEMPORAL">> \in Dialect[Source].aggregations
          /\ AppendStage(Aggregation(op, "TEMPORAL"), "vector")
       \/ /\ op \in Dialect[Source].rangeFunctions
          /\ AppendStage(Function(op), "vector")
    /\ UNCHANGED authored

(* A function over an instant vector, and sort in LogQL. *)
ResolveCall(name) ==
    /\ Room(0, 1) /\ Allow(name) /\ Operand({"vector"})
    /\ name \in Dialect[Source].functions \ (RangeFunctions \cup LogStages)
    /\ AppendStage(Function(name), "vector")
    /\ UNCHANGED authored

(* An aggregation across groups: resolveAggregateExpr, resolveVectorAggregation. *)
(* LogQL's parser takes a bare number for a metric expression.                   *)
ResolveAggregateExpr(op) ==
    /\ Room(0, 1) /\ Allow(op) /\ Operand({"vector"})
    /\ <<op, "GROUP">> \in Dialect[Source].aggregations
    /\ AppendStage(Aggregation(op, "GROUP"), "vector")
    /\ UNCHANGED authored

(* resolveComparisonFilter: a comparison with a number filters the series the *)
(* other side yields.  The operator, ">" here, is taken as written on         *)
(* whichever side the number stands; with the number first, the author asked  *)
(* for the series below it.                                                   *)
ResolveComparisonFilter(numberFirst, bool) ==
    /\ Room(0, 1) /\ Allow("comparison") /\ (bool => Allow("bool"))
    /\ numberFirst => Allow("number first")
    /\ Operand(MetricTypes) /\ (Top.is = "scalar" => bool)
    /\ AppendStage(Filter(FieldValue, "greater", Occurrence(bool, 1, 0)), Top.is)
    /\ authored' = authored \o Given(bool, <<Wrote("bool", Top.q)>>)
                            \o Given(numberFirst, <<Wrote("less", Len(stage) + 1)>>)

(* resolveOperand of a bare number. *)
ResolveLiteral ==
    /\ Room(1, 1) /\ Allow("literal")
    /\ PushStage(Function("literal"), 0, "literal")
    /\ UNCHANGED authored

(* resolveArithmetic: both operands become queries of a fresh query.  A        *)
(* comparison between two series arrives here too, bool modifier and all; the  *)
(* stage has no field for the modifier.                                        *)
ResolveArithmetic(bool) ==
    /\ Room(1, 1) /\ Allow("arithmetic") /\ (bool => Allow("bool")) /\ Len(stack) >= 2
    /\ {Top.is, Below.is} \subseteq MetricTypes \cup {"literal"}
    /\ bool => (Top.is = "literal" <=> Below.is = "literal")
    /\ PushStage(BinaryOp(Below.q, Top.q), 2,
                 IF "vector" \in {Top.is, Below.is} THEN "vector" ELSE ScalarType)
    /\ authored' = authored \o Given(bool, <<Wrote("bool between series", Len(query) + 1)>>)

(* resolveJoin: the left side takes the join and then the bare operator. *)
ResolveJoin ==
    /\ Room(0, 2) /\ Allow("join") /\ Len(stack) >= 2
    /\ Top.is = "vector" /\ Below.is = "vector"
    /\ stage' = stage \o <<Join(Top.q), BinaryOp(None, None)>>
    /\ query' = [query EXCEPT ![Below.q].pipeline =
                    @ \o <<Len(stage) + 1, Len(stage) + 2>>]
    /\ stack' = Pop(1)
    /\ UNCHANGED authored

ResolveUnaryExpr ==
    /\ Room(1, 1) /\ Allow("unary") /\ Operand(MetricTypes \cup {"literal"})
    /\ PushStage(UnaryOp(Top.q), 1, IF Top.is = "vector" THEN "vector" ELSE ScalarType)
    /\ UNCHANGED authored

(* Parentheses leave a hint and nothing else, but a number inside them is no  *)
(* longer a literal to the constructs around it.                              *)
ResolveParenExpr ==
    /\ Operand({"literal"})
    /\ stack' = [stack EXCEPT ![Len(stack)].is = ScalarType]
    /\ UNCHANGED <<heap, authored>>

-----------------------------------------------------------------------------
(* The log pipeline stages LogQL writes after "|". *)
LogStage ==
    {Filter(FieldBody, "contains", 0), Filter("label", "equal", 0),
     Filter("label", "regex", 0), Function("parse_json"),
     Function("label_format"), Function("line_format")}

StageConstruct(st) ==
    CASE st.what = FieldBody -> "line filter"
      [] st.what = "label" -> IF st.op = "regex" THEN "regex" ELSE "label filter"
      [] OTHER -> st.what

SourceKinds == {"equality", "regex"}
AllowedSources == {m \in SourceKinds : m = "regex" => Allow("regex")}

ResolverInit == query = << >> /\ stage = << >> /\ stack = << >> /\ authored = << >>

ResolverNext ==
    \/ \E m \in AllowedSources \cup {"name"}, offset, pinned \in BOOLEAN :
          \/ ResolveVectorSelector(m, offset, pinned)
          \/ ResolveMatrixSelector(m, offset, pinned)
    \/ \E offset, pinned \in BOOLEAN : ResolveSubqueryExpr(offset, pinned)
    \/ \E m \in AllowedSources : ResolveStreamSelector(m)
    \/ \E st \in LogStage : Allow(StageConstruct(st)) /\ ResolveStage(st)
    \/ ResolveUnwrap \/ ResolvePostFilter
    \/ \E offset \in BOOLEAN : ResolveLogRange(offset)
    \/ \E op \in {"RATE", "SUM", "QUANTILE", "COUNT_DISTINCT", "bytes_rate",
                  "stdvar_over_time"} :
          ResolveRangeFunction(op) \/ ResolveAggregateExpr(op)
    \/ \E name \in {"sort", "abs", "histogram_fraction"} : ResolveCall(name)
    \/ \E bool \in BOOLEAN : ResolveArithmetic(bool)
    \/ \E numberFirst, bool \in BOOLEAN : ResolveComparisonFilter(numberFirst, bool)
    \/ ResolveLiteral \/ ResolveJoin
    \/ ResolveUnaryExpr \/ ResolveParenExpr

(* Resolve returns when one operand is left and it is a whole expression: a   *)
(* log query, an instant vector or a number, never an open range.             *)
ResolvedRoot == Len(stack) = 1 /\ Top.is \in MetricTypes \cup {"log", "literal"}
Root == stack[1].q
=============================================================================
