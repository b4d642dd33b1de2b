------------------------------ MODULE Compiler ------------------------------
(***************************************************************************)
(* compiler.Translate for a LogQL target: resolve, validate, emit, report,  *)
(* over the one tree every phase shares.  The expression translated is      *)
(* chosen by the resolver's actions, so a behaviour is one translation of   *)
(* any expression within the bounds.                                        *)
(***************************************************************************)
EXTENDS Resolver, LogQLEmitter

VARIABLES
    pc,       \* the phase translate has come to
    report    \* the fidelity report of a finished translation

vars == <<resolverVars, validatorVars, emitterVars, pc, report>>

ASSUME EmittedTarget == Target = "logql"

Phases == {"resolving", "validating", "emitting", "reporting", "done", "failed"}

NoReport == [rows |-> {}, partial |-> 0, unsupported |-> 0]

-----------------------------------------------------------------------------
(* The fidelity report. *)

ChildNodes(nodes) == UNION {{Children(n)[i] : i \in DOMAIN Children(n)} : n \in nodes}

(* Every node of the tree.  A resolved tree holds every query and stage it    *)
(* allocated, and what hangs below one is two levels deep.                    *)
Present ==
    LET allocated == {QueryNode(q) : q \in DOMAIN query}
                       \cup {StageNode(s) : s \in DOMAIN stage}
        below == ChildNodes(allocated)
    IN  allocated \cup below \cup ChildNodes(below \ allocated)

CarriedBy(f) == {n \in Present : flag[n] = f}

(* A row of the report has the fields of a verdict. *)
FlagRows ==
    {Verdict(n, flag[n], reason[n]) : n \in CarriedBy(PARTIAL) \cup CarriedBy(UNSUPPORTED)}

SameRow(v, w) == <<v.node, v.path, v.reason>> = <<w.node, w.path, w.reason>>

(* Mutant: the report is made from the flags alone. *)
NoIssueRows == {}

(* Findings the flags do not already show. *)
IssueRows == {v \in issues : \A row \in FlagRows : ~SameRow(row, v)}

(* The counts are taken from the flags alone. *)
GenerateWithIssues ==
    report' = [rows |-> FlagRows \cup IssueRows,
               partial |-> Cardinality(CarriedBy(PARTIAL)),
               unsupported |-> Cardinality(CarriedBy(UNSUPPORTED))]

Done == pc = "done"
Complete == Done /\ report.unsupported = 0
Lossless == Complete /\ report.partial = 0

-----------------------------------------------------------------------------
(* The phases, one after the other. *)

Resolve ==
    /\ pc = "resolving" /\ ResolverNext
    /\ UNCHANGED <<validatorVars, emitterVars, pc, report>>

(* A caller that has given up, a query that does not parse, a construct the   *)
(* resolver refuses: nothing is returned but the error.                       *)
Fail ==
    /\ pc = "resolving" /\ pc' = "failed"
    /\ query' = << >> /\ stage' = << >> /\ stack' = << >> /\ authored' = << >>
    /\ UNCHANGED <<validatorVars, emitterVars, report>>

BeginValidation ==
    /\ pc = "resolving" /\ ResolvedRoot /\ pc' = "validating"
    /\ StartValidation(Root)
    /\ UNCHANGED <<resolverVars, emitterVars, report>>

Validate ==
    /\ pc = "validating" /\ ValidatorNext
    /\ UNCHANGED <<stack, authored, emitterVars, pc, report>>

BeginEmission ==
    /\ pc = "validating" /\ Validated /\ pc' = "emitting"
    /\ StartEmission(Root)
    /\ UNCHANGED <<resolverVars, validatorVars, report>>

Emit ==
    /\ pc = "emitting" /\ EmitterNext
    /\ pc' = IF frames' = << >> THEN "reporting" ELSE pc
    /\ UNCHANGED <<resolverVars, validatorVars, report>>

GenerateReport ==
    /\ pc = "reporting" /\ pc' = "done"
    /\ GenerateWithIssues
    /\ UNCHANGED <<resolverVars, validatorVars, emitterVars>>

Returned == pc \in {"done", "failed"} /\ UNCHANGED vars

Init ==
    /\ ResolverInit /\ ValidatorInit /\ EmitterInit
    /\ pc = "resolving" /\ report = NoReport

(* What translate does by itself once the expression is resolved. *)
Proceed == Validate \/ BeginEmission \/ Emit \/ GenerateReport

Next == Resolve \/ Fail \/ BeginValidation \/ Proceed \/ Returned

(* The phases run in the caller's goroutine and wait for nothing, so a        *)
(* translation that can take a step takes one.                                *)
Spec == Init /\ [][Next]_vars /\ WF_vars(Proceed)

-----------------------------------------------------------------------------
(* What a verdict gives for a reason, "" where there is none. *)
Reasons ==
    {"", "absent data", "stage order", "subquery", "no samples", "offset without range",
     "no log body", "regex dialect", "bool", "no function", "other axis",
     "no aggregation", "join", "arithmetic", "no window"}

VerdictRecord ==
    [node : Node, path : {"walked", "bare"}, flag : Flags, reason : Reasons]

(* What a filter addresses, the functions, the aggregations' operators. *)
StageNames ==
    {"", FieldBody, FieldValue, "label"}
      \cup RangeFunctions \cup LogStages \cup {"sort", "abs", "histogram_fraction", "literal"}
      \cup {"RATE", "SUM", "QUANTILE", "COUNT_DISTINCT"}

Comparisons == {"", "equal", "regex", "contains", "greater"}

StageRecord ==
    [type : {"Filter", "Function", "Aggregation", "Join", "BinaryOp", "UnaryOp"},
     what : StageNames, scope : {"", "TEMPORAL", "GROUP"}, op : Comparisons, bool : Nat,
     args : Seq(QueryId)]

QueryRecord ==
    [signal : {"METRIC", "LOG"}, source : SourceKinds \cup {"none", "name"},
     pipeline : Seq(StageId), step : BOOLEAN, offset : Nat, subquery : Nat, pinned : Nat]

(* Every variable keeps its type, and a pipeline holds no stage the resolver  *)
(* did not allocate (the slices of ir.Query and the walk's path bookkeeping). *)
TypeOK ==
    /\ query \in Seq(QueryRecord) /\ Len(query) <= MaxQueries
    /\ stage \in Seq(StageRecord) /\ Len(stage) <= MaxStages
    /\ \A q \in DOMAIN query : \A i \in DOMAIN Pipeline(q) : Pipeline(q)[i] \in DOMAIN stage
    /\ \A s \in DOMAIN stage : \A i \in DOMAIN stage[s].args :
          stage[s].args[i] \in DOMAIN query
    /\ \A i \in DOMAIN stack : stack[i].q \in DOMAIN query
    /\ toVisit \in Seq(Node) /\ verdicts \subseteq VerdictRecord
    /\ flag \in [Node -> Flags] /\ reason \in [Node -> Reasons]
    /\ issues \subseteq VerdictRecord /\ mismatch \in BOOLEAN
    /\ offsetWritten \in BOOLEAN /\ notes \subseteq Node /\ written \subseteq Node
    /\ pc \in Phases
    /\ report.rows \subseteq VerdictRecord /\ {report.partial, report.unsupported} \subseteq Nat

(* A node judged several times carries the worst verdict ever reached about   *)
(* it and the reason given for that one, in whatever order the walk and the   *)
(* whole-query checks reached them (validator.go report).                     *)
FlagIsWorstVerdict ==
    /\ \A v \in issues : v.flag <= flag[v.node]
    /\ \A n \in Node : flag[n] # FULL =>
          \E v \in issues : v.node = n /\ v.flag = flag[n] /\ v.reason = reason[n]

(* Every verdict, also one that a worse verdict on the same node has masked,  *)
(* is a row of the report, and every row is a verdict (reporter.go            *)
(* GenerateWithIssues).  None is a row twice, but for the sort's: they are    *)
(* listed under a path that the flags' rows do not have (validator.go         *)
(* checkPipelineOrder), so one the stage also carries is stated again.        *)
EveryVerdictReported ==
    Done =>
      LET Fact(v) == <<v.node, v.flag, v.reason>>
      IN  /\ {Fact(v) : v \in report.rows} = {Fact(v) : v \in issues}
          /\ \A v, w \in report.rows :
                Fact(v) = Fact(w) => v = w \/ v.reason = "stage order"

-----------------------------------------------------------------------------
(* The order of stages.  Stages are allocated in the order they are written,  *)
(* so their ids tell what the order was before the sort.                      *)

InPipeline(q) == {Pipeline(q)[i] : i \in DOMAIN Pipeline(q)}
NowBefore(q, s, t) == Position(q, s) < Position(q, t)
MovedAcross(q, s, t) == s < t /\ NowBefore(q, t, s)
PastValidation == pc \in {"emitting", "reporting", "done"}

(* A LogQL pipeline leaves the validator in rank order, and stages of a rank  *)
(* keep the order they were written in, in nested queries too                 *)
(* (pipeline_order.go checkPipelineOrder, called for every query walked).     *)
StableSorted ==
    PastValidation =>
      \A q \in DOMAIN query : \A s, t \in InPipeline(q) :
         NowBefore(q, s, t) <=>
           LET r == rankOf(stage[s], def) u == rankOf(stage[t], def)
           IN  r < u \/ (r = u /\ s < t)

ReadsWhat(s) ==
    CASE stage[s].type = "Filter" -> IF stage[s].what = FieldBody THEN "line"
                                     ELSE IF stage[s].what = FieldValue THEN "value"
                                     ELSE "labels"
      [] stage[s].what = "unwrap" -> "labels"
      [] OTHER -> "nothing"
WritesWhat(s) ==
    CASE changesLabels(stage[s]) -> "labels" [] changesLine(stage[s]) -> "line"
      [] OTHER -> "no input"

(* A filter or an unwrap that the sort carries across a stage rewriting what  *)
(* it reads is never left unremarked: one stage of the pair is flagged        *)
(* (pipeline_order.go crossedProducer, which reports moved stages only).      *)
SwappedPairFlagged ==
    PastValidation =>
      \A q \in DOMAIN query : \A s, t \in InPipeline(q) :
         (MovedAcross(q, s, t) /\ (ReadsWhat(s) = WritesWhat(t) \/ ReadsWhat(t) = WritesWhat(s)))
            => flag[StageNode(s)] # FULL \/ flag[StageNode(t)] # FULL

-----------------------------------------------------------------------------
(* What the translation loses. *)

Args(s) == {stage[s].args[i] : i \in DOMAIN stage[s].args}
Operands(q) == UNION {Args(s) : s \in InPipeline(q)}

(* The queries below some, these included: the least set that holds them and, *)
(* with a query, its operands.                                                *)
Under(some) ==
    {p \in DOMAIN query :
        \A S \in SUBSET DOMAIN query :
           (some \subseteq S /\ \A q \in S : Operands(q) \subseteq S) => p \in S}

Noted(s) == StageNode(s) \in notes

(* A join that could not be written takes its right side with it. *)
LostQueries ==
    Under(UNION {Args(s) : s \in {t \in DOMAIN stage : stage[t].type = "Join" /\ Noted(t)}})
LostWithJoin == UNION {InPipeline(q) : q \in LostQueries}

Bare(s) == stage[s].type = "BinaryOp" /\ ~HasOperands(stage[s])

SilentlyLost ==
    {s \in DOMAIN stage \ LostWithJoin :
        StageNode(s) \notin written /\ ~Noted(s) /\ ~Bare(s)}

(* Whatever the text does not hold, a comment line above it speaks of, with   *)
(* one exception: a stage that followed an operator or a number, was put      *)
(* ahead of it by the sort, and went when the operator's text replaced what   *)
(* it had been written into (logql/emitter.go applyBinaryOp).                 *)
SilentLossOnlyByReorder ==
    Done =>
      \A s \in SilentlyLost :
         \E q \in DOMAIN query : \E t \in InPipeline(q) :
            /\ HasOperands(stage[t]) \/ stage[t].what = "literal"
            /\ s \in InPipeline(q) /\ MovedAcross(q, t, s)

OtherAxis(n) == n[1] = "Stage" /\ reason[n] = "other axis"
Pinned(n) == n[1] = "Range"

(* A comparison written without its bool, which the report shows as partial.  *)
Reworded(n) == n[1] = "Predicate" /\ flag[StageNode(n[2])] = PARTIAL

(* A LogQL pipeline re-emitted as LogQL is never refused: whatever the sort   *)
(* did to it, its aggregations still find samples and no stage is left out    *)
(* (validator.go checkAggregationOperand against logql/emitter.go).  Of a     *)
(* comparison that LogQL's own parser reads with a bool the bool is not       *)
(* written, which is noted and reported (applyValueComparison, checkFilter).  *)
SameLanguageIsComplete ==
    (Done /\ Source = Target) => Complete /\ \A n \in notes : Reworded(n)

(* When the report says that everything could be expressed, the emitter has   *)
(* left nothing out for reasons of its own, but for a query pinned to an      *)
(* instant and an aggregation the target has on another axis; and what it     *)
(* wrote otherwise than it was asked the report shows as partial              *)
(* (logql/emitter.go applyStage against validator.go).                        *)
RefusalsAreUnsupported ==
    Complete => \A n \in notes : Pinned(n) \/ OtherAxis(n) \/ Reworded(n)

(* A window whose offset the text does not hold has a note saying so, unless  *)
(* the text holds another's: offsetWritten is the writer's, not the query's   *)
(* (logql/emitter.go noteDroppedOffset).                                      *)
DroppedOffsetsNoted ==
    Done => \A q \in DOMAIN query \ LostQueries :
       (query[q].offset > 0 /\ <<"Window", q>> \notin written)
          => \/ <<"Window", q>> \in notes
             \/ \E p \in DOMAIN query \ {q} : <<"Window", p>> \in written

-----------------------------------------------------------------------------
(* What resolution loses. *)

Kept(k) ==
    LET m == authored[k] IN
    CASE m.construct = "offset" -> query[m.home].offset = k
      [] m.construct = "@" -> query[m.home].pinned = k
      [] m.construct = "subquery" -> query[m.home].subquery = k
      [] m.construct = "bool" -> \E s \in DOMAIN stage : stage[s].bool = k
      [] m.construct = "less" -> stage[m.home].op = "less"
      [] OTHER -> FALSE

(* A modifier the author wrote is in the IR unless it is one the IR has no    *)
(* field for, or the same modifier was written again around the same query:   *)
(* an inner offset survives a subquery that has none of its own, and a bool   *)
(* survives whatever is folded in after it (resolve_promql.go).               *)
LossesAreKnown ==
    \A k \in DOMAIN authored :
       \/ Kept(k) \/ authored[k].construct \in {"less", "bool between series"}
       \/ \E j \in DOMAIN authored : j > k /\ authored[j] = authored[k]

-----------------------------------------------------------------------------
(* Once resolved, a translation returns: reordering a pipeline under the walk *)
(* and emitting operands within operands both come to an end.                 *)
TranslationReturns == (pc = "validating") ~> Done
=============================================================================
