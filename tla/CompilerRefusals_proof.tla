----------------------- MODULE CompilerRefusals_proof -----------------------
(***************************************************************************)
(* Proofs that the validator and the emitter agree on what LogQL cannot     *)
(* say, by two walks that decide it on their own: what has been judged and  *)
(* how, what the calls of the emitter know, and that nothing passes one of  *)
(* the two that the other refuses.                                          *)
(***************************************************************************)
EXTENDS CompilerLosses_proof

-----------------------------------------------------------------------------
(* What the checks find, and that the walk makes every one. *)

(* What the walk has found, whether or not Report has come to it. *)
Known == issues \cup verdicts

(* The checks a sorted query calls for. *)
QueryChecks(q) ==
    checkSubquery(q) \cup checkAggregationOperand(q, Pipeline(q)) \cup checkOffset(q, Pipeline(q))

(* The checks of the queries visited have been made, and those of their       *)
(* stages have or are ahead.                                                  *)
Heard(V) ==
    \A q \in V : /\ QueryChecks(q) \subseteq Known
                 /\ \A s \in InPipeline(q) :
                       Ahead(StageNode(s)) \/ checkStage(s) \subseteq Known

(* A verdict against a stage is one its kind can be given. *)
Fitting(v) ==
    v.node[1] = "Stage" =>
      LET st == stage[v.node[2]]
      IN  /\ IsOperator(st) => v.flag # UNSUPPORTED
          /\ (st.type = "Aggregation" /\ v.flag = PARTIAL) => v.reason = "other axis"

FittingOK ==
    /\ pc \in {"resolving", "failed"} => issues = {}
    /\ \A v \in Known : Fitting(v)

JudgedOK ==
    /\ pc = "validating" => \E V \in SUBSET DOMAIN query : Visited(V) /\ Heard(V)
    /\ PastValidation =>
          /\ \A q \in DOMAIN query : QueryChecks(q) \subseteq issues
          /\ \A s \in DOMAIN stage : checkStage(s) \subseteq issues

(* The verdicts of one check. *)
LEMMA RaisedFits ==
  ASSUME NEW c, NEW n, NEW f, NEW why, Fitting(Verdict(n, f, why))
  PROVE  \A v \in Raise(c, n, f, why) : Fitting(v)
<1> DEFINE x == Verdict(n, f, why)
<1>1. \A v \in Raise(c, n, f, why) : v = x
  BY DEF Raise
<1> HIDE DEF x
<1>2. Fitting(x)
  BY DEF x
<1> QED BY <1>1, <1>2

(* A verdict against a node that is no stage fits. *)
LEMMA OthersFit ==
  ASSUME NEW kind \in QueryKinds \cup {"Predicate"}, NEW id, NEW f, NEW why
  PROVE  Fitting(Verdict(<<kind, id>>, f, why))
<1>1. Verdict(<<kind, id>>, f, why).node[1] = kind
  BY DEF Verdict
<1>2. kind # "Stage"
  BY DEF QueryKinds
<1> QED BY <1>1, <1>2 DEF Fitting

(* The three fidelities are different. *)
LEMMA FlagsDiffer ==
  PARTIAL # UNSUPPORTED /\ PARTIAL # FULL /\ UNSUPPORTED # FULL
  BY DEF PARTIAL, UNSUPPORTED, FULL

(* A verdict that a stage can only be written with a loss. *)
LEMMA LossFits ==
  ASSUME NEW s, NEW why, stage[s].type = "Aggregation" => why = "other axis"
  PROVE  Fitting(Verdict(StageNode(s), PARTIAL, why))
<1>2. PARTIAL # UNSUPPORTED
  BY FlagsDiffer
<1> DEFINE v == Verdict(StageNode(s), PARTIAL, why)
<1>1. v.node[2] = s /\ v.flag = PARTIAL /\ v.reason = why
  BY DEF Verdict, StageNode
<1> HIDE DEF v
<1>3. Fitting(v)
  BY <1>1, <1>2 DEF Fitting
<1> QED BY <1>3 DEF v

(* A verdict that a stage cannot be written. *)
LEMMA RefusalFits ==
  ASSUME NEW s, NEW why, ~IsOperator(stage[s])
  PROVE  Fitting(Verdict(StageNode(s), UNSUPPORTED, why))
<1> DEFINE v == Verdict(StageNode(s), UNSUPPORTED, why)
<1>1. v.node[2] = s /\ v.flag = UNSUPPORTED
  BY DEF Verdict, StageNode
<1>2. PARTIAL # UNSUPPORTED
  BY FlagsDiffer
<1> HIDE DEF v
<1>3. Fitting(v)
  BY <1>1, <1>2 DEF Fitting
<1> QED BY <1>3 DEF v

(* The sort moves no aggregation past what it depends on. *)
LEMMA OrderFits ==
  ASSUME HeapOK, NEW ids \in Seq(StageId), \A i \in DOMAIN ids : ids[i] \in DOMAIN stage
  PROVE  \A v \in checkPipelineOrder(ids) : Fitting(v) /\ Fitting(AtBarePath(v))
<1> DEFINE ranks == Ranks(ids, def)
<1>1. ASSUME NEW i \in DOMAIN ids, i \in crossedProducer(ids, ranks)
      PROVE  stage[ids[i]].type # "Aggregation"
  <2> SUFFICES ASSUME stage[ids[i]].type = "Aggregation" PROVE FALSE
    OBVIOUS
  <2>1. ranks[i] = rankAggregation
    BY DEF Ranks, rankOf
  <2>2. AffectedBy(ids, ranks, i) = {}
    BY <2>1 DEF AffectedBy, rankAggregation, rankLabelFilter, rankUnwrap, rankLineFilter
  <2>3. PICK j \in DOMAIN ids : i \in AffectedBy(ids, ranks, j)
    BY <1>1, <2>2 DEF crossedProducer
  <2> QED BY <2>3 DEF AffectedBy, changesLabels, changesLine
<1>2. ASSUME NEW v \in checkPipelineOrder(ids)
      PROVE  Fitting(v) /\ Fitting(AtBarePath(v))
  <2>1. PICK i \in DOMAIN ids : /\ i \in crossedProducer(ids, ranks)
                                /\ v \in Raise(def.pipelineOrdered, StageNode(ids[i]), PARTIAL, "stage order")
    BY <1>2 DEF checkPipelineOrder
  <2>2. v = Verdict(StageNode(ids[i]), PARTIAL, "stage order")
    BY <2>1 DEF Raise
  <2>3. Fitting(v)
    BY <1>1, <2>1, <2>2, LossFits
  <2>4. AtBarePath(v).node = v.node /\ AtBarePath(v).flag = v.flag /\ AtBarePath(v).reason = v.reason
    BY <2>2 DEF AtBarePath, Verdict
  <2>5. Fitting(AtBarePath(v))
    BY <2>3, <2>4 DEF Fitting
  <2> QED BY <2>3, <2>5
<1> QED BY <1>2

(* The checks of a query. *)
LEMMA QueryChecksFit ==
  ASSUME HeapOK, NEW q, NEW ids \in Seq(StageId)
  PROVE  \A v \in checkSubquery(q) \cup checkAggregationOperand(q, ids) \cup checkOffset(q, ids) :
            Fitting(v)
<1>1. ASSUME NEW v \in checkSubquery(q) PROVE Fitting(v)
  <2>1. PICK n \in {<<"Output", q>>, QueryNode(q)} :
               v \in Raise(IsSubquery(q) /\ ~def.subqueries, n, UNSUPPORTED, "subquery")
    BY <1>1 DEF checkSubquery
  <2>2. Fitting(Verdict(n, UNSUPPORTED, "subquery"))
    BY OthersFit DEF QueryKinds, QueryNode
  <2> QED BY <2>1, <2>2, RaisedFits
<1>2. ASSUME NEW v \in checkAggregationOperand(q, ids) PROVE Fitting(v)
  <2> DEFINE c == /\ def.groupAggregationNeedsSamples
                  /\ query[q].signal = "METRIC" => ~SupportsSignal(def, "METRIC")
  <2>1. PICK i \in GroupWithoutSamples(ids) :
               v \in Raise(c, StageNode(ids[i]), UNSUPPORTED, "no samples")
    BY <1>2 DEF checkAggregationOperand
  <2> HIDE DEF c
  <2>2. ~IsOperator(stage[ids[i]])
    BY <2>1 DEF GroupWithoutSamples, IsOperator
  <2>3. Fitting(Verdict(StageNode(ids[i]), UNSUPPORTED, "no samples"))
    BY <2>2, RefusalFits
  <2> QED BY <2>1, <2>3, RaisedFits
<1>3. ASSUME NEW v \in checkOffset(q, ids) PROVE Fitting(v)
  <2> DEFINE c == /\ def.offsetNeedsRange /\ query[q].offset > 0
                  /\ \A i \in DOMAIN ids : ~ProducesRange(ids[i])
  <2>1. v \in Raise(c, <<"Window", q>>, UNSUPPORTED, "offset without range")
    BY <1>3 DEF checkOffset
  <2> HIDE DEF c
  <2>2. Fitting(Verdict(<<"Window", q>>, UNSUPPORTED, "offset without range"))
    BY OthersFit DEF QueryKinds
  <2> QED BY <2>1, <2>2, RaisedFits
<1> QED BY <1>1, <1>2, <1>3

(* The checks of a node. *)
LEMMA StageChecksFit ==
  ASSUME HeapOK, NEW s \in DOMAIN stage
  PROVE  \A v \in checkStage(s) : Fitting(v)
<1> DEFINE st == stage[s]
           n == StageNode(s)
<1>1. def.arithmetic
  BY EmittedTarget DEF def, Dialect, Logql
<1>2. st.type \in {"Filter", "Function", "Aggregation", "Join", "BinaryOp", "UnaryOp"}
  BY HeapDomains DEF StageRecord
<1>4. CASE st.type = "Filter"
  <2>1. checkStage(s) = Raise(st.bool > 0 /\ ~def.boolModifier, n, PARTIAL, "bool")
    BY <1>4 DEF checkStage, checkFilter, IsOperator
  <2>2. Fitting(Verdict(n, PARTIAL, "bool"))
    BY <1>4, LossFits
  <2> HIDE DEF n
  <2> QED BY <2>1, <2>2, RaisedFits
<1>5. CASE st.type = "Function"
  <2>1. checkStage(s) = Raise(st.what # "literal" /\ ~FunctionByIRName(def, st.what),
                              n, UNSUPPORTED, "no function")
    BY <1>5 DEF checkStage, checkFunction, IsOperator
  <2>2. Fitting(Verdict(n, UNSUPPORTED, "no function"))
    BY <1>5, RefusalFits DEF IsOperator
  <2> HIDE DEF n
  <2> QED BY <2>1, <2>2, RaisedFits
<1>6. CASE st.type = "Aggregation"
  <2>1. PICK c, d : checkStage(s) = Raise(c, n, PARTIAL, "other axis")
                                      \cup Raise(d, n, UNSUPPORTED, "no aggregation")
    <3>1. checkStage(s) = checkAggregation(n, st)
      BY <1>6 DEF checkStage, IsOperator
    <3> HIDE DEF n, st
    <3> QED BY <3>1 DEF checkAggregation
  <2>2. Fitting(Verdict(n, PARTIAL, "other axis")) /\ Fitting(Verdict(n, UNSUPPORTED, "no aggregation"))
    BY <1>6, LossFits, RefusalFits DEF IsOperator
  <2> HIDE DEF n
  <2>3. \A v \in Raise(c, n, PARTIAL, "other axis") : Fitting(v)
    BY <2>2, RaisedFits
  <2>4. \A v \in Raise(d, n, UNSUPPORTED, "no aggregation") : Fitting(v)
    BY <2>2, RaisedFits
  <2> QED BY <2>1, <2>3, <2>4
<1>7. CASE st.type = "Join"
  <2>1. checkStage(s) = Raise(~def.joins, n, UNSUPPORTED, "join")
    BY <1>7 DEF checkStage, checkJoin, IsOperator
  <2>2. Fitting(Verdict(n, UNSUPPORTED, "join"))
    BY <1>7, RefusalFits DEF IsOperator
  <2> HIDE DEF n
  <2> QED BY <2>1, <2>2, RaisedFits
<1>8. CASE st.type \in {"BinaryOp", "UnaryOp"}
  <2>1. checkStage(s) = {}
    BY <1>1, <1>8 DEF checkStage, checkArithmetic, IsOperator, Raise
  <2> QED BY <2>1
<1> QED BY <1>2, <1>4, <1>5, <1>6, <1>7, <1>8

(* A matcher, a predicate and a window may be judged in any way. *)
LEMMA LeafChecksFit ==
  ASSUME NEW n, NEW field, NEW op, NEW kind \in {"Matcher", "Predicate", "Window"}, NEW id, n = <<kind, id>>
  PROVE  \A v \in checkMatcher(n, field, op) \cup checkWindow(n) : Fitting(v)
<1>1. \A f, why : Fitting(Verdict(n, f, why))
  BY OthersFit DEF QueryKinds
<1>2. \A v \in checkWindow(n) : Fitting(v)
  BY <1>1, RaisedFits DEF checkWindow
<1>3. \A v \in checkMatcher(n, field, op) : Fitting(v)
  <2>1. \A v \in Raise(Source # Target /\ op = "regex", n, PARTIAL, "regex dialect") : Fitting(v)
    BY <1>1, RaisedFits
  <2> QED BY <1>1, <2>1 DEF checkMatcher
<1> QED BY <1>2, <1>3

(* Verdicts stay fitting while stages stay what they are. *)
LEMMA FittingStays ==
  ASSUME stage' = stage
  PROVE  \A v : Fitting(v) => Fitting(v)'
  BY DEF Fitting, IsOperator

(* Every verdict fits. *)
LEMMA FittingSteps ==
  Typed /\ FittingOK /\ [Next]_vars => FittingOK'
<1> SUFFICES ASSUME Typed, FittingOK, [Next]_vars PROVE FittingOK'
  OBVIOUS
<1>0. HeapOK /\ WalkOK /\ PhaseOK
  BY DEF Typed
<1>1. CASE Resolve \/ Fail
  <2>1. issues' = issues /\ verdicts' = verdicts /\ pc = "resolving"
    BY <1>1 DEF Resolve, Fail, validatorVars
  <2>2. verdicts' = {} /\ issues' = {}
    BY <1>0, <2>1 DEF FittingOK, PhaseOK
  <2> QED BY <2>2 DEF FittingOK, Known
<1>2. CASE BeginValidation
  <2>1. /\ issues' = issues /\ verdicts' = checkSentinelSemantics(Root) /\ pc = "resolving"
        /\ pc' = "validating" /\ stage' = stage
    BY <1>2 DEF BeginValidation, StartValidation, resolverVars, heap
  <2>2. issues' = {}
    BY <2>1 DEF FittingOK
  <2>3. ASSUME NEW v \in verdicts' PROVE Fitting(v)
    <3> DEFINE c == source.dsl # def.dsl /\ source.nanAsSentinel # def.nanAsSentinel
    <3>1. v \in Raise(c, QueryNode(Root), PARTIAL, "absent data")
      BY <2>1, <2>3 DEF checkSentinelSemantics
    <3> HIDE DEF c
    <3>2. Fitting(Verdict(QueryNode(Root), PARTIAL, "absent data"))
      BY OthersFit DEF QueryKinds, QueryNode
    <3> QED BY <3>1, <3>2, RaisedFits
  <2> QED BY <2>1, <2>2, <2>3, FittingStays DEF FittingOK, Known
<1>3. CASE Validate
  <2>1. pc = "validating" /\ pc' = pc /\ ValidatorNext /\ stage' = stage
    BY <1>3 DEF Validate, ValidatorNext, VisitQuery, VisitStage, VisitMatcher, VisitWindow, VisitOther,
                Report, heap
  <2>2. ASSUME issues' = issues, \A v \in verdicts' : Fitting(v) PROVE FittingOK'
    <3>1. \A v \in issues : Fitting(v)
      BY DEF FittingOK, Known
    <3> QED BY <2>1, <2>2, <3>1, FittingStays DEF FittingOK, Known
  <2>3. CASE VisitQuery
    <3> DEFINE q == Head(toVisit)[2]
               ids == Pipeline(q)
               ordered == Reordered(ids, def)
    <3>1. /\ issues' = issues
          /\ verdicts' = {AtBarePath(v) : v \in checkPipelineOrder(ids)} \cup checkSubquery(q)
                            \cup checkAggregationOperand(q, ordered) \cup checkOffset(q, ordered)
      BY <2>3 DEF VisitQuery
    <3>2. ids \in Seq(StageId) /\ (\A i \in DOMAIN ids : ids[i] \in DOMAIN stage)
      BY <1>0, <2>3, VisitSorts, PipelineType
    <3> HIDE DEF ids
    <3>3. ordered \in Seq(StageId)
      BY <3>2, ReorderedType
    <3>4. \A v \in checkPipelineOrder(ids) : Fitting(AtBarePath(v))
      BY <1>0, <3>2, OrderFits
    <3> HIDE DEF ordered, q
    <3>5. \A v \in checkSubquery(q) \cup checkAggregationOperand(q, ordered) \cup checkOffset(q, ordered) :
             Fitting(v)
      BY <1>0, <3>3, QueryChecksFit
    <3>6. \A v \in verdicts' : Fitting(v)
      BY <3>1, <3>4, <3>5
    <3> QED BY <2>2, <3>1, <3>6
  <2>4. CASE VisitStage
    <3> DEFINE s == Head(toVisit)[2]
    <3>1. issues' = issues /\ verdicts' = checkStage(s) /\ toVisit # << >> /\ Head(toVisit)[1] = "Stage"
      BY <2>4 DEF VisitStage, AtNode
    <3>2. s \in DOMAIN stage
      BY <1>0, <3>1, NextNode DEF StageKinds, WalkOK
    <3> HIDE DEF s
    <3> QED BY <1>0, <2>2, <3>1, <3>2, StageChecksFit
  <2>5. CASE VisitMatcher \/ VisitWindow
    <3> DEFINE n == Head(toVisit)
    <3>1. /\ issues' = issues /\ toVisit # << >> /\ n[1] \in {"Matcher", "Predicate", "Window"}
          /\ \/ \E field, op : verdicts' = checkMatcher(n, field, op)
             \/ verdicts' = checkWindow(n)
      BY <2>5 DEF VisitMatcher, VisitWindow, AtNode
    <3>2. n \in Live
      BY <1>0, <3>1, NextNode DEF WalkOK
    <3> HIDE DEF n
    <3>3. PICK kind, id : n = <<kind, id>>
      BY <3>2 DEF Live
    <3>4. kind \in {"Matcher", "Predicate", "Window"}
      BY <3>1, <3>3
    <3>5. \A field, op : \A v \in checkMatcher(n, field, op) \cup checkWindow(n) : Fitting(v)
      BY <3>3, <3>4, LeafChecksFit
    <3>6. \A v \in verdicts' : Fitting(v)
      BY <3>1, <3>5
    <3> QED BY <2>2, <3>1, <3>6
  <2>6. CASE VisitOther
    <3>1. issues' = issues /\ verdicts' = verdicts
      BY <2>6 DEF VisitOther
    <3> QED BY <2>2, <3>1 DEF FittingOK, Known
  <2>7. CASE Report
    <3>1. \A v \in issues' \cup verdicts' : v \in Known
      BY <2>7 DEF Report, Known
    <3>2. \A v \in Known' : Fitting(v)
      BY <3>1 DEF FittingOK, Known
    <3> QED BY <2>1, <3>2, FittingStays DEF FittingOK
  <2> QED BY <2>1, <2>3, <2>4, <2>5, <2>6, <2>7 DEF ValidatorNext
<1>4. CASE BeginEmission \/ Emit \/ GenerateReport \/ Returned \/ UNCHANGED vars
  <2>1. stage' = stage /\ issues' = issues /\ verdicts' = verdicts
    BY <1>4 DEF BeginEmission, Emit, GenerateReport, Returned, vars, resolverVars, validatorVars, heap
  <2>2. pc' \in {"resolving", "failed"} => pc = pc'
    BY <1>4 DEF BeginEmission, Emit, GenerateReport, Returned, vars
  <2> QED BY <2>1, <2>2, FittingStays DEF FittingOK, Known
<1> QED BY <1>1, <1>2, <1>3, <1>4 DEF Next, Proceed

-----------------------------------------------------------------------------

(* The checks a query calls for are those of its pipeline as it stands. *)
LEMMA QueryChecksStay ==
  ASSUME stage' = stage, NEW q, NEW ids, query'[q].pipeline = ids,
         query'[q].subquery = query[q].subquery, query'[q].signal = query[q].signal,
         query'[q].offset = query[q].offset
  PROVE  QueryChecks(q)'
           = checkSubquery(q) \cup checkAggregationOperand(q, ids) \cup checkOffset(q, ids)
<1>1. \A s : ProducesRange(s)' = ProducesRange(s)
  BY DEF ProducesRange, def
<1>2. checkSubquery(q)' = checkSubquery(q)
  BY DEF checkSubquery, IsSubquery, Raise, Verdict, QueryNode, UNSUPPORTED, def
<1>3. Pipeline(q)' = ids
  BY DEF Pipeline
<1>4. GroupWithoutSamples(ids)' = GroupWithoutSamples(ids)
  BY <1>1 DEF GroupWithoutSamples
<1>5. (checkAggregationOperand(q, Pipeline(q)))' = checkAggregationOperand(q, ids)
  <2>1. PICK c : c = (/\ def.groupAggregationNeedsSamples
                      /\ query[q].signal = "METRIC" => ~SupportsSignal(def, "METRIC"))
    OBVIOUS
  <2>2. c = (/\ def.groupAggregationNeedsSamples
             /\ query'[q].signal = "METRIC" => ~SupportsSignal(def, "METRIC"))
    BY <2>1
  <2>3. checkAggregationOperand(q, ids)
          = UNION {Raise(c, StageNode(ids[i]), UNSUPPORTED, "no samples") : i \in GroupWithoutSamples(ids)}
    BY <2>1 DEF checkAggregationOperand
  <2>4. (checkAggregationOperand(q, Pipeline(q)))'
          = UNION {Raise(c, StageNode(ids[i]), UNSUPPORTED, "no samples") : i \in GroupWithoutSamples(ids)}
    BY <1>3, <1>4, <2>2 DEF checkAggregationOperand, Raise, Verdict, StageNode, UNSUPPORTED, def,
                            SupportsSignal
  <2> QED BY <2>3, <2>4
<1>6. (checkOffset(q, Pipeline(q)))' = checkOffset(q, ids)
  BY <1>1, <1>3 DEF checkOffset, Raise, Verdict, UNSUPPORTED, def
<1> QED BY <1>2, <1>5, <1>6 DEF QueryChecks

(* A stage's checks are those of what it is. *)
LEMMA StageChecksStay ==
  ASSUME stage' = stage, NEW s
  PROVE  checkStage(s)' = checkStage(s)
  BY DEF checkStage, checkFilter, checkFunction, checkAggregation, checkJoin, checkArithmetic,
         Raise, Verdict, StageNode, UNSUPPORTED, PARTIAL, def, IsOperator, FunctionByIRName,
         FunctionForAggregation, FunctionsForAggOp

(* What was heard stays heard. *)
LEMMA HeardKept ==
  ASSUME query' = query, stage' = stage, Known \subseteq Known', NEW V, Heard(V),
         \A s : Ahead(StageNode(s)) => Ahead(StageNode(s))' \/ checkStage(s) \subseteq Known'
  PROVE  Heard(V)'
<1> SUFFICES ASSUME NEW q \in V
             PROVE  /\ (QueryChecks(q) \subseteq Known)'
                    /\ \A s \in InPipeline(q)' :
                          (Ahead(StageNode(s)) \/ checkStage(s) \subseteq Known)'
  BY DEF Heard
<1>1. InPipeline(q)' = InPipeline(q)
  BY DEF InPipeline, Pipeline
<1>2. QueryChecks(q)' = QueryChecks(q)
  BY QueryChecksStay DEF QueryChecks, Pipeline
<1>3. QueryChecks(q) \subseteq Known
  BY DEF Heard
<1>4. ASSUME NEW s \in InPipeline(q)
      PROVE  (Ahead(StageNode(s)) \/ checkStage(s) \subseteq Known)'
  <2>1. Ahead(StageNode(s)) \/ checkStage(s) \subseteq Known
    BY DEF Heard
  <2>2. checkStage(s)' = checkStage(s)
    BY StageChecksStay
  <2> QED BY <2>1, <2>2
<1> QED BY <1>1, <1>2, <1>3, <1>4

(* The walk forgets nothing it has found. *)
LEMMA KnownKept ==
  ASSUME ValidatorNext
  PROVE  Known \subseteq Known'
<1>1. CASE Report
  BY <1>1 DEF Report, Known
<1>2. CASE VisitQuery \/ VisitStage \/ VisitMatcher \/ VisitWindow
  BY <1>2 DEF VisitQuery, VisitStage, VisitMatcher, VisitWindow, AtNode, Known
<1>3. CASE VisitOther
  BY <1>3 DEF VisitOther, Known
<1> QED BY <1>1, <1>2, <1>3 DEF ValidatorNext

(* Visiting a stage makes its checks. *)
LEMMA StageHeard ==
  ASSUME HeapOK, WalkOK, VisitStage, NEW V, Heard(V)
  PROVE  Heard(V)'
<1> DEFINE t == Head(toVisit)[2]
<1>1. /\ query' = query /\ stage' = stage /\ Descend(Children(Head(toVisit)))
      /\ toVisit # << >> /\ Head(toVisit)[1] = "Stage" /\ toVisit \in Seq(Live)
      /\ checkStage(t) = verdicts'
  BY DEF VisitStage, AtNode, heap, WalkOK
<1>2. Head(toVisit) \in Live
  BY <1>1, NextNode
<1>3. Head(toVisit) = StageNode(t)
  <2>1. \E kind, id : Head(toVisit) = <<kind, id>>
    BY <1>2 DEF Live
  <2> QED BY <1>1, <2>1 DEF StageNode
<1>4. Children(Head(toVisit)) \in Seq(Live)
  BY <1>2, ChildrenType
<1>5. \A n : Ahead(n) => n = StageNode(t) \/ Ahead(n)'
  BY <1>1, <1>3, <1>4, DescendKeeps
<1>6. ASSUME NEW s, Ahead(StageNode(s))
      PROVE  Ahead(StageNode(s))' \/ checkStage(s) \subseteq Known'
  <2>1. CASE s = t
    BY <1>1, <2>1 DEF Known
  <2>2. CASE s # t
    <3>1. StageNode(s) # StageNode(t)
      BY <2>2 DEF StageNode
    <3> QED BY <1>5, <1>6, <3>1 DEF StageNode
  <2> QED BY <2>1, <2>2
<1>7. Known \subseteq Known'
  BY KnownKept DEF ValidatorNext
<1> QED BY <1>1, <1>6, <1>7, HeardKept

(* Visiting any other node leaves the stages ahead. *)
LEMMA LeafHeard ==
  ASSUME HeapOK, WalkOK, VisitMatcher \/ VisitWindow \/ VisitOther, NEW V, Heard(V)
  PROVE  Heard(V)'
<1>1. /\ query' = query /\ stage' = stage /\ Descend(Children(Head(toVisit)))
      /\ toVisit # << >> /\ toVisit \in Seq(Live) /\ Head(toVisit)[1] # "Stage"
  BY DEF VisitMatcher, VisitWindow, VisitOther, AtNode, heap, WalkOK
<1>2. Children(Head(toVisit)) \in Seq(Live)
  BY <1>1, NextNode, ChildrenType
<1>3. \A n : Ahead(n) => n = Head(toVisit) \/ Ahead(n)'
  BY <1>1, <1>2, DescendKeeps
<1>4. ASSUME NEW s, Ahead(StageNode(s)) PROVE Ahead(StageNode(s))'
  <2>1. StageNode(s) # Head(toVisit)
    BY <1>1 DEF StageNode
  <2> QED BY <1>3, <1>4, <2>1 DEF StageNode
<1>5. Known \subseteq Known'
  BY KnownKept DEF ValidatorNext
<1> QED BY <1>1, <1>4, <1>5, HeardKept

(* Visiting a query makes its checks and puts its stages ahead. *)
LEMMA QueryHeard ==
  ASSUME HeapOK, WalkOK, VisitQuery, NEW V, Heard(V), V \subseteq DOMAIN query,
         NEW W, W = V \cup {Head(toVisit)[2]}
  PROVE  Heard(W)'
<1>a. PICK q : q = Head(toVisit)[2]
  OBVIOUS
<1>b. PICK ids : ids = Pipeline(q)
  OBVIOUS
<1>c. PICK sorted : sorted = Reordered(ids, def)
  OBVIOUS
<1>1. /\ q \in DOMAIN query /\ Head(toVisit) = QueryNode(q) /\ stage' = stage
      /\ query'[q].pipeline = sorted /\ toVisit \in Seq(Live) /\ toVisit # << >>
      /\ \A p \in DOMAIN query : p # q => query'[p] = query[p]
      /\ Descend(QueryChildren(q, sorted))
  BY <1>a, <1>b, <1>c, VisitSorts
<1>2. query' = [query EXCEPT ![q].pipeline = sorted]
  BY <1>a, <1>b, <1>c DEF VisitQuery
<1>3. /\ query'[q].subquery = query[q].subquery /\ query'[q].signal = query[q].signal
      /\ query'[q].offset = query[q].offset
  BY <1>1, <1>2, <1>b, <1>c, SortKeepsQueries
<1>4. checkSubquery(q) \cup checkAggregationOperand(q, sorted) \cup checkOffset(q, sorted)
         \subseteq verdicts'
  BY <1>a, <1>b, <1>c DEF VisitQuery
<1>5. sorted \in Seq(StageId) /\ \A i \in DOMAIN sorted : sorted[i] \in DOMAIN stage
  <2>1. ids \in Seq(StageId) /\ \A i \in DOMAIN ids : ids[i] \in DOMAIN stage
    BY <1>1, <1>b, PipelineType
  <2> QED BY <1>c, <2>1, ReorderedType
<1>6. \A i \in DOMAIN sorted : \E j \in DOMAIN toVisit' : toVisit'[j] = StageNode(sorted[i])
  BY <1>a, <1>b, <1>c, StagesAhead
<1>7. QueryChildren(q, sorted) \in Seq(Live)
  BY <1>1, <1>5, QueryChildrenType
<1>8. \A n : Ahead(n) => n = QueryNode(q) \/ Ahead(n)'
  BY <1>1, <1>7, DescendKeeps
<1>0. W = V \cup {q}
  BY <1>a
<1>9. \A s : Ahead(StageNode(s)) => Ahead(StageNode(s))'
  <2>1. \A s : StageNode(s) # QueryNode(q)
    BY DEF StageNode, QueryNode
  <2> QED BY <1>8, <2>1 DEF StageNode
<1>10. Known \subseteq Known'
  BY KnownKept DEF ValidatorNext
<1>11. ASSUME NEW p \in W
       PROVE  /\ (QueryChecks(p) \subseteq Known)'
              /\ \A s \in InPipeline(p)' : (Ahead(StageNode(s)) \/ checkStage(s) \subseteq Known)'
  <2>1. CASE p = q
    <3>1. QueryChecks(q)' \subseteq verdicts'
      BY <1>1, <1>3, <1>4, QueryChecksStay
    <3>2. ASSUME NEW s \in InPipeline(q)' PROVE Ahead(StageNode(s))'
      <4>1. \E i \in DOMAIN sorted : sorted[i] = s
        BY <1>1, <3>2 DEF InPipeline, Pipeline
      <4>2. \E k \in DOMAIN toVisit' : toVisit'[k] = StageNode(s)
        BY <1>6, <4>1
      <4> QED BY <4>2 DEF Ahead, StageNode
    <3> QED BY <2>1, <3>1, <3>2 DEF Known
  <2>2. CASE p # q
    <3>1. p \in V /\ query'[p] = query[p]
      BY <1>0, <1>1, <2>2
    <3>2. InPipeline(p)' = InPipeline(p)
      BY <3>1 DEF InPipeline, Pipeline
    <3>3. QueryChecks(p)' = QueryChecks(p)
      BY <1>1, <3>1, QueryChecksStay DEF QueryChecks, Pipeline
    <3>4. QueryChecks(p) \subseteq Known
      BY <3>1 DEF Heard
    <3>5. ASSUME NEW s \in InPipeline(p)
          PROVE  (Ahead(StageNode(s)) \/ checkStage(s) \subseteq Known)'
      <4>1. Ahead(StageNode(s)) \/ checkStage(s) \subseteq Known
        BY <3>1 DEF Heard
      <4>2. checkStage(s)' = checkStage(s)
        BY <1>1, StageChecksStay
      <4> QED BY <1>9, <1>10, <4>1, <4>2
    <3> QED BY <1>10, <3>2, <3>3, <3>4, <3>5
  <2> QED BY <2>1, <2>2
<1> QED BY <1>11 DEF Heard

(* When nothing is ahead every check has been made. *)
LEMMA WalkHasHeard ==
  ASSUME Typed, Rooted, SortOK, AllHoused, JudgedOK, pc = "validating", Validated
  PROVE  /\ \A q \in DOMAIN query : QueryChecks(q) \subseteq issues
         /\ \A s \in DOMAIN stage : checkStage(s) \subseteq issues
<1>1. PICK V \in SUBSET DOMAIN query : Visited(V) /\ Heard(V)
  BY DEF JudgedOK
<1>2. (\A n : ~Ahead(n)) /\ Known = issues
  BY DEF Ahead, Known, Validated
<1>3. Closed(V)
  BY <1>1, <1>2 DEF Visited, Reaches, Closed
<1>4. Stacked(V)
  <2>1. DOMAIN stack = {1}
    <3>1. Len(stack) = 1 /\ stack \in Seq(Pending)
      BY DEF SortOK, Typed, StackOK
    <3> QED BY <3>1
  <2>2. Root \in V
    BY <1>1, <1>2 DEF Visited
  <2> QED BY <2>1, <2>2 DEF Stacked, Root
<1>5. V = DOMAIN query
  BY <1>1, <1>3, <1>4 DEF Rooted
<1>6. ASSUME NEW s \in DOMAIN stage PROVE checkStage(s) \subseteq issues
  <2>1. PICK q \in DOMAIN query : s \in InPipeline(q)
    BY DEF AllHoused
  <2> QED BY <1>1, <1>2, <1>5, <2>1 DEF Heard
<1> QED BY <1>1, <1>2, <1>5, <1>6 DEF Heard

(* Every step keeps what the walk must have heard. *)
LEMMA JudgedSteps ==
  Typed /\ OrderOK /\ Rooted /\ SortOK /\ AllHoused /\ JudgedOK /\ [Next]_vars => JudgedOK'
<1> SUFFICES ASSUME Typed, OrderOK, Rooted, SortOK, AllHoused, JudgedOK, [Next]_vars PROVE JudgedOK'
  OBVIOUS
<1>0. HeapOK /\ WalkOK
  BY DEF Typed
<1>1. CASE Resolve \/ Fail
  BY <1>1 DEF Resolve, Fail, JudgedOK, PastValidation
<1>2. CASE BeginValidation
  <2>1. /\ Len(stack) = 1 /\ pc' = "validating" /\ toVisit' = <<QueryNode(Root)>>
        /\ UNCHANGED <<query, stage, stack>>
    BY <1>2 DEF BeginValidation, ResolvedRoot, StartValidation, resolverVars, heap
  <2>2. Ahead(QueryNode(Root))'
    <3>1. 1 \in DOMAIN toVisit' /\ toVisit'[1] = QueryNode(Root)
      BY <2>1
    <3>2. QueryNode(Root)' = QueryNode(Root)
      BY <2>1 DEF Root, QueryNode
    <3> QED BY <3>1, <3>2 DEF Ahead
  <2>3. Visited({})' /\ Heard({})'
    BY <2>2 DEF Visited, Heard
  <2> QED BY <2>1, <2>3 DEF JudgedOK, PastValidation
<1>3. CASE Validate
  <2>1. pc = "validating" /\ pc' = pc /\ stack' = stack /\ ValidatorNext
    BY <1>3 DEF Validate
  <2>2. PICK V \in SUBSET DOMAIN query : Visited(V) /\ Heard(V)
    BY <2>1 DEF JudgedOK
  <2>3. ASSUME NEW W, Visited(W)', Heard(W)' PROVE JudgedOK'
    <3>1. W \in SUBSET DOMAIN query'
      BY <2>3 DEF Visited
    <3> QED BY <2>1, <2>3, <3>1 DEF JudgedOK, PastValidation
  <2>4. CASE VisitQuery
    <3> DEFINE W == V \cup {Head(toVisit)[2]}
    <3>1. ASSUME NEW U, U = W PROVE Visited(U)' /\ Heard(U)'
      BY <1>0, <2>1, <2>2, <2>4, <3>1, QueryVisited, QueryHeard
    <3>2. \E U : U = W
      OBVIOUS
    <3> HIDE DEF W
    <3> QED BY <2>3, <3>1, <3>2
  <2>5. CASE VisitStage
    BY <1>0, <2>1, <2>2, <2>3, <2>5, StageVisited, StageHeard
  <2>6. CASE VisitMatcher \/ VisitWindow \/ VisitOther
    BY <1>0, <2>1, <2>2, <2>3, <2>6, LeafVisited, LeafHeard
  <2>7. CASE Report
    <3>1. UNCHANGED <<query, stage, stack, toVisit>>
      BY <2>1, <2>7 DEF Report, heap
    <3>2. \A n : Ahead(n)' = Ahead(n)
      BY <3>1 DEF Ahead
    <3>3. /\ \A q : Ahead(QueryNode(q)) => Ahead(QueryNode(q))'
          /\ \A s : Ahead(StageNode(s)) => Ahead(StageNode(s))'
      BY <3>2 DEF QueryNode, StageNode
    <3>4. Visited(V)'
      BY <2>2, <3>1, <3>3, VisitedKept
    <3>5. Known \subseteq Known'
      BY <2>1, KnownKept
    <3>6. Heard(V)'
      BY <2>2, <3>1, <3>3, <3>5, HeardKept
    <3> QED BY <2>3, <3>4, <3>6
  <2> QED BY <2>1, <2>4, <2>5, <2>6, <2>7 DEF ValidatorNext
<1>4. CASE BeginEmission \/ Emit \/ GenerateReport \/ Returned \/ UNCHANGED vars
  <2>1. /\ UNCHANGED <<query, stage, stack, toVisit, verdicts, issues>>
        /\ pc' = pc \/ ~(pc' = "validating")
    BY <1>4 DEF BeginEmission, Emit, GenerateReport, Returned, vars, resolverVars, validatorVars, heap
  <2>2. ASSUME \A q \in DOMAIN query : QueryChecks(q) \subseteq issues,
               \A s \in DOMAIN stage : checkStage(s) \subseteq issues
        PROVE  /\ \A q \in DOMAIN query' : QueryChecks(q)' \subseteq issues'
               /\ \A s \in DOMAIN stage' : checkStage(s)' \subseteq issues'
    <3>1. \A q : QueryChecks(q)' = QueryChecks(q)
      BY <2>1, QueryChecksStay DEF QueryChecks, Pipeline
    <3>2. \A s : checkStage(s)' = checkStage(s)
      BY <2>1, StageChecksStay
    <3> QED BY <2>1, <2>2, <3>1, <3>2
  <2>3. ASSUME PastValidation'
        PROVE  /\ \A q \in DOMAIN query : QueryChecks(q) \subseteq issues
               /\ \A s \in DOMAIN stage : checkStage(s) \subseteq issues
    <3>1. PastValidation \/ (pc = "validating" /\ Validated)
      BY <1>4, <2>3 DEF BeginEmission, Emit, GenerateReport, Returned, vars, PastValidation
    <3>2. CASE PastValidation
      BY <3>2 DEF JudgedOK
    <3>3. CASE pc = "validating" /\ Validated
      BY <3>3, WalkHasHeard
    <3> QED BY <3>1, <3>2, <3>3
  <2>4. pc' = "validating" => \E V \in SUBSET DOMAIN query' : Visited(V)' /\ Heard(V)'
    <3> SUFFICES ASSUME pc' = "validating"
                 PROVE  \E V \in SUBSET DOMAIN query' : Visited(V)' /\ Heard(V)'
      OBVIOUS
    <3>1. PICK V \in SUBSET DOMAIN query : Visited(V) /\ Heard(V)
      BY <2>1 DEF JudgedOK
    <3>2. \A n : Ahead(n)' = Ahead(n)
      BY <2>1 DEF Ahead
    <3>3. /\ \A q : Ahead(QueryNode(q)) => Ahead(QueryNode(q))'
          /\ \A s : Ahead(StageNode(s)) => Ahead(StageNode(s))'
      BY <3>2 DEF QueryNode, StageNode
    <3>4. Visited(V)'
      BY <2>1, <3>1, <3>3, VisitedKept
    <3>5. Known \subseteq Known'
      BY <2>1 DEF Known
    <3>6. Heard(V)'
      BY <2>1, <3>1, <3>3, <3>5, HeardKept
    <3> QED BY <2>1, <3>1, <3>4, <3>6
  <2> QED BY <2>2, <2>3, <2>4 DEF JudgedOK
<1> QED BY <1>1, <1>2, <1>3, <1>4 DEF Next, Proceed

-----------------------------------------------------------------------------
(* The calls of the emitter, one inside the other. *)

Depth == Len(frames)

(* The innermost call goes on as g. *)
Becomes(g) ==
    /\ Len(frames') = Depth /\ DOMAIN frames' = 1..Depth /\ frames'[Depth] = g
    /\ \A k \in 1..(Depth - 1) : frames'[k] = frames[k]

(* It waits, as f, for another, g. *)
Calls(f, g) ==
    /\ Len(frames') = Depth + 1 /\ DOMAIN frames' = 1..(Depth + 1)
    /\ frames'[Depth] = f /\ frames'[Depth + 1] = g
    /\ \A k \in 1..(Depth - 1) : frames'[k] = frames[k]

(* It returns, and the call that waited goes on as g. *)
Returns(g) ==
    /\ Len(frames') = Depth - 1 /\ DOMAIN frames' = 1..(Depth - 1)
    /\ frames'[Depth - 1] = g
    /\ \A k \in 1..(Depth - 2) : frames'[k] = frames[k]

(* It returns, and the call that waited waits, as f, for another, g. *)
Turns(f, g) ==
    /\ Len(frames') = Depth /\ DOMAIN frames' = 1..Depth
    /\ frames'[Depth - 1] = f /\ frames'[Depth] = g
    /\ \A k \in 1..(Depth - 2) : frames'[k] = frames[k]

Dropped(q) == {n \in {<<"Window", q>>} : ~offsetWritten /\ query[q].offset > 0}
Queued(ids) == {ids[j] : j \in DOMAIN ids}

(* Two calls are where they were. *)
SamePlace(f, g) == g.q = f.q /\ g.at = f.at /\ g.text = f.text /\ g.logPhase = f.logPhase

(* The first in a queue, and those behind it. *)
LEMMA HeadQueued ==
  ASSUME NEW S, NEW ids \in Seq(S), ids # << >>
  PROVE  Queued(ids) = {Head(ids)} \cup Queued(Tail(ids))
<1> DEFINE rest == Tail(ids)
<1>1. /\ Head(ids) = ids[1] /\ rest \in Seq(S) /\ Len(rest) = Len(ids) - 1
      /\ \A i \in 1..Len(rest) : rest[i] = ids[i + 1]
  BY HeadTailProperties
<1> HIDE DEF rest
<1>2. Len(ids) \in Nat \ {0} /\ DOMAIN ids = 1..Len(ids) /\ DOMAIN rest = 1..(Len(ids) - 1)
  BY <1>1
<1>3. ASSUME NEW i \in DOMAIN ids, i # 1 PROVE i - 1 \in DOMAIN rest /\ rest[i - 1] = ids[i]
  <2>1. i \in Nat /\ i - 1 \in Nat /\ i - 1 \in 1..Len(rest)
    BY <1>1, <1>2, <1>3
  <2>2. rest[i - 1] = ids[(i - 1) + 1] /\ (i - 1) + 1 = i
    BY <1>1, <2>1
  <2> QED BY <1>2, <2>1, <2>2
<1>4. \A i \in DOMAIN rest : i + 1 \in DOMAIN ids /\ rest[i] = ids[i + 1]
  BY <1>1, <1>2
<1>5. ASSUME NEW x \in Queued(ids) PROVE x = Head(ids) \/ x \in Queued(rest)
  <2>1. PICK i \in DOMAIN ids : x = ids[i]
    BY DEF Queued
  <2>2. CASE i = 1
    BY <1>1, <2>1, <2>2
  <2>3. CASE i # 1
    BY <1>3, <2>1, <2>3 DEF Queued
  <2> QED BY <2>2, <2>3
<1>6. \A x \in Queued(rest) : x \in Queued(ids)
  BY <1>4 DEF Queued
<1>7. Head(ids) \in Queued(ids)
  <2>1. 1 \in DOMAIN ids
    BY <1>2
  <2> QED BY <1>1, <2>1 DEF Queued
<1> QED BY <1>5, <1>6, <1>7 DEF rest

(* Ids of queries are numbers, in sequences too. *)
LEMMA NumbersOfQueries ==
  ASSUME NEW ids \in Seq(QueryId)
  PROVE  ids \in Seq(Nat)
<1>1. \A i \in 1..Len(ids) : ids[i] \in QueryId
  OBVIOUS
<1>2. \A x \in QueryId : x \in Nat
  BY DEF QueryId
<1> QED BY <1>1, <1>2

(* The innermost call and those that wait for it. *)
LEMMA OuterFrames ==
  ASSUME FramesOK, frames # << >>
  PROVE  /\ Depth \in Nat \ {0} /\ DOMAIN frames = 1..Depth /\ Frame1 = frames[Depth]
         /\ Outer \in Seq(FrameRecord) /\ Len(Outer) = Depth - 1
         /\ \A k \in 1..(Depth - 1) : Outer[k] = frames[k]
<1>1. /\ Depth \in Nat \ {0} /\ DOMAIN frames = 1..Depth
      /\ \A i \in 1..Depth : frames[i] \in FrameRecord
  BY DEF FramesOK, Depth
<1>2. 1 \in Int /\ Depth - 1 \in Int /\ \A i \in 1..(Depth - 1) : frames[i] \in FrameRecord
  BY <1>1
<1>3. /\ SubSeq(frames, 1, Depth - 1) \in Seq(FrameRecord)
      /\ Len(SubSeq(frames, 1, Depth - 1)) = IF 1 <= Depth - 1 THEN (Depth - 1) - 1 + 1 ELSE 0
      /\ \A i \in 1..((Depth - 1) - 1 + 1) : SubSeq(frames, 1, Depth - 1)[i] = frames[1 + i - 1]
  BY <1>2, SubSeqProperties
<1> QED BY <1>1, <1>3 DEF Outer, Frame1, Depth

(* A stage passed. *)
LEMMA RenderBecomes ==
  ASSUME FramesOK, frames # << >>, NEW text \in SUBSET Node, NEW logPhase \in BOOLEAN,
         Render(text, logPhase)
  PROVE  \E g : /\ Becomes(g)
                /\ g.q = Frame1.q /\ g.at = Frame1.at + 1 /\ g.text = text /\ g.logPhase = logPhase
                /\ g.operandText = Frame1.operandText
<1> DEFINE g == [Frame1 EXCEPT !.text = text, !.logPhase = logPhase, !.at = @ + 1]
<1>1. Frame1 \in FrameRecord /\ Frame1.at + 1 \in Nat
  BY FramesSplit DEF FrameRecord
<1>2. /\ g \in FrameRecord /\ g.q = Frame1.q /\ g.at = Frame1.at + 1 /\ g.text = text
      /\ g.logPhase = logPhase /\ g.operandText = Frame1.operandText
  BY <1>1 DEF FrameRecord
<1>3. frames' = Append(Outer, g)
  BY DEF Render
<1> HIDE DEF g
<1>4. /\ Depth \in Nat \ {0} /\ Outer \in Seq(FrameRecord) /\ Len(Outer) = Depth - 1
      /\ \A k \in 1..(Depth - 1) : Outer[k] = frames[k]
  BY OuterFrames
<1>5. /\ Len(frames') = Len(Outer) + 1 /\ frames' \in Seq(FrameRecord)
      /\ frames'[Len(Outer) + 1] = g
      /\ \A k \in 1..Len(Outer) : frames'[k] = Outer[k]
  BY <1>2, <1>3, <1>4, AppendProperties
<1>6. Becomes(g)
  BY <1>4, <1>5 DEF Becomes
<1> QED BY <1>2, <1>6

(* An operand begun. *)
LEMMA OperatorCalls ==
  ASSUME HeapOK, FramesOK, ApplyOperator
  PROVE  /\ AtStage /\ HasOperands(stage[Here]) /\ UNCHANGED <<offsetWritten, written>>
         /\ \E f, p :
               /\ p \in DOMAIN query /\ Calls(f, Frame(p)) /\ SamePlace(Frame1, f)
               /\ f.operandText = Frame1.operandText
               /\ Args(Here) = {p} \cup Queued(f.operands)
               /\ notes' = notes \cup EntryNotes(p)
<1>1. AtStage /\ HasOperands(stage[Here]) /\ UNCHANGED <<offsetWritten, written>>
  BY DEF ApplyOperator
<1>2. frames # << >> /\ Here \in DOMAIN stage
  BY <1>1, HereType
<1>3. PICK args : args = stage[Here].args
  OBVIOUS
<1>4. args \in Seq(QueryId) /\ args # << >> /\ \A i \in DOMAIN args : args[i] \in DOMAIN query
  <2>1. stage[Here] \in StageRecord
    BY <1>2, HeapDomains
  <2>2. stage[Here].args \in Seq(QueryId)
    BY <2>1 DEF StageRecord
  <2> QED BY <1>1, <1>2, <1>3, <2>2 DEF HasOperands, HeapOK
<1>5. /\ Head(args) = args[1] /\ Tail(args) \in Seq(QueryId) /\ Len(Tail(args)) = Len(args) - 1
      /\ \A i \in 1..Len(Tail(args)) : Tail(args)[i] = args[i + 1]
  BY <1>4, HeadTailProperties
<1>6. Tail(args) \in Seq(Nat)
  BY <1>5, NumbersOfQueries
<1>7. Queued(args) = {Head(args)} \cup Queued(Tail(args))
  BY <1>4, HeadQueued
<1> DEFINE f == [Frame1 EXCEPT !.operands = Tail(args)]
           g == Frame(Head(args))
<1>8. Frame1 \in FrameRecord
  BY <1>2, FramesSplit
<1>9. f \in FrameRecord /\ SamePlace(Frame1, f) /\ f.operands = Tail(args)
      /\ f.operandText = Frame1.operandText
  BY <1>6, <1>8 DEF FrameRecord, SamePlace
<1>10. frames' = Append(Append(Outer, f), g) /\ notes' = notes \cup EntryNotes(Head(args))
  BY <1>3 DEF ApplyOperator
<1> HIDE DEF f
<1>11. Head(args) \in DOMAIN query
  <2>1. 1 \in DOMAIN args
    BY <1>4
  <2> QED BY <1>4, <1>5, <2>1
<1>12. g \in FrameRecord
  BY <1>11, FrameType
<1> HIDE DEF g
<1>13. /\ Depth \in Nat \ {0} /\ Outer \in Seq(FrameRecord) /\ Len(Outer) = Depth - 1
       /\ \A k \in 1..(Depth - 1) : Outer[k] = frames[k]
  BY <1>2, OuterFrames
<1>14. PICK mid : mid = Append(Outer, f)
  OBVIOUS
<1>15. /\ Len(mid) = Depth /\ mid \in Seq(FrameRecord) /\ mid[Depth] = f
       /\ \A k \in 1..(Depth - 1) : mid[k] = frames[k]
  <2>1. /\ Len(mid) = Len(Outer) + 1 /\ mid \in Seq(FrameRecord) /\ mid[Len(Outer) + 1] = f
        /\ \A k \in 1..Len(Outer) : mid[k] = Outer[k]
    BY <1>9, <1>13, <1>14, AppendProperties
  <2> QED BY <1>13, <2>1
<1>16. /\ Len(frames') = Len(mid) + 1 /\ frames' \in Seq(FrameRecord) /\ frames'[Len(mid) + 1] = g
       /\ \A k \in 1..Len(mid) : frames'[k] = mid[k]
  BY <1>10, <1>12, <1>14, <1>15, AppendProperties
<1>17. Calls(f, g)
  BY <1>13, <1>15, <1>16 DEF Calls
<1>18. Args(Here) = Queued(args)
  BY <1>3 DEF Args, Queued
<1> QED BY <1>1, <1>7, <1>9, <1>10, <1>11, <1>17, <1>18 DEF g

(* An operand written. *)
LEMMA OperandReturns ==
  ASSUME HeapOK, FramesOK, ReturnOperand, NEW c, c = frames[Depth - 1]
  PROVE  /\ Depth > 1 /\ Depth \in Nat /\ ~AtStage /\ UNCHANGED <<offsetWritten, written>>
         /\ \/ \E f, p :
                  /\ p \in DOMAIN query /\ Turns(f, Frame(p)) /\ SamePlace(c, f)
                  /\ f.operandText = c.operandText \cup Frame1.text
                  /\ Queued(c.operands) = {p} \cup Queued(f.operands)
                  /\ notes' = notes \cup Dropped(Frame1.q) \cup EntryNotes(p)
            \/ \E g :
                  /\ Returns(g) /\ c.operands = << >>
                  /\ g.q = c.q /\ g.at = c.at + 1 /\ g.logPhase = FALSE
                  /\ g.text = c.operandText \cup Frame1.text \cup {StageNode(Pipeline(c.q)[c.at])}
                  /\ g.operandText = {}
                  /\ notes' = notes \cup Dropped(Frame1.q)
<1> DEFINE text == c.operandText \cup Frame1.text
           below == SubSeq(Outer, 1, Len(Outer) - 1)
           operator == StageNode(Pipeline(c.q)[c.at])
           next == Head(c.operands)
           waiting == [c EXCEPT !.operands = Tail(@), !.operandText = text]
           gone == [c EXCEPT !.text = text \cup {operator}, !.logPhase = FALSE,
                             !.operandText = {}, !.at = @ + 1]
<1>1. Len(frames) > 1 /\ ~AtStage /\ UNCHANGED <<offsetWritten, written>>
  BY DEF ReturnOperand
<1>2. frames # << >> /\ frames \in Seq(FrameRecord)
  BY <1>1 DEF FramesOK
<1>3. /\ Depth \in Nat /\ Depth > 1 /\ DOMAIN frames = 1..Depth
      /\ Outer \in Seq(FrameRecord) /\ Len(Outer) = Depth - 1
      /\ \A k \in 1..(Depth - 1) : Outer[k] = frames[k]
  BY <1>1, <1>2, OuterFrames DEF Depth
<1>4. c = Outer[Len(Outer)] /\ Depth - 1 \in DOMAIN frames /\ Depth - 1 < Len(frames)
  BY <1>3 DEF Depth
<1>5. c \in FrameRecord /\ Placed(c, TRUE) /\ Frame1 \in FrameRecord
  <2>1. Placed(frames[Depth - 1], Depth - 1 < Len(frames))
    BY <1>4 DEF FramesOK
  <2> QED BY <1>2, <1>4, <2>1, FramesSplit DEF Placed
<1>6. \/ /\ c.operands # << >>
         /\ frames' = below \o <<waiting, Frame(next)>>
         /\ notes' = notes \cup Dropped(Frame1.q) \cup EntryNotes(next)
      \/ /\ c.operands = << >>
         /\ frames' = Append(below, gone)
         /\ notes' = notes \cup Dropped(Frame1.q)
  BY <1>4 DEF ReturnOperand, Dropped
<1>7. /\ below \in Seq(FrameRecord) /\ Len(below) = Depth - 2
      /\ \A k \in 1..(Depth - 2) : below[k] = frames[k]
  <2>1. 1 \in Int /\ Len(Outer) - 1 \in Int
        /\ \A i \in 1..(Len(Outer) - 1) : Outer[i] \in FrameRecord
    BY <1>3
  <2>2. /\ SubSeq(Outer, 1, Len(Outer) - 1) \in Seq(FrameRecord)
        /\ Len(SubSeq(Outer, 1, Len(Outer) - 1)) =
               IF 1 <= Len(Outer) - 1 THEN (Len(Outer) - 1) - 1 + 1 ELSE 0
        /\ \A i \in 1..((Len(Outer) - 1) - 1 + 1) :
               SubSeq(Outer, 1, Len(Outer) - 1)[i] = Outer[1 + i - 1]
    BY <1>3, <2>1, SubSeqProperties
  <2> QED BY <1>3, <2>2
<1>8. c.q \in DOMAIN query /\ c.at \in Nat /\ c.at >= 1 /\ c.at <= Len(Pipeline(c.q))
      /\ c.operands \in Seq(Nat) /\ \A i \in DOMAIN c.operands : c.operands[i] \in DOMAIN query
  BY <1>5 DEF Placed, FrameRecord
<1>9. text \in SUBSET Node
  BY <1>5 DEF FrameRecord
<1>10. operator \in Node
  <2>1. /\ Pipeline(c.q) \in Seq(StageId)
        /\ \A i \in DOMAIN Pipeline(c.q) : Pipeline(c.q)[i] \in DOMAIN stage
    BY <1>8, PipelineType
  <2>2. c.at \in DOMAIN Pipeline(c.q)
    BY <1>8, <2>1
  <2> QED BY <2>1, <2>2 DEF StageNode, Node
<1> HIDE DEF text, below, operator
<1>11. CASE /\ c.operands # << >>
            /\ frames' = below \o <<waiting, Frame(next)>>
            /\ notes' = notes \cup Dropped(Frame1.q) \cup EntryNotes(next)
  <2>1. /\ next = c.operands[1] /\ 1 \in DOMAIN c.operands
        /\ Tail(c.operands) \in Seq(Nat)
        /\ Len(Tail(c.operands)) = Len(c.operands) - 1
        /\ \A i \in 1..Len(Tail(c.operands)) : Tail(c.operands)[i] = c.operands[i + 1]
    BY <1>8, <1>11, HeadTailProperties
  <2>2. next \in DOMAIN query
    BY <1>8, <2>1
  <2>3. Queued(c.operands) = {next} \cup Queued(Tail(c.operands))
    BY <1>8, <1>11, HeadQueued
  <2>4. /\ waiting \in FrameRecord /\ SamePlace(c, waiting) /\ waiting.operandText = text
        /\ waiting.operands = Tail(c.operands)
    BY <1>5, <1>9, <2>1 DEF FrameRecord, SamePlace
  <2>5. Frame(next) \in FrameRecord
    BY <2>2, FrameType
  <2> HIDE DEF waiting, next
  <2>6. PICK tail : tail = <<waiting, Frame(next)>>
    OBVIOUS
  <2>7. tail \in Seq(FrameRecord) /\ Len(tail) = 2 /\ tail[1] = waiting /\ tail[2] = Frame(next)
    BY <2>4, <2>5, <2>6
  <2>8. /\ below \o tail \in Seq(FrameRecord) /\ Len(below \o tail) = Len(below) + Len(tail)
        /\ \A i \in 1..(Len(below) + Len(tail)) :
              (below \o tail)[i] = IF i <= Len(below) THEN below[i] ELSE tail[i - Len(below)]
    BY <1>7, <2>7, ConcatProperties
  <2>9. frames' = below \o tail
    BY <1>11, <2>6
  <2>9a. /\ frames' \in Seq(FrameRecord) /\ Len(frames') = Len(below) + Len(tail)
         /\ Len(below) = Depth - 2 /\ Len(tail) = 2 /\ Depth \in Nat
    BY <1>3, <1>7, <2>7, <2>8, <2>9
  <2>9b. (Depth - 2) + 2 = Depth
    BY <2>9a
  <2>9c. Len(frames') = Depth
    BY <2>9a, <2>9b
  <2>9d. DOMAIN frames' = 1..Len(frames')
    BY <2>9a
  <2>10. /\ Len(frames') = Depth /\ DOMAIN frames' = 1..Depth
    BY <2>9c, <2>9d
  <2>11. /\ frames'[Depth - 1] = waiting /\ frames'[Depth] = Frame(next)
    <3>1. /\ Depth - 1 \in 1..(Len(below) + Len(tail)) /\ ~(Depth - 1 <= Len(below))
          /\ (Depth - 1) - Len(below) = 1
          /\ Depth \in 1..(Len(below) + Len(tail)) /\ ~(Depth <= Len(below))
          /\ Depth - Len(below) = 2
      BY <1>3, <2>9a
    <3>2. /\ (below \o tail)[Depth - 1] = tail[(Depth - 1) - Len(below)]
          /\ (below \o tail)[Depth] = tail[Depth - Len(below)]
      BY <2>8, <3>1
    <3> QED BY <2>7, <2>9, <3>1, <3>2
  <2>12. \A k \in 1..(Depth - 2) : frames'[k] = frames[k]
    BY <1>3, <1>7, <2>7, <2>8, <2>9
  <2>13. Turns(waiting, Frame(next))
    BY <2>10, <2>11, <2>12 DEF Turns
  <2> QED BY <1>1, <1>3, <1>11, <2>2, <2>3, <2>4, <2>13 DEF text
<1>12. CASE /\ c.operands = << >>
            /\ frames' = Append(below, gone)
            /\ notes' = notes \cup Dropped(Frame1.q)
  <2>1. text \cup {operator} \in SUBSET Node /\ c.at + 1 \in Nat /\ {} \in SUBSET Node
    BY <1>8, <1>9, <1>10
  <2>2. /\ gone \in FrameRecord /\ gone.q = c.q /\ gone.at = c.at + 1
        /\ gone.text = text \cup {operator} /\ gone.logPhase = FALSE /\ gone.operandText = {}
    BY <1>5, <2>1 DEF FrameRecord
  <2> HIDE DEF gone
  <2>3. /\ Len(frames') = Len(below) + 1 /\ frames' \in Seq(FrameRecord)
        /\ frames'[Len(below) + 1] = gone
        /\ \A k \in 1..Len(below) : frames'[k] = below[k]
    BY <1>7, <1>12, <2>2, AppendProperties
  <2>4. Returns(gone)
    BY <1>3, <1>7, <2>3 DEF Returns
  <2> QED BY <1>1, <1>3, <1>12, <2>2, <2>4 DEF text, operator
<1> QED BY <1>6, <1>11, <1>12

-----------------------------------------------------------------------------
(* What an expression is in which nothing was refused. *)

Clean == CarriedBy(UNSUPPORTED) = {}

(* What a query is once nothing in it was refused. *)
Passable(q) ==
    /\ ~Flagged(QueryNode(q)) /\ query[q].subquery = 0
    /\ query[q].offset > 0 => \E i \in DOMAIN Pipeline(q) : ProducesRange(Pipeline(q)[i])
    /\ \A i \in DOMAIN Pipeline(q) :
          (stage[Pipeline(q)[i]].type = "Aggregation" /\ stage[Pipeline(q)[i]].scope = "GROUP")
             => \E j \in DOMAIN Pipeline(q) : j < i /\ ProducesRange(Pipeline(q)[j])

(* ... and a stage. *)
Writable(s) ==
    /\ ~Flagged(StageNode(s)) /\ stage[s].type # "Join"
    /\ (stage[s].type = "Aggregation" /\ ~FunctionForAggregation(def, stage[s].what, stage[s].scope))
          => stage[s].scope # "TEMPORAL" /\ OtherAxis(StageNode(s))
    /\ (stage[s].type = "Filter" /\ stage[s].bool > 0) => flag[StageNode(s)] = PARTIAL

(* Every query and every stage has been judged. *)
JudgedAll ==
    /\ \A q \in DOMAIN query : QueryChecks(q) \subseteq issues
    /\ \A s \in DOMAIN stage : checkStage(s) \subseteq issues

Plain ==
    /\ \A q \in DOMAIN query : Passable(q)
    /\ \A s \in DOMAIN stage : Writable(s)

(* What the LogQL definition says. *)
LEMMA TargetIs ==
  /\ def.arithmetic /\ ~def.joins /\ ~def.subqueries /\ def.offsetNeedsRange
  /\ def.groupAggregationNeedsSamples /\ ~def.boolModifier /\ ~SupportsSignal(def, "METRIC")
  BY EmittedTarget DEF def, Dialect, Logql, SupportsSignal

(* What one of the aggregations is spelled, one over time is spelled. *)
LEMMA OverTimeToo ==
  ASSUME NEW op, NEW scope, FunctionsForAggOp(def, op) # {},
         ~FunctionForAggregation(def, op, scope)
  PROVE  scope # "TEMPORAL"
<1>1. def.aggregations = {<<"RATE", "TEMPORAL">>, <<"SUM", "TEMPORAL">>, <<"SUM", "GROUP">>,
                          <<"QUANTILE", "TEMPORAL">>}
  BY EmittedTarget DEF def, Dialect, Logql
<1>2. PICK a \in def.aggregations : a[1] = op
  BY DEF FunctionsForAggOp
<1>3. op \in {"RATE", "SUM", "QUANTILE"}
  BY <1>1, <1>2
<1>4. <<op, "TEMPORAL">> \in def.aggregations
  BY <1>1, <1>3
<1> QED BY <1>4 DEF FunctionForAggregation

(* The nodes of the tree a refusal may be about. *)
LEMMA PresentAre ==
  ASSUME HeapOK
  PROVE  /\ \A q \in DOMAIN query : QueryNode(q) \in Present
         /\ \A s \in DOMAIN stage : StageNode(s) \in Present
         /\ \A q \in DOMAIN query : query[q].offset > 0 => <<"Window", q>> \in Present
<1> DEFINE allocated == {QueryNode(q) : q \in DOMAIN query} \cup {StageNode(s) : s \in DOMAIN stage}
           below == ChildNodes(allocated)
<1>1. Present = allocated \cup below \cup ChildNodes(below \ allocated)
  BY DEF Present
<1>2. (\A q \in DOMAIN query : QueryNode(q) \in allocated) /\ (\A s \in DOMAIN stage : StageNode(s) \in allocated)
  OBVIOUS
<1> HIDE DEF allocated
<1>3. ASSUME NEW q \in DOMAIN query, query[q].offset > 0 PROVE <<"Window", q>> \in Present
  <2> DEFINE front == Given(query[q].source # "none", << <<"Source", q>> >>)
             middle == NodesOf("Stage", Pipeline(q))
             children == QueryChildren(q, Pipeline(q))
  <2>1. front \in Seq(Live) /\ middle \in Seq(Live) /\ <<"Output", q>> \in Live
    <3>1. <<"Source", q>> \in Live /\ <<"Output", q>> \in Live
      BY <1>3, LiveParts DEF QueryKinds
    <3>2. Pipeline(q) \in Seq(StageId) /\ \A k \in DOMAIN Pipeline(q) : <<"Stage", Pipeline(q)[k]>> \in Live
      BY <1>3, PipelineType, LiveParts DEF StageKinds
    <3> QED BY <3>1, <3>2, GivenType, NodesOfType
  <2>2. children = (front \o middle) \o << <<"Output", q>> >>
    BY DEF QueryChildren
  <2> HIDE DEF front, middle, children
  <2>3. PICK head : head = front \o middle
    OBVIOUS
  <2>4. head \in Seq(Live)
    BY <2>1, <2>3
  <2>5. children = Append(head, <<"Output", q>>)
    BY <2>1, <2>2, <2>3, <2>4
  <2>6. /\ children \in Seq(Live) /\ Len(children) = Len(head) + 1
        /\ children[Len(head) + 1] = <<"Output", q>>
    BY <2>1, <2>4, <2>5, AppendProperties
  <2>7. Len(head) + 1 \in DOMAIN children
    BY <2>4, <2>6
  <2>8. Children(QueryNode(q)) = children
    BY DEF Children, QueryNode, Pipeline, children
  <2>9. <<"Output", q>> \in below
    <3>1. Len(head) + 1 \in DOMAIN Children(QueryNode(q)) /\ Children(QueryNode(q))[Len(head) + 1] = <<"Output", q>>
      BY <2>6, <2>7, <2>8
    <3> QED BY <1>2, <3>1 DEF ChildNodes
  <2>10. <<"Output", q>> \notin allocated
    BY DEF allocated, QueryNode, StageNode
  <2> HIDE DEF below
  <2> DEFINE pin == Given(query[q].pinned > 0, << <<"Range", q>> >>)
             window == << <<"Window", q>> >>
  <2>11. Children(<<"Output", q>>) = pin \o window
    BY <1>3 DEF Children, HasWindow, Given
  <2>12. pin \in Seq(Live) /\ window \in Seq(Live)
    <3>1. <<"Range", q>> \in Live /\ <<"Window", q>> \in Live
      BY <1>3, LiveParts DEF QueryKinds
    <3> QED BY <3>1, GivenType
  <2> HIDE DEF pin
  <2>13. pin \o window = Append(pin, <<"Window", q>>)
    BY <2>12
  <2>13a. <<"Window", q>> \in Live
    BY <1>3, LiveParts DEF QueryKinds
  <2>14. /\ pin \o window \in Seq(Live) /\ Len(pin \o window) = Len(pin) + 1
         /\ (pin \o window)[Len(pin) + 1] = <<"Window", q>>
    BY <2>12, <2>13, <2>13a, AppendProperties
  <2>15. Len(pin) + 1 \in DOMAIN Children(<<"Output", q>>)
    BY <2>11, <2>12, <2>14
  <2>16. <<"Window", q>> \in ChildNodes(below \ allocated)
    BY <2>9, <2>10, <2>11, <2>14, <2>15 DEF ChildNodes
  <2> QED BY <1>1, <2>16
<1> QED BY <1>1, <1>2, <1>3

(* No verdict refuses a node of a tree that carries no refusal. *)
LEMMA NoneRefused ==
  ASSUME HeapOK, WalkOK, FlagIsWorstVerdict, Clean, NEW v \in issues, v.node \in Present
  PROVE  v.flag # UNSUPPORTED /\ flag[v.node] # UNSUPPORTED
<1>1. v.node \in Node
  BY PresentNodes
<1>2. v.flag <= flag[v.node] /\ flag[v.node] \in Flags
  BY <1>1 DEF FlagIsWorstVerdict, WalkOK
<1>3. flag[v.node] # UNSUPPORTED
  BY DEF Clean, CarriedBy
<1>4. v.flag \in Flags
  BY DEF WalkOK, Judgement, VerdictRecord
<1> QED BY <1>2, <1>3, <1>4 DEF Flags, FULL, PARTIAL, UNSUPPORTED

(* A tree without refusals is plain. *)
LEMMA CleanIsPlain ==
  ASSUME HeapOK, WalkOK, FlagIsWorstVerdict, FittingOK, JudgedAll, Clean
  PROVE  Plain
<1>0. \A n \in Present : ~Flagged(n)
  BY DEF Clean, CarriedBy, Flagged
<1>1. ASSUME NEW q \in DOMAIN query PROVE Passable(q)
  <2>1. QueryNode(q) \in Present /\ (query[q].offset > 0 => <<"Window", q>> \in Present)
    BY PresentAre
  <2>2. checkSubquery(q) \subseteq issues /\ checkOffset(q, Pipeline(q)) \subseteq issues
        /\ checkAggregationOperand(q, Pipeline(q)) \subseteq issues
    BY DEF JudgedAll, QueryChecks
  <2>3. query[q].subquery = 0
    <3> SUFFICES ASSUME IsSubquery(q) PROVE FALSE
      <4>1. query[q].subquery \in Nat
        BY HeapDomains DEF QueryRecord
      <4> QED BY <4>1 DEF IsSubquery
    <3>1. PICK v : v = Verdict(QueryNode(q), UNSUPPORTED, "subquery")
      OBVIOUS
    <3>2. v \in checkSubquery(q)
      BY <3>1, TargetIs DEF checkSubquery, Raise
    <3>3. v.node = QueryNode(q) /\ v.flag = UNSUPPORTED
      BY <3>1 DEF Verdict
    <3> QED BY <2>1, <2>2, <3>2, <3>3, NoneRefused
  <2>4. ASSUME query[q].offset > 0
        PROVE  \E i \in DOMAIN Pipeline(q) : ProducesRange(Pipeline(q)[i])
    <3> SUFFICES ASSUME \A i \in DOMAIN Pipeline(q) : ~ProducesRange(Pipeline(q)[i]) PROVE FALSE
      OBVIOUS
    <3>1. PICK v : v = Verdict(<<"Window", q>>, UNSUPPORTED, "offset without range")
      OBVIOUS
    <3>2. v \in checkOffset(q, Pipeline(q))
      BY <2>4, <3>1, TargetIs DEF checkOffset, Raise
    <3>3. v.node = <<"Window", q>> /\ v.flag = UNSUPPORTED
      BY <3>1 DEF Verdict
    <3> QED BY <2>1, <2>2, <2>4, <3>2, <3>3, NoneRefused
  <2>5. ASSUME NEW i \in DOMAIN Pipeline(q),
               stage[Pipeline(q)[i]].type = "Aggregation", stage[Pipeline(q)[i]].scope = "GROUP"
        PROVE  \E j \in DOMAIN Pipeline(q) : j < i /\ ProducesRange(Pipeline(q)[j])
    <3> SUFFICES ASSUME \A j \in DOMAIN Pipeline(q) : ~(j < i /\ ProducesRange(Pipeline(q)[j]))
                 PROVE  FALSE
      OBVIOUS
    <3>0. DOMAIN Pipeline(q) = 1..Len(Pipeline(q)) /\ Len(Pipeline(q)) \in Nat
      BY PipelineType
    <3>1. \A j \in 1..(i - 1) : j \in DOMAIN Pipeline(q) /\ j < i
      BY <3>0
    <3>2. i \in GroupWithoutSamples(Pipeline(q))
      BY <2>5, <3>1 DEF GroupWithoutSamples
    <3>3. PICK v : v = Verdict(StageNode(Pipeline(q)[i]), UNSUPPORTED, "no samples")
      OBVIOUS
    <3>4. v \in checkAggregationOperand(q, Pipeline(q))
      BY <3>2, <3>3, TargetIs DEF checkAggregationOperand, Raise
    <3>5. v.node = StageNode(Pipeline(q)[i]) /\ v.flag = UNSUPPORTED
      BY <3>3 DEF Verdict
    <3>6. StageNode(Pipeline(q)[i]) \in Present
      BY PresentAre, PipelineType
    <3> QED BY <2>2, <3>4, <3>5, <3>6, NoneRefused
  <2> QED BY <1>0, <2>1, <2>3, <2>4, <2>5 DEF Passable
<1>2. ASSUME NEW s \in DOMAIN stage PROVE Writable(s)
  <2>1. StageNode(s) \in Present /\ checkStage(s) \subseteq issues
    BY PresentAre DEF JudgedAll
  <2>2. ASSUME stage[s].type = "Join" PROVE FALSE
    <3>1. PICK v : v = Verdict(StageNode(s), UNSUPPORTED, "join")
      OBVIOUS
    <3>2. v \in checkStage(s)
      BY <2>2, <3>1, TargetIs DEF checkStage, checkJoin, IsOperator, Raise
    <3>3. v.node = StageNode(s) /\ v.flag = UNSUPPORTED
      BY <3>1 DEF Verdict
    <3> QED BY <2>1, <3>2, <3>3, NoneRefused
  <2>3. ASSUME stage[s].type = "Aggregation",
               ~FunctionForAggregation(def, stage[s].what, stage[s].scope)
        PROVE  stage[s].scope # "TEMPORAL" /\ OtherAxis(StageNode(s))
    <3>1. checkStage(s) = checkAggregation(StageNode(s), stage[s])
      BY <2>3 DEF checkStage, IsOperator
    <3>2. FunctionsForAggOp(def, stage[s].what) # {}
      <4> SUFFICES ASSUME FunctionsForAggOp(def, stage[s].what) = {} PROVE FALSE
        OBVIOUS
      <4>1. PICK v : v = Verdict(StageNode(s), UNSUPPORTED, "no aggregation")
        OBVIOUS
      <4>2. v \in checkStage(s)
        BY <2>3, <3>1, <4>1 DEF checkAggregation, Raise
      <4>3. v.node = StageNode(s) /\ v.flag = UNSUPPORTED
        BY <4>1 DEF Verdict
      <4> QED BY <2>1, <4>2, <4>3, NoneRefused
    <3>3. stage[s].scope # "TEMPORAL"
      BY <2>3, <3>2, OverTimeToo
    <3>4. PICK v : v = Verdict(StageNode(s), PARTIAL, "other axis")
      OBVIOUS
    <3>5. v \in checkStage(s)
      BY <2>3, <3>1, <3>2, <3>4 DEF checkAggregation, Raise
    <3>6. v.node = StageNode(s) /\ v.flag = PARTIAL /\ v \in issues
      BY <2>1, <3>4, <3>5 DEF Verdict
    <3>7. StageNode(s) \in Node
      BY <2>1, PresentNodes
    <3>8. flag[StageNode(s)] = PARTIAL
      <4>1. v.flag <= flag[v.node] /\ flag[StageNode(s)] \in Flags
        BY <3>6, <3>7 DEF FlagIsWorstVerdict, WalkOK
      <4>2. flag[StageNode(s)] # UNSUPPORTED
        BY <1>0, <2>1 DEF Flagged
      <4> QED BY <3>6, <4>1, <4>2 DEF Flags, FULL, PARTIAL, UNSUPPORTED
    <3>9. flag[StageNode(s)] # FULL
      BY <3>8, FlagsDiffer
    <3>10. PICK w \in issues : w.node = StageNode(s) /\ w.flag = flag[StageNode(s)]
                               /\ w.reason = reason[StageNode(s)]
      BY <3>7, <3>9 DEF FlagIsWorstVerdict
    <3>11. w.node[1] = "Stage" /\ w.node[2] = s
      BY <3>10 DEF StageNode
    <3>12. Fitting(w)
      BY DEF FittingOK, Known
    <3>13. w.reason = "other axis"
      BY <2>3, <3>8, <3>10, <3>11, <3>12 DEF Fitting
    <3> QED BY <3>3, <3>10, <3>11, <3>13 DEF OtherAxis
  <2>4. ASSUME stage[s].type = "Filter", stage[s].bool > 0
        PROVE  flag[StageNode(s)] = PARTIAL
    <3>1. PICK v : v = Verdict(StageNode(s), PARTIAL, "bool")
      OBVIOUS
    <3>2. v \in checkStage(s)
      BY <2>4, <3>1, TargetIs DEF checkStage, checkFilter, IsOperator, Raise
    <3>3. v.node = StageNode(s) /\ v.flag = PARTIAL /\ v \in issues
      BY <2>1, <3>1, <3>2 DEF Verdict
    <3>4. StageNode(s) \in Node
      BY <2>1, PresentNodes
    <3>5. v.flag <= flag[v.node] /\ flag[StageNode(s)] \in Flags
      BY <3>3, <3>4 DEF FlagIsWorstVerdict, WalkOK
    <3>6. flag[StageNode(s)] # UNSUPPORTED
      BY <1>0, <2>1 DEF Flagged
    <3> QED BY <3>3, <3>5, <3>6 DEF Flags, FULL, PARTIAL, UNSUPPORTED
  <2> QED BY <1>0, <2>1, <2>2, <2>3, <2>4 DEF Writable
<1> QED BY <1>1, <1>2 DEF Plain

-----------------------------------------------------------------------------
(* What each call of the emitter knows of the text it writes. *)

RangedBy(q, i) == \E j \in DOMAIN Pipeline(q) : j < i /\ ProducesRange(Pipeline(q)[j])
Ranged(f) == RangedBy(f.q, f.at)

(* A call writes a log expression as long as its query has a source and no    *)
(* stage passed has turned it into samples.                                   *)
InPhase(f) == f.logPhase <=> Sourced(f.q) /\ ~Ranged(f)

(* An offset is in the text once the range it goes with is. *)
Reached(f) == (query[f.q].offset > 0 /\ Ranged(f)) => offsetWritten

InStep == \A k \in DOMAIN frames : InPhase(frames[k]) /\ Reached(frames[k])

(* A call that waits has come to the operator whose operands are written. *)
Waits(f) == HasOperands(stage[Pipeline(f.q)[f.at]])
Awaiting == \A k \in DOMAIN frames : k < Depth => Waits(frames[k])

NotesMeant == \A n \in notes : Pinned(n) \/ OtherAxis(n) \/ Reworded(n)

Unwritten ==
    pc \in {"resolving", "validating", "failed"} => offsetWritten = FALSE /\ written = {} /\ notes = {}

SortedAll == \A q \in DOMAIN query : SortedIn(Pipeline(q))

(* What is done to the samples is done after they are made. *)
LEMMA ProducerRank ==
  ASSUME NEW s, ProducesRange(s)
  PROVE  rankOf(stage[s], def) = 5
<1>1. def.rangeFunctions = {"bytes_rate", "stdvar_over_time"}
  BY EmittedTarget DEF def, Dialect, Logql, RangeFunctions
<1>2. CASE stage[s].type = "Aggregation"
  BY <1>2 DEF rankOf, rankAggregation
<1>3. CASE stage[s].type = "Function" /\ stage[s].what \in {"bytes_rate", "stdvar_over_time"}
  <2>1. stage[s].what \notin Parsers \cup LabelFormatters \cup LineFormatters \cup {"unwrap"}
    BY <1>3 DEF Parsers, LabelFormatters, LineFormatters
  <2> QED BY <1>1, <1>3, <2>1 DEF rankOf, rankAggregation, ReadsRangeOperand
<1> QED BY <1>1, <1>2, <1>3 DEF ProducesRange, ReadsRangeOperand

(* What reads log records ranks before every producer. *)
LEMMA LogRank ==
  ASSUME NEW st, ReadsLog(st)
  PROVE  rankOf(st, def) < 5
<1>1. CASE st.type = "Filter" /\ st.what # FieldValue
  BY <1>1 DEF rankOf, rankLineFilter, rankLabelFilter
<1>2. CASE st.type = "Function" /\ st.what \in LogStages
  <2>0. ~ReadsRangeOperand(def, st.what)
    BY <1>2, EmittedTarget DEF ReadsRangeOperand, def, Dialect, Logql, RangeFunctions,
       LogStages, Parsers, LabelFormatters, LineFormatters
  <2>1. CASE st.what = "unwrap"
    BY <1>2, <2>1, UnwrapRank DEF rankUnwrap
  <2>2. CASE st.what \in Parsers
    BY <1>2, <2>0, <2>2 DEF rankOf, rankParser, Parsers, LabelFormatters, LineFormatters
  <2>3. CASE st.what \in LabelFormatters \cup LineFormatters
    BY <1>2, <2>0, <2>3 DEF rankOf, rankFormatter, Parsers, LabelFormatters, LineFormatters
  <2> QED BY <1>2, <2>1, <2>2, <2>3 DEF LogStages
<1> QED BY <1>1, <1>2 DEF ReadsLog

(* Where a stage stands in its query, and what has been passed before it. *)
LEMMA ProducerSourced ==
  ASSUME HeapOK, OneRange, SortedAll, NEW q \in DOMAIN query, Passable(q),
         NEW i \in DOMAIN Pipeline(q), ProducesRange(Pipeline(q)[i])
  PROVE  Sourced(q) /\ ~RangedBy(q, i)
<1>0. \A k \in DOMAIN Pipeline(q) : ProducesRange(Pipeline(q)[k]) => Pipeline(q)[k] \in Producers(q)
  BY DEF Producers, Yields, ProducesRange, InPipeline
<1>1. query[q].subquery = 0
  BY DEF Passable
<1>2. Sourced(q) /\ \A s, t \in Producers(q) : s = t
  BY <1>0, <1>1 DEF OneRange
<1>3. ASSUME NEW j \in DOMAIN Pipeline(q), j < i, ProducesRange(Pipeline(q)[j]) PROVE FALSE
  <2>1. Pipeline(q)[j] = Pipeline(q)[i]
    BY <1>0, <1>2, <1>3
  <2>2. PICK s : s = Pipeline(q)[i]
    OBVIOUS
  <2>3. s \in Nat /\ rankOf(stage[s], def) \in Nat
    <3>0. Pipeline(q) \in Seq(StageId)
      BY PipelineType
    <3>1. s \in StageId
      BY <2>2, <3>0
    <3>2. s \in Nat
      BY <3>1 DEF StageId
    <3> QED BY <3>2, RankType
  <2>4. \/ rankOf(stage[s], def) < rankOf(stage[s], def)
        \/ s < s
    BY <1>3, <2>1, <2>2 DEF SortedAll, SortedIn
  <2> QED BY <2>3, <2>4
<1> QED BY <1>2, <1>3 DEF RangedBy

(* A stage that reads log records has a source, and no producer before it. *)
LEMMA LogStageSourced ==
  ASSUME HeapOK, LogStagesSourced, SortedAll, NEW q \in DOMAIN query,
         NEW i \in DOMAIN Pipeline(q), ReadsLog(stage[Pipeline(q)[i]])
  PROVE  Sourced(q) /\ ~RangedBy(q, i)
<1>1. Sourced(q)
  BY DEF LogStagesSourced, InPipeline
<1>2. ASSUME NEW j \in DOMAIN Pipeline(q), j < i, ProducesRange(Pipeline(q)[j]) PROVE FALSE
  <2>1. rankOf(stage[Pipeline(q)[j]], def) = 5 /\ rankOf(stage[Pipeline(q)[i]], def) < 5
    BY <1>2, ProducerRank, LogRank
  <2>2. rankOf(stage[Pipeline(q)[i]], def) \in Nat
    BY RankType
  <2>3. \/ rankOf(stage[Pipeline(q)[j]], def) < rankOf(stage[Pipeline(q)[i]], def)
        \/ rankOf(stage[Pipeline(q)[j]], def) = rankOf(stage[Pipeline(q)[i]], def)
    BY <1>2 DEF SortedAll, SortedIn
  <2> QED BY <2>1, <2>2, <2>3
<1> QED BY <1>1, <1>2 DEF RangedBy

(* What kinds of stage there are to pass. *)

(* A call that passes a stage stays in step. *)
LEMMA PassingStaysInStep ==
  ASSUME HeapOK, FramesOK, AtStage, InStep, UNCHANGED <<query, stage>>,
         NEW text \in SUBSET Node, NEW logPhase \in BOOLEAN, Render(text, logPhase),
         logPhase <=> Sourced(Frame1.q) /\ ~Ranged(Frame1) /\ ~ProducesRange(Here),
         (query[Frame1.q].offset > 0 /\ ProducesRange(Here)) => offsetWritten',
         offsetWritten => offsetWritten'
  PROVE  InStep'
<1>1. frames # << >> /\ Frame1.q \in DOMAIN query /\ Frame1.at \in DOMAIN Pipeline(Frame1.q)
  BY HereType
<1>2. PICK g : /\ Becomes(g)
               /\ g.q = Frame1.q /\ g.at = Frame1.at + 1 /\ g.text = text /\ g.logPhase = logPhase
  BY <1>1, RenderBecomes
<1>3. Depth \in Nat \ {0} /\ DOMAIN frames = 1..Depth /\ Frame1 = frames[Depth]
  BY <1>1, OuterFrames
<1>4. \A f : (InPhase(f)' <=> InPhase(f)) /\ (Reached(f) => Reached(f)')
  BY DEF InPhase, Reached, Ranged, RangedBy, Sourced, ProducesRange, Pipeline, def
<1>5. PICK f : f = Frame1
  OBVIOUS
<1>6. InPhase(f) /\ Reached(f) /\ Depth \in DOMAIN frames
  BY <1>3, <1>5 DEF InStep
<1>7. Frame1.at \in Nat /\ DOMAIN Pipeline(f.q) \subseteq Nat
  BY <1>1, <1>5, PipelineType
<1>8. Ranged(g) <=> Ranged(f) \/ ProducesRange(Here)
  BY <1>1, <1>2, <1>5, <1>7 DEF Ranged, RangedBy, Here
<1>9. InPhase(g)
  BY <1>2, <1>5, <1>8 DEF InPhase
<1>10. Reached(g)'
  <2>1. (query[g.q].offset > 0 /\ Ranged(g)) => offsetWritten'
    BY <1>2, <1>5, <1>6, <1>8 DEF Reached
  <2> QED BY <2>1 DEF Reached, Ranged, RangedBy, ProducesRange, Pipeline, def
<1>11. \A k \in 1..(Depth - 1) : InPhase(frames[k]) /\ Reached(frames[k])
  BY <1>3 DEF InStep
<1>12. ASSUME NEW k \in DOMAIN frames' PROVE \E h : h = frames'[k] /\ InPhase(h)' /\ Reached(h)'
  <2>1. CASE k = Depth
    BY <1>2, <1>4, <1>9, <1>10, <2>1 DEF Becomes
  <2>2. CASE k # Depth
    <3>1. k \in 1..(Depth - 1) /\ frames'[k] = frames[k]
      BY <1>2, <1>3, <1>12, <2>2 DEF Becomes
    <3>2. PICK h : h = frames[k]
      OBVIOUS
    <3> QED BY <1>4, <1>11, <3>1, <3>2
  <2> QED BY <2>1, <2>2
<1> QED BY <1>12 DEF InStep

(* What the stage come to is, of a query nothing in which was refused. *)
LEMMA StageAtHand ==
  ASSUME HeapOK, FramesOK, ShapesOK, SortedAll, Plain, InStep, AtStage
  PROVE  /\ Writable(Here) /\ (Frame1.logPhase <=> Sourced(Frame1.q) /\ ~Ranged(Frame1))
         /\ ProducesRange(Here) => Frame1.logPhase
         /\ ReadsLog(stage[Here]) => Frame1.logPhase
         /\ Origin(stage[Here]) => ~Sourced(Frame1.q)
         /\ (stage[Here].type = "Aggregation" /\ stage[Here].scope = "GROUP") => Ranged(Frame1)
<1>1. /\ frames # << >> /\ Here \in DOMAIN stage
      /\ Frame1.q \in DOMAIN query /\ Frame1.at \in DOMAIN Pipeline(Frame1.q)
  BY HereType
<1>2. PICK q, i : q = Frame1.q /\ i = Frame1.at
  OBVIOUS
<1>3. q \in DOMAIN query /\ i \in DOMAIN Pipeline(q) /\ Pipeline(q)[i] = Here /\ Here \in InPipeline(q)
  BY <1>1, <1>2 DEF Here, InPipeline
<1>4. Writable(Here) /\ Passable(q)
  BY <1>1, <1>3 DEF Plain
<1>5. Frame1.logPhase <=> Sourced(Frame1.q) /\ ~Ranged(Frame1)
  <2>1. Depth \in DOMAIN frames /\ Frame1 = frames[Depth]
    BY <1>1, OuterFrames
  <2> QED BY <2>1 DEF InStep, InPhase
<1>6. ProducesRange(Here) => Sourced(q) /\ ~RangedBy(q, i)
  BY <1>3, <1>4, ProducerSourced DEF ShapesOK
<1>7. ReadsLog(stage[Here]) => Sourced(q) /\ ~RangedBy(q, i)
  BY <1>3, LogStageSourced DEF ShapesOK
<1>8. Origin(stage[Here]) => ~Sourced(q)
  BY <1>3 DEF ShapesOK, OriginsFirst
<1>9. (stage[Here].type = "Aggregation" /\ stage[Here].scope = "GROUP") => RangedBy(q, i)
  BY <1>3, <1>4 DEF Passable, RangedBy
<1> QED BY <1>2, <1>4, <1>5, <1>6, <1>7, <1>8, <1>9 DEF Ranged

(* The stages passed within one call. *)
Passed(text, logPhase) ==
    /\ Render(text, logPhase) /\ text \in SUBSET Node /\ logPhase \in BOOLEAN
    /\ logPhase <=> Sourced(Frame1.q) /\ ~Ranged(Frame1) /\ ~ProducesRange(Here)
    /\ (query[Frame1.q].offset > 0 /\ ProducesRange(Here)) => offsetWritten'
    /\ offsetWritten => offsetWritten'
    /\ \A n \in notes' : n \in notes \/ OtherAxis(n) \/ Reworded(n)

(* Writing a stage at the end of the text passes it. *)
LEMMA AppendPasses ==
  ASSUME HeapOK, FramesOK, AtStage, NEW logPhase \in BOOLEAN, Append1(logPhase),
         logPhase <=> Sourced(Frame1.q) /\ ~Ranged(Frame1), ~ProducesRange(Here)
  PROVE  \E text : Passed(text, logPhase)
<1>1. frames # << >> /\ StageNode(Here) \in Node
  BY HereType
<1>2. Frame1.text \in SUBSET Node
  BY <1>1, FramesSplit DEF FrameRecord
<1>3. Passed(Frame1.text \cup {StageNode(Here)}, logPhase)
  BY <1>1, <1>2 DEF Passed, Append1
<1> QED BY <1>3

(* Closing a range over the text passes the stage that asks for it. *)
LEMMA ClosePasses ==
  ASSUME HeapOK, FramesOK, AtStage, CloseRange, ProducesRange(Here)
  PROVE  \E text : Passed(text, FALSE)
<1>1. frames # << >> /\ StageNode(Here) \in Node /\ <<"Window", Frame1.q>> \in Node
  BY HereType
<1>2. Frame1.text \in SUBSET Node
  BY <1>1, FramesSplit DEF FrameRecord
<1>3. PICK text : text = Frame1.text \cup {StageNode(Here)}
                          \cup {n \in {<<"Window", Frame1.q>>} : query[Frame1.q].offset > 0}
  OBVIOUS
<1>4. text \in SUBSET Node
  BY <1>1, <1>2, <1>3
<1>5. Passed(text, FALSE)
  BY <1>3, <1>4 DEF Passed, CloseRange
<1> QED BY <1>5

(* In a query nothing of which is refused, every stage at hand is passed. *)
LEMMA StagesPass ==
  ASSUME HeapOK, FramesOK, ShapesOK, SortedAll, Plain, InStep,
         SkipFlagged \/ ApplyAggregation \/ ApplyFunction \/ ApplyFilter \/ ApplyBareOperator
  PROVE  AtStage /\ \E text, logPhase : Passed(text, logPhase)
<1>1. AtStage
  BY DEF SkipFlagged, ApplyAggregation, ApplyFunction, ApplyFilter, ApplyBareOperator, Applicable
<1>2. /\ Writable(Here) /\ (Frame1.logPhase <=> Sourced(Frame1.q) /\ ~Ranged(Frame1))
      /\ ProducesRange(Here) => Frame1.logPhase
      /\ ReadsLog(stage[Here]) => Frame1.logPhase
      /\ Origin(stage[Here]) => ~Sourced(Frame1.q)
      /\ (stage[Here].type = "Aggregation" /\ stage[Here].scope = "GROUP") => Ranged(Frame1)
  BY <1>1, StageAtHand
<1>3. Frame1.text \in SUBSET Node /\ Frame1.logPhase \in BOOLEAN /\ StageNode(Here) \in Node
  BY <1>1, HereType, FramesSplit DEF FrameRecord
<1>4. SkipFlagged => FALSE
  BY <1>2 DEF SkipFlagged, Writable
<1>5. ASSUME ApplyAggregation PROVE \E text, logPhase : Passed(text, logPhase)
  <2>1. stage[Here].type = "Aggregation"
    BY <1>5 DEF ApplyAggregation, Applicable
  <2>2. CASE ~FunctionForAggregation(def, stage[Here].what, stage[Here].scope) /\ Drop
    <3>1. ~ProducesRange(Here) /\ OtherAxis(StageNode(Here))
      BY <1>2, <2>1, <2>2 DEF Writable, ProducesRange
    <3>2. Passed(Frame1.text, Frame1.logPhase)
      BY <1>2, <1>3, <2>2, <3>1 DEF Passed, Drop
    <3> QED BY <3>2
  <2>3. CASE /\ stage[Here].scope = "TEMPORAL"
             /\ IF Frame1.logPhase THEN CloseRange ELSE Drop
    <3>1. ProducesRange(Here)
      BY <2>1, <2>3 DEF ProducesRange
    <3> QED BY <1>1, <1>2, <2>3, <3>1, ClosePasses
  <2>4. CASE /\ stage[Here].scope = "GROUP"
             /\ IF Frame1.logPhase THEN Drop ELSE Append1(FALSE)
    <3>1. ~ProducesRange(Here) /\ ~Frame1.logPhase
      BY <1>2, <2>1, <2>4 DEF ProducesRange
    <3> QED BY <1>1, <1>2, <2>4, <3>1, AppendPasses
  <2> QED BY <1>5, <2>2, <2>3, <2>4 DEF ApplyAggregation
<1>6. ASSUME ApplyFunction PROVE \E text, logPhase : Passed(text, logPhase)
  <2>1. stage[Here].type = "Function"
    BY <1>6 DEF ApplyFunction, Applicable
  <2>2. PICK name : name = stage[Here].what
    OBVIOUS
  <2>3. ProducesRange(Here) <=> name \in RangeFunctions
    BY <2>1, <2>2, EmittedTarget DEF ProducesRange, ReadsRangeOperand, def, Dialect, Logql
  <2>4. CASE name = "literal" /\ Render({StageNode(Here)}, FALSE)
             /\ UNCHANGED <<offsetWritten, notes, written>>
    <3>1. ~ProducesRange(Here) /\ ~Sourced(Frame1.q)
      BY <1>2, <2>2, <2>3, <2>4 DEF RangeFunctions, Origin
    <3>2. Passed({StageNode(Here)}, FALSE)
      BY <1>3, <2>4, <3>1 DEF Passed
    <3> QED BY <3>2
  <2>5. CASE name \in LogStages /\ IF Frame1.logPhase THEN Append1(TRUE) ELSE Drop
    <3>1. Frame1.logPhase
      BY <1>2, <2>1, <2>2, <2>5 DEF ReadsLog
    <3>2. ~ProducesRange(Here)
      BY <2>3, <2>5 DEF RangeFunctions, LogStages, Parsers, LabelFormatters, LineFormatters
    <3> QED BY <1>1, <1>2, <2>5, <3>1, <3>2, AppendPasses
  <2>6. CASE name \in RangeFunctions /\ IF Frame1.logPhase THEN CloseRange ELSE Append1(FALSE)
    BY <1>1, <1>2, <2>3, <2>6, ClosePasses
  <2>7. CASE name \notin RangeFunctions /\ Append1(Frame1.logPhase)
    BY <1>1, <1>2, <1>3, <2>3, <2>7, AppendPasses
  <2> QED BY <1>6, <2>2, <2>4, <2>5, <2>6, <2>7 DEF ApplyFunction
<1>7. ASSUME ApplyFilter PROVE \E text, logPhase : Passed(text, logPhase)
  <2>1. stage[Here].type = "Filter"
    BY <1>7 DEF ApplyFilter, Applicable
  <2>2. ~ProducesRange(Here)
    BY <2>1 DEF ProducesRange
  <2>3. Frame1.logPhase \/ stage[Here].what = FieldValue
    BY <1>2, <2>1 DEF ReadsLog
  <2>4. CASE Frame1.logPhase
    <3>1. Append1(TRUE)
      BY <1>7, <2>4 DEF ApplyFilter
    <3> QED BY <1>1, <1>2, <2>2, <2>4, <3>1, AppendPasses
  <2>5. CASE ~Frame1.logPhase
    <3>1. WriteComparison
      BY <1>7, <2>3, <2>5 DEF ApplyFilter
    <3>2. stage[Here].bool > 0 => Reworded(<<"Predicate", Here>>)
      BY <1>2, <2>1 DEF Writable, Reworded
    <3>3. \A n \in notes' : n \in notes \/ Reworded(n)
      BY <3>1, <3>2 DEF WriteComparison
    <3>4. Frame1.text \cup {StageNode(Here)} \in SUBSET Node
      BY <1>3
    <3>5. Passed(Frame1.text \cup {StageNode(Here)}, FALSE)
      BY <1>2, <2>2, <2>5, <3>1, <3>3, <3>4 DEF Passed, WriteComparison
    <3> QED BY <3>5
  <2> QED BY <2>4, <2>5
<1>8. ASSUME ApplyBareOperator PROVE \E text, logPhase : Passed(text, logPhase)
  <2>1. ~ProducesRange(Here)
    BY <1>8 DEF ApplyBareOperator, Applicable, ProducesRange
  <2>2. Passed(Frame1.text, Frame1.logPhase)
    BY <1>2, <1>3, <1>8, <2>1 DEF Passed, ApplyBareOperator
  <2> QED BY <2>2
<1> QED BY <1>1, <1>4, <1>5, <1>6, <1>7, <1>8

(* What a step of the emitter leaves alone. *)
Settled == UNCHANGED <<query, stage, flag, reason>>

(* A call that waits goes on waiting. *)
LEMMA WaitingStays ==
  ASSUME Settled, NEW f, NEW g, SamePlace(f, g), Waits(f)
  PROVE  Waits(g)'
BY DEF Settled, SamePlace, Waits, Pipeline, HasOperands, IsOperator

(* A step of the emitter passes a stage within a call, has an operand written  *)
(* by a call of its own, or returns from one.                                 *)
Steps ==
    \/ \E g : Becomes(g)
    \/ \E f, g : Calls(f, g) /\ SamePlace(Frame1, f) /\ Waits(Frame1)
    \/ \E f, g : Depth > 1 /\ Turns(f, g) /\ SamePlace(frames[Depth - 1], f)
    \/ \E g : Returns(g)

(* The calls that wait still wait at an operator. *)
LEMMA AwaitingStays ==
  ASSUME FramesOK, frames # << >>, Awaiting, Settled, Steps
  PROVE  Awaiting'
<1>1. Depth \in Nat \ {0} /\ DOMAIN frames = 1..Depth /\ Frame1 = frames[Depth]
  BY OuterFrames
<1>2. ASSUME NEW k \in DOMAIN frames', k \in 1..(Depth - 1), frames'[k] = frames[k]
      PROVE  \E h : h = frames'[k] /\ Waits(h)'
  <2>1. PICK h : h = frames[k]
    OBVIOUS
  <2>2. Waits(h) /\ SamePlace(h, h)
    BY <1>1, <1>2, <2>1 DEF Awaiting, SamePlace
  <2> QED BY <1>2, <2>1, <2>2, WaitingStays
<1>3. CASE \E g : Becomes(g) \/ Returns(g)
  <2>1. ASSUME NEW k \in DOMAIN frames', k < Len(frames') PROVE \E h : h = frames'[k] /\ Waits(h)'
    <3>1. k \in 1..(Depth - 1) /\ frames'[k] = frames[k]
      BY <1>1, <1>3, <2>1 DEF Becomes, Returns
    <3> QED BY <1>2, <3>1
  <2> QED BY <2>1 DEF Awaiting, Depth
<1>4. CASE \E f, g : Calls(f, g) /\ SamePlace(Frame1, f) /\ Waits(Frame1)
  <2>1. PICK f, g : Calls(f, g) /\ SamePlace(Frame1, f) /\ Waits(Frame1)
    BY <1>4
  <2>2. PICK c : c = Frame1
    OBVIOUS
  <2>3. Waits(f)'
    BY <2>1, <2>2, WaitingStays
  <2>4. ASSUME NEW k \in DOMAIN frames', k < Len(frames') PROVE \E h : h = frames'[k] /\ Waits(h)'
    <3>1. CASE k = Depth
      BY <2>1, <2>3, <3>1 DEF Calls
    <3>2. CASE k # Depth
      <4>1. k \in 1..(Depth - 1) /\ frames'[k] = frames[k]
        BY <1>1, <2>1, <2>4, <3>2 DEF Calls
      <4> QED BY <1>2, <4>1
    <3> QED BY <3>1, <3>2
  <2> QED BY <2>4 DEF Awaiting, Depth
<1>5. CASE \E f, g : Depth > 1 /\ Turns(f, g) /\ SamePlace(frames[Depth - 1], f)
  <2>1. PICK f, g : Depth > 1 /\ Turns(f, g) /\ SamePlace(frames[Depth - 1], f)
    BY <1>5
  <2>2. PICK c : c = frames[Depth - 1]
    OBVIOUS
  <2>3. Waits(c)
    BY <1>1, <2>1, <2>2 DEF Awaiting
  <2>4. Waits(f)'
    BY <2>1, <2>2, <2>3, WaitingStays
  <2>5. ASSUME NEW k \in DOMAIN frames', k < Len(frames') PROVE \E h : h = frames'[k] /\ Waits(h)'
    <3>1. CASE k = Depth - 1
      BY <2>1, <2>4, <3>1 DEF Turns
    <3>2. CASE k # Depth - 1
      <4>1. k \in 1..(Depth - 2) /\ frames'[k] = frames[k]
        BY <1>1, <2>1, <2>5, <3>2 DEF Turns
      <4> QED BY <1>1, <1>2, <4>1
    <3> QED BY <3>1, <3>2
  <2> QED BY <2>5 DEF Awaiting, Depth
<1> QED BY <1>3, <1>4, <1>5 DEF Steps

(* Passing a stage keeps every call in step. *)
LEMMA StagesStayInStep ==
  ASSUME HeapOK, FramesOK, ShapesOK, SortedAll, Plain, InStep, NotesMeant, Settled,
         SkipFlagged \/ ApplyAggregation \/ ApplyFunction \/ ApplyFilter \/ ApplyBareOperator
  PROVE  InStep' /\ NotesMeant'
<1>1. AtStage
  BY StagesPass
<1>2. PICK text, logPhase : Passed(text, logPhase)
  BY StagesPass
<1>3. text \in SUBSET Node /\ logPhase \in BOOLEAN
  BY <1>2 DEF Passed
<1>4. InStep'
  BY <1>1, <1>2, <1>3, PassingStaysInStep DEF Passed, Settled
<1>5. NotesMeant'
  <2>1. \A n \in notes' : Pinned(n) \/ OtherAxis(n) \/ Reworded(n)
    BY <1>2 DEF NotesMeant, Passed
  <2>2. \A n : (OtherAxis(n) => OtherAxis(n)') /\ (Reworded(n) => Reworded(n)')
    BY DEF Settled, OtherAxis, Reworded, StageNode
  <2> QED BY <2>1, <2>2 DEF NotesMeant, Pinned
<1> QED BY <1>4, <1>5

(* A call begins in step, and notes only an instant. *)
LEMMA CallsBeginInStep ==
  ASSUME HeapOK, NEW p \in DOMAIN query, Passable(p)
  PROVE  /\ InPhase(Frame(p)) /\ ~Ranged(Frame(p)) /\ \A n \in EntryNotes(p) : Pinned(n)
<1>1. Frame(p).q = p /\ Frame(p).at = 1 /\ (Frame(p).logPhase <=> Sourced(p))
  BY DEF Frame, Sourced
<1>2. DOMAIN Pipeline(p) \subseteq Nat \ {0}
  BY PipelineType
<1>3. ~RangedBy(p, 1)
  BY <1>2 DEF RangedBy
<1>4. ~IsSubquery(p)
  BY DEF Passable, IsSubquery
<1>5. \A n \in EntryNotes(p) : Pinned(n)
  BY <1>4 DEF Passable, EntryNotes, Pinned
<1> QED BY <1>1, <1>3, <1>5 DEF InPhase, Ranged

(* Calls that are where they were are as much in step as they were. *)
LEMMA InStepStays ==
  ASSUME Settled, offsetWritten => offsetWritten', NEW f, NEW g, SamePlace(f, g),
         InPhase(f), Reached(f)
  PROVE  InPhase(g)' /\ Reached(g)'
<1>1. PICK q, i : q = f.q /\ i = f.at
  OBVIOUS
<1>2. g.q = q /\ g.at = i /\ g.logPhase = f.logPhase
  BY <1>1 DEF SamePlace
<1>3. RangedBy(q, i)' <=> RangedBy(q, i)
  BY DEF Settled, RangedBy, ProducesRange, Pipeline, def
<1>4. Sourced(q)' <=> Sourced(q)
  BY DEF Settled, Sourced
<1>5. Ranged(f) <=> RangedBy(q, i)
  BY <1>1 DEF Ranged
<1>6. Ranged(g)' <=> RangedBy(q, i)'
  BY <1>2 DEF Ranged
<1>7. InPhase(g)'
  <2>1. f.logPhase <=> Sourced(q) /\ ~RangedBy(q, i)
    BY <1>1, <1>5 DEF InPhase
  <2> QED BY <1>2, <1>3, <1>4, <1>6, <2>1 DEF InPhase
<1>8. Reached(g)'
  <2>1. query[q].offset > 0 /\ RangedBy(q, i) => offsetWritten
    BY <1>1, <1>5 DEF Reached
  <2>2. query' = query
    BY DEF Settled
  <2> QED BY <1>2, <1>3, <1>6, <2>1, <2>2 DEF Reached
<1> QED BY <1>7, <1>8

(* A step that notes only pinned times keeps what notes may say. *)
LEMMA NotesStay ==
  ASSUME Settled, NotesMeant, \A n \in notes' : n \in notes \/ Pinned(n)
  PROVE  NotesMeant'
<1>1. \A n : (OtherAxis(n) => OtherAxis(n)') /\ (Reworded(n) => Reworded(n)')
  BY DEF Settled, OtherAxis, Reworded, StageNode
<1> QED BY <1>1 DEF NotesMeant, Pinned

(* Nothing of a finished query is dropped. *)
LEMMA NothingDropped ==
  ASSUME HeapOK, FramesOK, Plain, InStep, frames # << >>, ~AtStage
  PROVE  Dropped(Frame1.q) = {}
<1>1. Depth \in DOMAIN frames /\ Frame1 = frames[Depth]
  BY OuterFrames
<1>2. Frame1.q \in DOMAIN query /\ Reached(Frame1) /\ Frame1.at \in Nat
  BY <1>1, FramesSplit DEF InStep, Placed, FrameRecord
<1>3. Passable(Frame1.q)
  BY <1>2 DEF Plain
<1>4. DOMAIN Pipeline(Frame1.q) = 1..Len(Pipeline(Frame1.q)) /\ Len(Pipeline(Frame1.q)) \in Nat
  BY <1>2, PipelineType
<1>5. \A i \in DOMAIN Pipeline(Frame1.q) : i < Frame1.at
  BY <1>2, <1>4 DEF AtStage
<1>6. query[Frame1.q].offset > 0 => offsetWritten
  BY <1>2, <1>3, <1>5 DEF Passable, Reached, Ranged, RangedBy
<1> QED BY <1>6 DEF Dropped

(* Beginning on the operands of an operator keeps every call in step. *)
LEMMA OperatorStaysInStep ==
  ASSUME HeapOK, FramesOK, Plain, InStep, NotesMeant, Settled, ApplyOperator
  PROVE  InStep' /\ NotesMeant'
<1>1. AtStage /\ UNCHANGED offsetWritten
  BY OperatorCalls
<1>2. PICK f, p : /\ p \in DOMAIN query /\ Calls(f, Frame(p)) /\ SamePlace(Frame1, f)
                  /\ notes' = notes \cup EntryNotes(p)
  BY OperatorCalls
<1>3. frames # << >>
  BY <1>1, HereType
<1>4. Depth \in Nat \ {0} /\ DOMAIN frames = 1..Depth /\ Frame1 = frames[Depth]
  BY <1>3, OuterFrames
<1>5. PICK c, g : c = Frame1 /\ g = Frame(p)
  OBVIOUS
<1>6. InPhase(g) /\ ~Ranged(g) /\ \A n \in EntryNotes(p) : Pinned(n)
  BY <1>2, <1>5, CallsBeginInStep DEF Plain
<1>7. InPhase(g)' /\ Reached(g)'
  BY <1>1, <1>6, InStepStays DEF SamePlace, Reached
<1>8. InPhase(f)' /\ Reached(f)'
  <2>1. InPhase(c) /\ Reached(c)
    BY <1>4, <1>5 DEF InStep
  <2> QED BY <1>1, <1>2, <1>5, <2>1, InStepStays
<1>9. ASSUME NEW k \in DOMAIN frames' PROVE \E h : h = frames'[k] /\ InPhase(h)' /\ Reached(h)'
  <2>1. CASE k = Depth
    BY <1>2, <1>8, <2>1 DEF Calls
  <2>2. CASE k = Depth + 1
    BY <1>2, <1>5, <1>7, <2>2 DEF Calls
  <2>3. CASE k # Depth /\ k # Depth + 1
    <3>1. k \in 1..(Depth - 1) /\ k \in DOMAIN frames /\ frames'[k] = frames[k]
      BY <1>2, <1>4, <1>9, <2>3 DEF Calls
    <3>2. PICK h : h = frames[k]
      OBVIOUS
    <3>3. InPhase(h) /\ Reached(h) /\ SamePlace(h, h)
      BY <3>1, <3>2 DEF InStep, SamePlace
    <3> QED BY <1>1, <3>1, <3>2, <3>3, InStepStays
  <2> QED BY <2>1, <2>2, <2>3
<1>10. InStep'
  BY <1>9 DEF InStep
<1> QED BY <1>2, <1>6, <1>10, NotesStay

(* Coming back from an operand keeps every call in step. *)
LEMMA ReturnStaysInStep ==
  ASSUME HeapOK, FramesOK, ShapesOK, Plain, InStep, NotesMeant, Awaiting, Settled, ReturnOperand
  PROVE  InStep' /\ NotesMeant'
<1>0. PICK c : c = frames[Depth - 1]
  OBVIOUS
<1>1. Depth > 1 /\ Depth \in Nat /\ ~AtStage /\ UNCHANGED offsetWritten
  BY <1>0, OperandReturns
<1>2. frames # << >> /\ DOMAIN frames = 1..Depth /\ Depth - 1 \in DOMAIN frames /\ Depth - 1 < Depth
  BY <1>1, OuterFrames DEF Depth
<1>3. Dropped(Frame1.q) = {}
  BY <1>1, <1>2, NothingDropped
<1>4. InPhase(c) /\ Reached(c) /\ HasOperands(stage[Pipeline(c.q)[c.at]])
  BY <1>0, <1>2 DEF InStep, Awaiting, Waits
<1>5. Placed(c, TRUE) /\ c \in FrameRecord
  <2>1. frames \in Seq(FrameRecord) /\ Placed(frames[Depth - 1], Depth - 1 < Len(frames))
    BY <1>2 DEF FramesOK
  <2>2. Depth - 1 < Len(frames)
    BY <1>2 DEF Depth
  <2> QED BY <1>0, <1>2, <2>1, <2>2 DEF Placed
<1>6. ASSUME NEW k \in 1..(Depth - 2), frames'[k] = frames[k]
      PROVE  \E h : h = frames'[k] /\ InPhase(h)' /\ Reached(h)'
  <2>1. k \in DOMAIN frames
    BY <1>1, <1>2
  <2>2. PICK h : h = frames[k]
    OBVIOUS
  <2>3. InPhase(h) /\ Reached(h) /\ SamePlace(h, h)
    BY <2>1, <2>2 DEF InStep, SamePlace
  <2> QED BY <1>1, <1>6, <2>2, <2>3, InStepStays
<1>7. ASSUME NEW f, NEW p \in DOMAIN query, Turns(f, Frame(p)), SamePlace(c, f),
             notes' = notes \cup Dropped(Frame1.q) \cup EntryNotes(p)
      PROVE  InStep' /\ NotesMeant'
  <2>1. PICK g : g = Frame(p)
    OBVIOUS
  <2>2. InPhase(g) /\ ~Ranged(g) /\ \A n \in EntryNotes(p) : Pinned(n)
    BY <2>1, CallsBeginInStep DEF Plain
  <2>3. InPhase(g)' /\ Reached(g)'
    BY <1>1, <2>2, InStepStays DEF SamePlace, Reached
  <2>4. InPhase(f)' /\ Reached(f)'
    BY <1>1, <1>4, <1>7, InStepStays
  <2>5. ASSUME NEW k \in DOMAIN frames' PROVE \E h : h = frames'[k] /\ InPhase(h)' /\ Reached(h)'
    <3>1. CASE k = Depth
      BY <1>7, <2>1, <2>3, <3>1 DEF Turns
    <3>2. CASE k = Depth - 1
      BY <1>7, <2>4, <3>2 DEF Turns
    <3>3. CASE k # Depth /\ k # Depth - 1
      <4>1. k \in 1..(Depth - 2) /\ frames'[k] = frames[k]
        BY <1>1, <1>7, <2>5, <3>3 DEF Turns
      <4> QED BY <1>6, <4>1
    <3> QED BY <3>1, <3>2, <3>3
  <2> QED BY <1>3, <1>7, <2>2, <2>5, NotesStay DEF InStep
<1>8. ASSUME NEW g, Returns(g), g.q = c.q, g.at = c.at + 1, g.logPhase = FALSE,
             notes' = notes \cup Dropped(Frame1.q)
      PROVE  InStep' /\ NotesMeant'
  <2>1. /\ c.q \in DOMAIN query /\ c.at \in DOMAIN Pipeline(c.q) /\ c.at \in Nat
        /\ DOMAIN Pipeline(c.q) \subseteq Nat
    <3>1. c.q \in DOMAIN query /\ c.at >= 1 /\ c.at <= Len(Pipeline(c.q)) /\ c.at \in Nat
      BY <1>5 DEF Placed, FrameRecord
    <3>2. DOMAIN Pipeline(c.q) = 1..Len(Pipeline(c.q)) /\ Len(Pipeline(c.q)) \in Nat
      BY <3>1, PipelineType
    <3> QED BY <3>1, <3>2
  <2>2. PICK s : s = Pipeline(c.q)[c.at]
    OBVIOUS
  <2>3. ~Sourced(c.q)
    BY <1>4, <2>1, <2>2 DEF ShapesOK, OriginsFirst, Origin, InPipeline
  <2>4. ~ProducesRange(s)
    BY <1>4, <2>2 DEF ProducesRange, HasOperands, IsOperator
  <2>5. Ranged(g) <=> Ranged(c)
    BY <1>8, <2>1, <2>2, <2>4 DEF Ranged, RangedBy
  <2>6. InPhase(g) /\ Reached(g) /\ SamePlace(g, g)
    BY <1>4, <1>8, <2>3, <2>5 DEF InPhase, Reached, SamePlace
  <2>7. InPhase(g)' /\ Reached(g)'
    BY <1>1, <2>6, InStepStays
  <2>8. ASSUME NEW k \in DOMAIN frames' PROVE \E h : h = frames'[k] /\ InPhase(h)' /\ Reached(h)'
    <3>1. CASE k = Depth - 1
      BY <1>8, <2>7, <3>1 DEF Returns
    <3>2. CASE k # Depth - 1
      <4>1. k \in 1..(Depth - 2) /\ frames'[k] = frames[k]
        BY <1>1, <1>8, <2>8, <3>2 DEF Returns
      <4> QED BY <1>6, <4>1
    <3> QED BY <3>1, <3>2
  <2> QED BY <1>3, <1>8, <2>8, NotesStay DEF InStep
<1> QED BY <1>0, <1>7, <1>8, OperandReturns

(* What the emitter does is one of these steps, or its last. *)
LEMMA EmitterIsSteps ==
  ASSUME HeapOK, FramesOK, EmitterNext
  PROVE  frames # << >> /\ (frames' = << >> \/ Steps)
<1>1. ASSUME SkipFlagged \/ ApplyAggregation \/ ApplyFunction \/ ApplyFilter \/ ApplyBareOperator
      PROVE  frames # << >> /\ Steps
  <2>1. AtStage
    BY <1>1 DEF SkipFlagged, ApplyAggregation, ApplyFunction, ApplyFilter, ApplyBareOperator, Applicable
  <2>2. frames # << >> /\ StageNode(Here) \in Node /\ <<"Window", Frame1.q>> \in Node
    BY <2>1, HereType
  <2>3. Frame1.text \in SUBSET Node /\ Frame1.logPhase \in BOOLEAN
    BY <2>2, FramesSplit DEF FrameRecord
  <2>4. \E text \in SUBSET Node, logPhase \in BOOLEAN : Render(text, logPhase)
    <3>1. PICK own, window : /\ own = Frame1.text \cup {StageNode(Here)}
                            /\ window = {n \in {<<"Window", Frame1.q>>} : query[Frame1.q].offset > 0}
      OBVIOUS
    <3>2. own \in SUBSET Node /\ own \cup window \in SUBSET Node /\ {StageNode(Here)} \in SUBSET Node
      BY <2>2, <2>3, <3>1
    <3>3. \/ \E logPhase \in BOOLEAN : Append1(logPhase)
          \/ Drop \/ CloseRange \/ Render({StageNode(Here)}, FALSE)
          \/ Render(Frame1.text, Frame1.logPhase) \/ WriteComparison
      BY <1>1, <2>3 DEF SkipFlagged, ApplyAggregation, ApplyFunction, ApplyFilter, ApplyBareOperator
    <3>4. \/ \E logPhase \in BOOLEAN : Render(own, logPhase)
          \/ Render(Frame1.text, Frame1.logPhase) \/ Render(own \cup window, FALSE)
          \/ Render({StageNode(Here)}, FALSE)
      BY <3>1, <3>3 DEF Append1, Drop, CloseRange, WriteComparison
    <3> QED BY <2>3, <3>2, <3>4
  <2> QED BY <2>2, <2>4, RenderBecomes DEF Steps
<1>2. ASSUME ApplyOperator PROVE frames # << >> /\ Steps
  <2>1. AtStage /\ HasOperands(stage[Here])
        /\ \E f, p : Calls(f, Frame(p)) /\ SamePlace(Frame1, f)
    BY <1>2, OperatorCalls
  <2>2. Waits(Frame1)
    BY <2>1 DEF Waits, Here
  <2> QED BY <2>1, <2>2, HereType DEF Steps
<1>3. ASSUME ReturnOperand PROVE frames # << >> /\ Steps
  <2>1. PICK c : c = frames[Depth - 1]
    OBVIOUS
  <2>2. /\ Depth > 1
        /\ \/ \E f, p : Turns(f, Frame(p)) /\ SamePlace(c, f)
           \/ \E g : Returns(g)
    BY <1>3, <2>1, OperandReturns
  <2>3. frames # << >>
    BY <2>2 DEF Depth, FramesOK
  <2> QED BY <2>1, <2>2, <2>3 DEF Steps
<1>4. ASSUME FinishEmission PROVE frames # << >> /\ frames' = << >>
  BY <1>4 DEF FinishEmission, FramesOK
<1> QED BY <1>1, <1>2, <1>3, <1>4 DEF EmitterNext

(* Whatever the emitter does keeps every call in step. *)
LEMMA EmitterStaysInStep ==
  ASSUME HeapOK, FramesOK, ShapesOK, SortedAll, Plain, InStep, NotesMeant, Awaiting, Settled,
         EmitterNext
  PROVE  InStep' /\ NotesMeant'
<1>1. CASE FinishEmission
  <2>1. Dropped(Frame1.q) = {}
    <3>1. frames # << >> /\ ~AtStage
      BY <1>1 DEF FinishEmission, FramesOK
    <3> QED BY <3>1, NothingDropped
  <2>2. notes' = notes /\ frames' = << >>
    BY <1>1, <2>1 DEF FinishEmission, Dropped
  <2>3. InStep'
    BY <2>2 DEF InStep
  <2> QED BY <2>2, <2>3, NotesStay
<1> QED BY <1>1, StagesStayInStep, OperatorStaysInStep, ReturnStaysInStep DEF EmitterNext

-----------------------------------------------------------------------------
(* The report counts what the tree carries. *)
Counted == Done => report.unsupported = Cardinality(CarriedBy(UNSUPPORTED))

RefusalOK ==
    /\ Unwritten /\ Awaiting /\ Counted
    /\ (PastValidation /\ Clean) => InStep /\ NotesMeant

(* Who was refused depends on the expression and its flags alone. *)
LEMMA CleanStays ==
  ASSUME UNCHANGED <<query, stage, flag>>
  PROVE  CarriedBy(UNSUPPORTED)' = CarriedBy(UNSUPPORTED)
<1>1. Present' = Present
  BY DEF Present, ChildNodes, Children, QueryChildren, StageChildren, Pipeline, HasWindow
<1> QED BY <1>1 DEF CarriedBy

(* A report without refusals is of an expression without refusals. *)
LEMMA CountsNone ==
  ASSUME HeapOK, Counted, Complete
  PROVE  Clean
<1>1. IsFiniteSet(CarriedBy(UNSUPPORTED))
  BY NodesFinite, PresentNodes, FS_Subset DEF CarriedBy
<1> QED BY <1>1, FS_EmptySet DEF Counted, Complete, Clean

(* What a translation needs, to be known to be refused by its flags alone. *)
Refusing ==
    /\ Typed /\ FlagIsWorstVerdict /\ Rooted /\ SortOK /\ ShapesOK /\ FittingOK /\ JudgedOK

(* The refusals and the emitter agree in every step of a translation. *)
LEMMA RefusalSteps ==
  Refusing /\ RefusalOK /\ [Next]_vars => RefusalOK'
<1> SUFFICES ASSUME Refusing, RefusalOK, [Next]_vars PROVE RefusalOK'
  OBVIOUS
<1> USE DEF Refusing
<1>1. CASE Resolve \/ Fail
  <2>1. /\ pc = "resolving" /\ pc' \in {"resolving", "failed"}
        /\ UNCHANGED <<frames, offsetWritten, notes, written, report>>
    BY <1>1 DEF Resolve, Fail, emitterVars
  <2>2. frames = << >>
    BY <2>1 DEF Typed, PhaseOK
  <2>3. Awaiting'
    BY <2>1, <2>2 DEF Awaiting
  <2> QED BY <2>1, <2>3 DEF RefusalOK, Unwritten, Counted, Done, PastValidation
<1>2. CASE BeginValidation \/ Validate
  <2>1. /\ pc \in {"resolving", "validating"} /\ pc' = "validating"
        /\ UNCHANGED <<frames, offsetWritten, notes, written, report>>
    BY <1>2 DEF BeginValidation, Validate, emitterVars
  <2>2. frames = << >>
    BY <2>1 DEF Typed, PhaseOK
  <2>3. Awaiting'
    BY <2>1, <2>2 DEF Awaiting
  <2> QED BY <2>1, <2>3 DEF RefusalOK, Unwritten, Counted, Done, PastValidation
<1>3. CASE BeginEmission
  <2>1. /\ pc = "validating" /\ pc' = "emitting" /\ Validated /\ frames' = <<Frame(Root)>>
        /\ notes' = notes \cup EntryNotes(Root) /\ UNCHANGED <<offsetWritten, written, report>>
        /\ UNCHANGED <<query, stage, stack, flag, reason, issues, verdicts>>
    BY <1>3 DEF BeginEmission, StartEmission, resolverVars, heap, validatorVars
  <2>2. Root \in DOMAIN query
    <3>1. 1 \in DOMAIN stack
      BY <2>1 DEF Typed, PhaseOK, StackOK
    <3> QED BY <3>1 DEF Typed, StackOK, Root
  <2>3. Awaiting'
    BY <2>1 DEF Awaiting, Depth
  <2>4. ASSUME Clean' PROVE InStep' /\ NotesMeant'
    <3>1. Clean
      BY <2>1, <2>4, CleanStays DEF Clean
    <3>2. Passable(Root)
      <4>1. JudgedAll
        BY <2>1, WalkHasHeard DEF ShapesOK, JudgedAll
      <4> QED BY <2>2, <3>1, <4>1, CleanIsPlain DEF Typed, Plain
    <3>3. PICK g, root : g = Frame(Root) /\ root = Root
      OBVIOUS
    <3>4. InPhase(g) /\ ~Ranged(g) /\ \A n \in EntryNotes(Root) : Pinned(n)
      BY <2>2, <3>2, <3>3, CallsBeginInStep DEF Typed
    <3>5. InPhase(g)' /\ Reached(g)'
      BY <2>1, <3>4, InStepStays DEF SamePlace, Reached, Settled
    <3>6. InStep'
      BY <2>1, <3>3, <3>5 DEF InStep
    <3>7. NotesMeant'
      BY <2>1, <3>4 DEF NotesMeant, RefusalOK, Unwritten, Pinned
    <3> QED BY <3>6, <3>7
  <2> QED BY <2>1, <2>3, <2>4 DEF RefusalOK, Unwritten, Counted, Done
<1>4. CASE Emit
  <2>1. /\ pc = "emitting" /\ pc' \in {"emitting", "reporting"} /\ EmitterNext /\ report' = report
        /\ UNCHANGED <<query, stage, flag, reason>>
    BY <1>4 DEF Emit, resolverVars, heap, validatorVars
  <2>2. frames # << >> /\ (frames' = << >> \/ Steps)
    BY <2>1, EmitterIsSteps DEF Typed
  <2>3. Awaiting'
    <3>1. CASE frames' = << >>
      BY <3>1 DEF Awaiting
    <3>2. CASE Steps
      BY <2>1, <2>2, <3>2, AwaitingStays DEF Typed, Settled, RefusalOK
    <3> QED BY <2>2, <3>1, <3>2
  <2>4. ASSUME Clean' PROVE InStep' /\ NotesMeant'
    <3>1. Clean
      BY <2>1, <2>4, CleanStays DEF Clean
    <3>2. Plain
      BY <2>1, <3>1, CleanIsPlain DEF Typed, JudgedOK, JudgedAll, PastValidation
    <3>3. SortedAll
      BY <2>1 DEF SortOK, PastValidation, SortedAll
    <3> QED BY <2>1, <3>1, <3>2, <3>3, EmitterStaysInStep DEF Typed, Settled, RefusalOK, PastValidation
  <2> QED BY <2>1, <2>3, <2>4 DEF RefusalOK, Unwritten, Counted, Done
<1>5. CASE GenerateReport \/ Returned \/ UNCHANGED vars
  <2>1. /\ UNCHANGED <<query, stage, flag, reason, frames, offsetWritten, notes, written>>
        /\ \/ pc = "reporting" /\ pc' = "done" /\ GenerateWithIssues
           \/ UNCHANGED <<pc, report>>
    BY <1>5 DEF GenerateReport, Returned, vars, resolverVars, heap, validatorVars, emitterVars
  <2>2. CarriedBy(UNSUPPORTED)' = CarriedBy(UNSUPPORTED)
    BY <2>1, CleanStays
  <2>3. Awaiting'
    BY <2>1 DEF RefusalOK, Awaiting, Waits, Depth, Pipeline, HasOperands, IsOperator
  <2>4. Counted'
    <3>1. CASE pc = "reporting" /\ pc' = "done" /\ GenerateWithIssues
      BY <2>2, <3>1 DEF GenerateWithIssues, Counted
    <3>2. CASE UNCHANGED <<pc, report>>
      BY <2>2, <3>2 DEF RefusalOK, Counted, Done
    <3> QED BY <2>1, <3>1, <3>2
  <2>5. ASSUME PastValidation', Clean' PROVE InStep' /\ NotesMeant'
    <3>1. PastValidation /\ Clean
      BY <2>1, <2>2, <2>5 DEF PastValidation, Clean
    <3>2. InStep /\ NotesMeant
      BY <3>1 DEF RefusalOK
    <3>3. InStep'
      <4>1. ASSUME NEW k \in DOMAIN frames' PROVE \E h : h = frames'[k] /\ InPhase(h)' /\ Reached(h)'
        <5>1. PICK h : h = frames[k]
          OBVIOUS
        <5>2. InPhase(h) /\ Reached(h) /\ SamePlace(h, h)
          BY <2>1, <3>2, <4>1, <5>1 DEF InStep, SamePlace
        <5>3. UNCHANGED <<query, stage, flag, reason>> /\ offsetWritten' = offsetWritten
          BY <2>1
        <5> QED BY <2>1, <5>1, <5>2, <5>3, InStepStays DEF Settled
      <4> QED BY <4>1 DEF InStep
    <3>4. NotesMeant'
      BY <2>1, <3>2 DEF NotesMeant, OtherAxis, Pinned, Reworded, StageNode
    <3> QED BY <3>3, <3>4
  <2>6. Unwritten'
    BY <2>1 DEF RefusalOK, Unwritten
  <2> QED BY <2>3, <2>4, <2>5, <2>6 DEF RefusalOK
<1> QED BY <1>1, <1>2, <1>3, <1>4, <1>5 DEF Next, Proceed

Refused == Refusing /\ RefusalOK

(* They agree throughout. *)
LEMMA RefusedThroughout ==
  Spec => []Refused
<1>1. Init => RefusalOK
  BY DEF Init, EmitterInit, RefusalOK, Unwritten, Awaiting, Counted, Done, PastValidation
<1>2. Init => FittingOK /\ JudgedOK
  BY DEF Init, ValidatorInit, FittingOK, Known, JudgedOK, PastValidation
<1>3. FittingOK /\ JudgedOK /\ RefusalOK /\ Judged /\ OrderInv /\ Shaping /\ [Next]_vars
        => FittingOK' /\ JudgedOK' /\ RefusalOK'
  BY FittingSteps, JudgedSteps, RefusalSteps DEF Judged, OrderInv, Shaping, Refusing, ShapesOK
<1>4. FittingOK /\ JudgedOK /\ RefusalOK /\ Judged /\ OrderInv /\ Shaping => Refused
  BY DEF Judged, OrderInv, Shaping, Refusing, Refused
<1> QED BY <1>1, <1>2, <1>3, <1>4, JudgedThroughout, OrderThroughout, ShapesThroughout, PTL DEF Spec

(* When the report says that everything could be expressed, the emitter left   *)
(* nothing out for reasons of its own but an instant or an aggregation of the *)
(* other axis, and a bool it left out is reported as partial.                 *)
THEOREM EmitterAgreesWithValidator ==
  Spec => []RefusalsAreUnsupported
<1>1. Refused => RefusalsAreUnsupported
  <2> SUFFICES ASSUME Refused, Complete PROVE \A n \in notes : Pinned(n) \/ OtherAxis(n) \/ Reworded(n)
    BY DEF RefusalsAreUnsupported
  <2>1. Clean
    BY CountsNone DEF Refused, Refusing, Typed, RefusalOK
  <2> QED BY <2>1 DEF Refused, RefusalOK, Complete, Done, PastValidation, NotesMeant
<1> QED BY <1>1, RefusedThroughout, PTL

=============================================================================
