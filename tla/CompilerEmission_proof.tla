----------------------- MODULE CompilerEmission_proof -----------------------
(***************************************************************************)
(* Proofs about what comes out of a translation: from LogQL to LogQL        *)
(* everything, and from any language every stage and every offset that no   *)
(* note, no reordering and no lost operand accounts for.                    *)
(***************************************************************************)
EXTENDS CompilerRefusals_proof

-----------------------------------------------------------------------------
(* Translation within one language. *)

(* What the target has a spelling for. *)
Expressible(st) ==
    \/ st.type = "Filter"
    \/ st.type = "Function" /\ st.what \in def.functions /\ st.what # "literal"
    \/ st.type = "Aggregation" /\ FunctionForAggregation(def, st.what, st.scope)
Groups(st) == st.type = "Aggregation" /\ st.scope = "GROUP"

Expressed == \A s \in DOMAIN stage : Expressible(stage[s])
Unpinned == \A q \in DOMAIN query : query[q].subquery = 0 /\ query[q].pinned = 0

(* What groups samples was written after what makes them. *)
Fed ==
    \A q \in DOMAIN query : \A s \in InPipeline(q) :
       Groups(stage[s]) => \E t \in Producers(q) : t < s

(* An offset has its range, or is about to have it. *)
OffsetsRanged ==
    \A q \in DOMAIN query : query[q].offset > 0 =>
       \/ Producers(q) # {}
       \/ \E i \in DOMAIN stack : stack[i].q = q /\ stack[i].is \in RangeTypes
OperandsFed ==
    \A i \in DOMAIN stack :
       /\ stack[i].is # "literal"
       /\ stack[i].is \in MetricTypes => Producers(stack[i].q) # {}

SamePipelines == Expressed /\ Unpinned /\ Fed /\ OffsetsRanged /\ OperandsFed

(* What one construct of a plain pipeline adds. *)
Follows(q, added, type) ==
    /\ Adds(q, added) /\ Settles(q, type) /\ type # "literal"
    /\ \/ q \notin DOMAIN query /\ Last1 = Len(stack) + 1
       \/ q \in DOMAIN query /\ Last1 = Len(stack)
    /\ \A s \in added :
          /\ Expressible(stage'[s])
          /\ Groups(stage'[s]) => q \in DOMAIN query /\ Producers(q) # {}
    /\ query'[q].subquery = 0 /\ query'[q].pinned = 0
    /\ query'[q].offset > 0 => type \in RangeTypes \/ Producers(q)' # {}
    /\ type \in MetricTypes => Producers(q)' # {}

(* A query keeps the producers it has. *)
LEMMA ProducersStay ==
  ASSUME HeapOK, NEW q \in DOMAIN query, NEW added, Adds(q, added)
  PROVE  Producers(q) \subseteq Producers(q)' /\ Producers(q) \subseteq DOMAIN stage
<1>1. ASSUME NEW s \in Producers(q) PROVE s \in DOMAIN stage /\ s \in Producers(q)'
  <2>1. s \in InPipeline(q) /\ Yields(stage[s])
    BY <1>1 DEF Producers
  <2>2. s \in DOMAIN stage
    BY <2>1, PipelineType DEF InPipeline
  <2>3. s \in InPipeline(q)' /\ stage'[s] = stage[s]
    BY <2>1, <2>2 DEF Adds
  <2>4. PICK st : st = stage[s]
    OBVIOUS
  <2>5. Yields(st)'
    BY <2>1, <2>4, StagesKeepKind
  <2> QED BY <2>2, <2>3, <2>4, <2>5 DEF Producers
<1> QED BY <1>1

(* Adding to a query what its operand allows keeps the pipelines expressible. *)
LEMMA FollowsKeeps ==
  ASSUME HeapOK, StackOK, OperandsAscend, SamePipelines,
         NEW q \in Nat, NEW added, NEW type, Follows(q, added, type), StackOK'
  PROVE  SamePipelines'
<1>1. /\ Adds(q, added) /\ Settles(q, type) /\ type # "literal" /\ Len(stack) \in Nat
      /\ DOMAIN stack = 1..Len(stack)
  BY DEF Follows, StackOK
<1>2. /\ DOMAIN query' = DOMAIN query \cup {q} /\ DOMAIN stage' = DOMAIN stage \cup added
      /\ \A s \in DOMAIN stage : stage'[s] = stage[s] /\ \A t \in added : s < t
      /\ \A p \in DOMAIN query : p # q => query'[p] = query[p]
  BY <1>1 DEF Adds
<1>3. \A st : (Expressible(st)' <=> Expressible(st)) /\ (Groups(st)' <=> Groups(st))
  BY DEF Expressible, Groups, def
<1>4. Expressed'
  <2>1. ASSUME NEW s \in DOMAIN stage' PROVE \E st : st = stage'[s] /\ Expressible(st)
    BY <1>2 DEF Follows, SamePipelines, Expressed
  <2> QED BY <1>3, <2>1 DEF Expressed
<1>5. Unpinned'
  BY <1>2 DEF Follows, SamePipelines, Unpinned
<1>6. ASSUME NEW p \in DOMAIN query, p # q
      PROVE  InPipeline(p)' = InPipeline(p) /\ Producers(p)' = Producers(p)
  BY <1>1, <1>6, OthersKeepShape
<1>7. q \in DOMAIN query => Producers(q) \subseteq Producers(q)' /\ Producers(q) \subseteq DOMAIN stage
  BY <1>1, ProducersStay
<1>8. Fed'
  <2>1. ASSUME NEW p \in DOMAIN query', NEW s \in InPipeline(p)',
               NEW st, st = stage'[s], Groups(st)
        PROVE  \E t \in Producers(p)' : t < s
    <3>1. CASE p # q
      <4>1. p \in DOMAIN query /\ s \in InPipeline(p) /\ s \in DOMAIN stage
        <5>1. p \in DOMAIN query /\ s \in InPipeline(p)
          BY <1>2, <1>6, <2>1, <3>1
        <5> QED BY <5>1, PipelineType DEF InPipeline
      <4>2. st = stage[s]
        BY <1>2, <2>1, <4>1
      <4> QED BY <1>6, <2>1, <3>1, <4>1, <4>2 DEF SamePipelines, Fed
    <3>2. CASE p = q /\ s \in added
      <4>1. q \in DOMAIN query /\ Producers(q) # {}
        BY <2>1, <3>2 DEF Follows
      <4>2. PICK t \in Producers(q) : t \in DOMAIN stage
        BY <1>7, <4>1
      <4>3. t \in Producers(q)' /\ t < s
        BY <1>2, <1>7, <3>2, <4>1, <4>2
      <4> QED BY <3>2, <4>3
    <3>3. CASE p = q /\ s \notin added
      <4>1. q \in DOMAIN query /\ s \in InPipeline(q) /\ s \in DOMAIN stage /\ stage'[s] = stage[s]
        BY <1>1, <2>1, <3>3, HomeGrows
      <4>2. PICK t \in Producers(q) : t < s
        BY <2>1, <4>1 DEF SamePipelines, Fed
      <4> QED BY <1>7, <3>3, <4>1, <4>2
    <3> QED BY <3>1, <3>2, <3>3
  <2> QED BY <1>3, <2>1 DEF Fed
<1>9. /\ stack'[Last1].q = q /\ stack'[Last1].is = type /\ Last1 \in DOMAIN stack'
      /\ Last1 \in Nat /\ DOMAIN stack' = 1..Last1 /\ DOMAIN stack \subseteq DOMAIN stack'
      /\ Last1 \in DOMAIN stack => stack[Last1].q = q
  <2>1. /\ stack'[Last1].q = q /\ stack'[Last1].is = type /\ Last1 \in 1..(Len(stack) + 1)
        /\ q = New \/ (Last1 \in DOMAIN stack /\ q = stack[Last1].q)
    BY <1>1 DEF Settles
  <2>2. Last1 = Len(stack) \/ Last1 = Len(stack) + 1
    BY DEF Follows
  <2>3. New \notin DOMAIN query
    BY HeapDomains DEF New
  <2>4. Last1 \in DOMAIN stack => stack[Last1].q = q
    BY <1>1, <2>1, <2>3 DEF Follows
  <2>5. DOMAIN stack' = 1..Last1
    <3>1. stack' \in Seq(Pending)
      BY DEF StackOK
    <3> QED BY <3>1 DEF Last1
  <2>6. Last1 \in Nat /\ Last1 \in 1..Last1 /\ 1..Len(stack) \subseteq 1..Last1
    <3>1. stack \in Seq(Pending)
      BY DEF StackOK
    <3>2. PICK n \in Nat : n = Len(stack)
      BY <3>1
    <3>3. (Last1 = n \/ Last1 = n + 1) /\ Last1 \in 1..(n + 1)
      BY <2>1, <2>2, <3>2
    <3> QED BY <3>2, <3>3
  <2> QED BY <1>1, <2>1, <2>4, <2>5, <2>6
<1>10. ASSUME NEW i \in DOMAIN stack', i # Last1
       PROVE  /\ i \in DOMAIN stack /\ stack'[i] = stack[i]
              /\ stack[i].q \in DOMAIN query /\ stack[i].q # q
  <2>1. i \in 1..(Last1 - 1) /\ i \in DOMAIN stack /\ stack'[i] = stack[i] /\ i < Last1
    BY <1>1, <1>9, <1>10 DEF Settles
  <2>2. stack[i].q \in DOMAIN query /\ stack[i].q \in Nat
    BY <2>1, HeapDomains DEF StackOK
  <2>3. CASE q \notin DOMAIN query
    BY <2>1, <2>2, <2>3
  <2>4. CASE q \in DOMAIN query
    <3>1. Last1 \in DOMAIN stack /\ stack[Last1].q = q
      BY <1>1, <1>9, <2>4 DEF Follows
    <3>2. stack[i].q < stack[Last1].q
      BY <2>1, <3>1 DEF OperandsAscend
    <3> QED BY <2>1, <2>2, <3>1, <3>2
  <2> QED BY <2>3, <2>4
<1>11. ASSUME NEW p \in DOMAIN query', query'[p].offset > 0
       PROVE  \/ Producers(p)' # {}
              \/ \E i \in DOMAIN stack' : stack'[i].q = p /\ stack'[i].is \in RangeTypes
  <2>1. CASE p = q
    BY <1>9, <1>11, <2>1 DEF Follows
  <2>2. CASE p # q
    <3>1. p \in DOMAIN query /\ query'[p] = query[p] /\ Producers(p)' = Producers(p)
      BY <1>2, <1>6, <2>2
    <3>2. CASE \E i \in DOMAIN stack : stack[i].q = p /\ stack[i].is \in RangeTypes
      <4>1. PICK i \in DOMAIN stack : stack[i].q = p /\ stack[i].is \in RangeTypes
        BY <3>2
      <4>2. i \in DOMAIN stack' /\ i # Last1
        BY <1>9, <2>2, <4>1
      <4> QED BY <1>10, <4>1, <4>2
    <3> QED BY <1>11, <3>1, <3>2 DEF SamePipelines, OffsetsRanged
  <2> QED BY <2>1, <2>2
<1>12. ASSUME NEW i \in DOMAIN stack', NEW p, p = stack'[i].q
       PROVE  /\ stack'[i].is # "literal"
              /\ stack'[i].is \in MetricTypes => Producers(p)' # {}
  <2>1. CASE i = Last1
    BY <1>9, <1>12, <2>1 DEF Follows
  <2>2. CASE i # Last1
    <3>1. /\ i \in DOMAIN stack /\ stack'[i] = stack[i] /\ p = stack[i].q
          /\ p \in DOMAIN query /\ p # q
      BY <1>10, <1>12, <2>2
    <3>2. Producers(p)' = Producers(p)
      BY <1>6, <3>1
    <3> QED BY <3>1, <3>2 DEF SamePipelines, OperandsFed
  <2> QED BY <2>1, <2>2
<1>13. OffsetsRanged'
  BY <1>11 DEF OffsetsRanged
<1>14. OperandsFed'
  BY <1>12 DEF OperandsFed, MetricTypes
<1> QED BY <1>4, <1>5, <1>8, <1>13, <1>14 DEF SamePipelines

(* A plain pipeline has only constructs that follow one another. *)
LEMMA FoldFollows ==
  ASSUME Source = Target, NEW st, NEW was, NEW type, FoldFits(st, was, type)
  PROVE  Expressible(st) /\ (Groups(st) => was \in MetricTypes)
<1>1. Dialect[Source] = def /\ def.rangeFunctions \subseteq def.functions /\ LogStages \subseteq def.functions
      /\ "literal" \notin def.functions
  BY EmittedTarget DEF def, Dialect, Logql, LogStages, RangeFunctions, Parsers, LabelFormatters, LineFormatters
<1> QED BY <1>1 DEF FoldFits, LogFold, RangeFold, SampleFold, Expressible, Groups, FunctionForAggregation

(* Without numbers and operators, what the resolver adds its operand allows. *)
LEMMA PlainPlacesFollow ==
  ASSUME HeapOK, StackOK, OperandsAscend, SamePipelines, Source = Target,
         Constructs \cap Number = {}, Places
  PROVE  \E q \in Nat : \E added, type : Follows(q, added, type)
<1>1. PICK q \in Nat, s \in Nat, type \in OperandTypes : Settles(q, type) /\ Placing(q, s, type)
  BY DEF Places
<1>2. Selected(q, type) \/ Into(q, s, type) \/ Windowed(q, type)
  <2>1. ~Repeated(q, type)
    BY EmittedTarget DEF Repeated
  <2>2. ~Enclosed(q, type)
    <3>1. ASSUME stack # << >> PROVE Top.is # "literal"
      <4>1. Len(stack) \in DOMAIN stack
        BY <3>1, TopOfStack
      <4> QED BY <4>1 DEF SamePipelines, OperandsFed, Top
    <3> QED BY <3>1 DEF Enclosed
  <2> QED BY <1>1, <2>1, <2>2 DEF Placing, Begun, Matched
<1>3. LogTypes \cap RangeTypes = {} /\ MetricTypes \cap (LogTypes \cup RangeTypes) = {}
      /\ "literal" \notin LogTypes \cup RangeTypes \cup MetricTypes
      /\ "vector" \in MetricTypes /\ "log" \in LogTypes
  BY DEF LogTypes, RangeTypes, MetricTypes
<1>4. CASE Selected(q, type)
  <2>1. /\ q \notin DOMAIN query /\ Adds(q, {}) /\ Last1 = Len(stack) + 1 /\ type = "log"
        /\ query'[q].subquery = 0 /\ query'[q].offset = 0 /\ query'[q].pinned = 0
    BY <1>4, EmittedTarget DEF Selected
  <2>2. Follows(q, {}, type)
    BY <1>1, <1>3, <2>1 DEF Follows
  <2> QED BY <2>2
<1>5. ASSUME q \in DOMAIN query, stack # << >>, q = Top.q
      PROVE  /\ Last1 = Len(stack) /\ query[q].subquery = 0 /\ query[q].pinned = 0
             /\ (query[q].offset > 0 /\ Top.is \notin RangeTypes) => Producers(q) # {}
             /\ Top.is \in MetricTypes => Producers(q) # {}
  <2>1. Len(stack) \in DOMAIN stack /\ stack[Len(stack)].q = q /\ stack[Len(stack)].is = Top.is
    BY <1>5, TopOfStack DEF Top
  <2>2. ASSUME NEW i \in DOMAIN stack, stack[i].q = q PROVE i = Len(stack)
    <3>1. i \in Nat /\ i <= Len(stack) /\ Len(stack) \in Nat
      BY DEF StackOK
    <3>2. i < Len(stack) => stack[i].q < stack[Len(stack)].q
      BY <2>1 DEF OperandsAscend
    <3> QED BY <2>1, <2>2, <3>1, <3>2
  <2>3. New \notin DOMAIN query
    BY HeapDomains DEF New
  <2>4. Last1 = Len(stack)
    BY <1>1, <1>5, <2>2, <2>3 DEF Settles
  <2> QED BY <1>5, <2>1, <2>2, <2>4 DEF SamePipelines, Unpinned, OffsetsRanged, OperandsFed
<1>6. CASE Into(q, s, type)
  <2>1. PICK st : st = stage'[s]
    OBVIOUS
  <2>2. /\ q \in DOMAIN query /\ Adds(q, {s}) /\ Unmodified(q) /\ stack # << >> /\ q = Top.q
        /\ FoldFits(st, Top.is, type) /\ st.args = << >> /\ Shaped(st)
    BY <1>6, <2>1 DEF Into
  <2>3. Expressible(st) /\ (Groups(st) => Top.is \in MetricTypes)
    BY <2>2, FoldFollows
  <2>4. Producers(q) \subseteq Producers(q)'
    BY <2>2, ProducersStay
  <2>5. type \in MetricTypes => Producers(q)' # {}
    <3>1. CASE RangeFold(st)
      <4>1. Yields(st)'
        BY <2>2, <3>1, FoldedKinds, StagesKeepKind
      <4>2. s \in InPipeline(q)'
        BY <2>2 DEF Adds
      <4> QED BY <2>1, <4>1, <4>2 DEF Producers
    <3>2. CASE SampleFold(st) /\ Top.is \in MetricTypes
      BY <1>5, <2>2, <2>4, <3>2
    <3>3. CASE type \in LogTypes
      BY <1>3, <3>3
    <3> QED BY <2>2, <3>1, <3>2, <3>3 DEF FoldFits
  <2>6. query[q].offset > 0 => type \in RangeTypes \/ Producers(q)' # {}
    <3>1. type \in MetricTypes \/ Top.is \in LogTypes
      BY <1>3, <2>2 DEF FoldFits
    <3> QED BY <1>3, <1>5, <2>2, <2>4, <2>5, <3>1
  <2>7. type # "literal"
    BY <1>3, <2>2 DEF FoldFits
  <2>8. Follows(q, {s}, type)
    BY <1>1, <1>5, <2>1, <2>2, <2>3, <2>5, <2>6, <2>7 DEF Follows, Unmodified
  <2> QED BY <2>8
<1>7. CASE Windowed(q, type)
  <2>1. /\ q \in DOMAIN query /\ Adds(q, {}) /\ stack # << >> /\ q = Top.q /\ type \in RangeTypes
        /\ query'[q].subquery = query[q].subquery /\ query'[q].pinned = query[q].pinned
    BY <1>7 DEF Windowed
  <2>2. Follows(q, {}, type)
    BY <1>1, <1>3, <1>5, <2>1 DEF Follows
  <2> QED BY <2>2
<1> QED BY <1>2, <1>4, <1>6, <1>7

(* Within one language, pipelines stay expressible in every step. *)
LEMMA SamePipelinesSteps ==
  ASSUME Source = Target, Constructs \cap Number = {}
  PROVE  Typed /\ OperandsAscend /\ SamePipelines /\ [Next]_vars => SamePipelines'
<1> SUFFICES ASSUME Typed, OperandsAscend, SamePipelines, [Next]_vars PROVE SamePipelines'
  OBVIOUS
<1>0. HeapOK /\ StackOK /\ AuthoredOK /\ WalkOK
  BY DEF Typed
<1>1. CASE Resolve
  <2>1. PICK q \in Nat : \E added, type : Follows(q, added, type)
    BY <1>0, <1>1, ResolverPlaces, PlainPlacesFollow DEF Resolve
  <2>2. StackOK'
    BY <1>0, <1>1, ResolverTypes DEF Resolve
  <2> QED BY <1>0, <2>1, <2>2, FollowsKeeps
<1>2. CASE Fail
  <2>1. query' = << >> /\ stage' = << >> /\ stack' = << >>
    BY <1>2 DEF Fail
  <2> QED BY <2>1 DEF SamePipelines, Expressed, Unpinned, Fed, OffsetsRanged, OperandsFed
<1>3. CASE Validate /\ VisitQuery
  <2> DEFINE q == Head(toVisit)[2]
  <2>1. stage' = stage /\ stack' = stack
    BY <1>3 DEF Validate, VisitQuery
  <2>2. query' = [query EXCEPT ![q].pipeline = Reordered(Pipeline(q), def)]
    BY <1>3 DEF VisitQuery
  <2>3. q \in DOMAIN query
    BY <1>0, <1>3, VisitSorts DEF Validate
  <2> HIDE DEF q
  <2>4. /\ DOMAIN query' = DOMAIN query
        /\ \A p \in DOMAIN query :
              /\ InPipeline(p)' = InPipeline(p) /\ Producers(p)' = Producers(p)
              /\ query'[p].subquery = query[p].subquery
              /\ query'[p].offset = query[p].offset /\ query'[p].pinned = query[p].pinned
    BY <1>0, <2>1, <2>2, <2>3, SortKeepsQueries
  <2>5. Expressed' /\ Unpinned'
    BY <2>1, <2>4 DEF SamePipelines, Expressed, Unpinned, Expressible, def
  <2>6. Fed'
    BY <2>1, <2>4 DEF SamePipelines, Fed, Groups
  <2>7. OffsetsRanged'
    BY <2>1, <2>4 DEF SamePipelines, OffsetsRanged
  <2>8. OperandsFed'
    <3>1. \A i \in DOMAIN stack : stack[i].q \in DOMAIN query
      BY <1>0 DEF StackOK
    <3>2. ASSUME NEW i \in DOMAIN stack', NEW p, p = stack'[i].q
          PROVE  /\ stack'[i].is # "literal"
                 /\ stack'[i].is \in MetricTypes => Producers(p)' # {}
      <4>1. i \in DOMAIN stack /\ p = stack[i].q /\ p \in DOMAIN query /\ stack'[i] = stack[i]
        BY <2>1, <3>1, <3>2
      <4> QED BY <2>4, <4>1 DEF SamePipelines, OperandsFed
    <3> QED BY <3>2 DEF OperandsFed, MetricTypes
  <2> QED BY <2>5, <2>6, <2>7, <2>8 DEF SamePipelines
<1>4. CASE UNCHANGED resolverVars
  <2>1. query' = query /\ stage' = stage /\ stack' = stack
    BY <1>4 DEF resolverVars, heap
  <2> QED BY <2>1 DEF SamePipelines, Expressed, Unpinned, Fed, OffsetsRanged, OperandsFed, Expressible,
                      Groups, Producers, InPipeline, Pipeline, Yields, def
<1>5. Resolve \/ Fail \/ (Validate /\ VisitQuery) \/ UNCHANGED resolverVars
  BY DEF Next, Proceed, BeginValidation, Validate, ValidatorNext, VisitStage, VisitMatcher,
         VisitWindow, VisitOther, Report, BeginEmission, Emit, GenerateReport, Returned, vars,
         resolverVars
<1> QED BY <1>1, <1>2, <1>3, <1>4, <1>5

-----------------------------------------------------------------------------
(* What is said of such a pipeline. *)
Mild(v) == v.flag # UNSUPPORTED /\ v.reason # "other axis"

SameJudged ==
    /\ \A v \in Known : Mild(v)
    /\ \A n \in Node : flag[n] # UNSUPPORTED /\ reason[n] # "other axis"

RootFits == pc \notin {"resolving", "failed"} => Top.is \in MetricTypes \cup {"log", "literal"}

(* Every offset has its range once there is nothing left to resolve. *)
LEMMA OffsetsHaveRanges ==
  ASSUME StackOK, SortOK, RootFits, SamePipelines, pc \notin {"resolving", "failed"},
         NEW q \in DOMAIN query, query[q].offset > 0
  PROVE  Producers(q) # {}
<1>1. Len(stack) = 1 /\ stack[1].is \notin RangeTypes
  BY DEF SortOK, RootFits, MetricTypes, RangeTypes, Top
<1>2. DOMAIN stack = {1}
  BY <1>1 DEF StackOK
<1> QED BY <1>1, <1>2 DEF SamePipelines, OffsetsRanged

(* A loss for another reason than the axis is mild. *)
LEMMA RaisedMild ==
  ASSUME NEW c, NEW n, NEW why, why # "other axis"
  PROVE  \A v \in Raise(c, n, PARTIAL, why) : Mild(v)
<1>1. PICK w : w = Verdict(n, PARTIAL, why)
  OBVIOUS
<1>2. Mild(w)
  BY <1>1, FlagsDiffer DEF Mild, Verdict
<1>3. \A v \in Raise(c, n, PARTIAL, why) : v = w
  BY <1>1 DEF Raise
<1> QED BY <1>2, <1>3

(* Sorted, a pipeline has its samples before whatever groups them. *)
LEMMA SortKeepsFed ==
  ASSUME HeapOK, SamePipelines, NEW q \in DOMAIN query, StableIn(Pipeline(q)),
         NEW ids, ids = Reordered(Pipeline(q), def)
  PROVE  GroupWithoutSamples(ids) = {}
<1>1. Pipeline(q) \in Seq(StageId) /\ \A i \in DOMAIN Pipeline(q) : Pipeline(q)[i] \in DOMAIN stage
  BY PipelineType
<1>2. /\ ids \in Seq(StageId) /\ SortedIn(ids)
      /\ \A i \in DOMAIN ids : ids[i] \in InPipeline(q)
      /\ \A s \in InPipeline(q) : \E j \in DOMAIN ids : ids[j] = s
  <2>1. ids \in Seq(StageId)
    BY <1>1, ReorderedType
  <2>2. SortedIn(ids)
    BY <1>1, SortSorts
  <2>3. \A i \in DOMAIN ids : ids[i] \in InPipeline(q)
    <3>1. \A i \in DOMAIN Pipeline(q) : Pipeline(q)[i] \in InPipeline(q)
      BY DEF InPipeline
    <3> QED BY <1>1, <3>1, ReorderedType
  <2>4. \A s \in InPipeline(q) : \E j \in DOMAIN ids : ids[j] = s
    BY <1>1, SortLosesNone DEF InPipeline
  <2> QED BY <2>1, <2>2, <2>3, <2>4
<1>3. ASSUME NEW i \in DOMAIN ids, Groups(stage[ids[i]])
      PROVE  \E j \in 1..(i - 1) : ProducesRange(ids[j])
  <2>1. PICK t \in Producers(q) : t < ids[i]
    BY <1>2, <1>3 DEF SamePipelines, Fed
  <2>2. t \in InPipeline(q) /\ ProducesRange(t)
    BY <2>1 DEF Producers, Yields, ProducesRange
  <2>3. PICK j \in DOMAIN ids : ids[j] = t
    BY <1>2, <2>2
  <2>4. rankOf(stage[ids[j]], def) = 5 /\ rankOf(stage[ids[i]], def) = 5
    <3>1. rankOf(stage[t], def) = 5
      BY <2>2, ProducerRank
    <3>2. rankOf(stage[ids[i]], def) = 5
      <4>1. PICK st : st = stage[ids[i]]
        OBVIOUS
      <4>2. st.type = "Aggregation"
        BY <1>3, <4>1 DEF Groups
      <4>3. rankOf(st, def) = 5
        BY <4>2 DEF rankOf, rankAggregation
      <4> QED BY <4>1, <4>3
    <3> QED BY <2>3, <3>1, <3>2
  <2>5. ids[i] \in Nat /\ t \in Nat /\ i \in Nat /\ j \in Nat /\ j >= 1
    <3>1. \A k \in DOMAIN ids : ids[k] \in Nat /\ k \in Nat /\ k >= 1
      <4>1. ids \in Seq(StageId)
        BY <1>2
      <4>2. \A k \in DOMAIN ids : ids[k] \in StageId
        BY <4>1
      <4>3. \A k \in DOMAIN ids : k \in Nat /\ k >= 1
        BY <4>1
      <4> QED BY <4>2, <4>3 DEF StageId
    <3> QED BY <1>3, <2>3, <3>1
  <2>6. ~(i < j)
    BY <1>2, <2>1, <2>3, <2>4, <2>5 DEF SortedIn
  <2>7. i # j
    BY <2>1, <2>3, <2>5
  <2> QED BY <2>2, <2>3, <2>5, <2>6, <2>7
<1> QED BY <1>3 DEF GroupWithoutSamples, Groups

(* No check of a query refuses it within one language. *)
LEMMA QueryJudgedMildly ==
  ASSUME Typed, OrderOK, SortOK, RootFits, SamePipelines, pc = "validating", VisitQuery
  PROVE  \A v \in verdicts' : Mild(v)
<1>0. PICK q : q = Head(toVisit)[2]
  OBVIOUS
<1>1. PICK ids : ids = Reordered(Pipeline(q), def)
  OBVIOUS
<1>2. /\ q \in DOMAIN query
      /\ verdicts' = {AtBarePath(v) : v \in checkPipelineOrder(Pipeline(q))} \cup checkSubquery(q)
                       \cup checkAggregationOperand(q, ids) \cup checkOffset(q, ids)
  BY <1>0, <1>1, VisitSorts DEF Typed, VisitQuery
<1>3. ASSUME NEW v \in checkPipelineOrder(Pipeline(q)) PROVE Mild(AtBarePath(v))
  <2>1. Mild(v)
    <3>1. PICK i, c : v \in Raise(c, StageNode(i), PARTIAL, "stage order")
      BY <1>3 DEF checkPipelineOrder
    <3> QED BY <3>1, RaisedMild
  <2>2. v \in Judgement
    BY <1>2, PipelineType, QueryChecksType DEF Typed
  <2>3. AtBarePath(v).flag = v.flag /\ AtBarePath(v).reason = v.reason
    BY <2>2 DEF AtBarePath, Judgement, VerdictRecord
  <2> QED BY <2>1, <2>3 DEF Mild
<1>4. checkSubquery(q) = {}
  <2>1. ~IsSubquery(q)
    BY <1>2 DEF SamePipelines, Unpinned, IsSubquery
  <2> QED BY <2>1 DEF checkSubquery, Raise
<1>5. checkAggregationOperand(q, ids) = {}
  <2>1. GroupWithoutSamples(ids) = {}
    BY <1>1, <1>2, SortKeepsFed DEF Typed, OrderOK
  <2> QED BY <2>1 DEF checkAggregationOperand
<1>6. checkOffset(q, ids) = {}
  <2>1. ASSUME query[q].offset > 0 PROVE \E i \in DOMAIN ids : ProducesRange(ids[i])
    <3>1. PICK t : t \in Producers(q)
      BY <1>2, <2>1, OffsetsHaveRanges DEF Typed
    <3>2. t \in InPipeline(q) /\ ProducesRange(t)
      BY <3>1 DEF Producers, Yields, ProducesRange
    <3>3. \E j \in DOMAIN ids : ids[j] = t
      <4>1. HeapOK /\ Pipeline(q) \in Seq(StageId)
        BY <1>2, PipelineType DEF Typed
      <4>2. PICK i \in DOMAIN Pipeline(q) : Pipeline(q)[i] = t
        BY <3>2 DEF InPipeline
      <4> QED BY <1>1, <1>2, <4>1, <4>2, PipelineType, SortLosesNone
    <3> QED BY <3>2, <3>3
  <2> QED BY <2>1 DEF checkOffset, Raise
<1> QED BY <1>2, <1>3, <1>4, <1>5, <1>6

(* No check of an expressible stage refuses it. *)
LEMMA StageJudgedMildly ==
  ASSUME NEW s, Expressible(stage[s])
  PROVE  \A v \in checkStage(s) : Mild(v)
<1>1. CASE stage[s].type = "Filter"
  <2>1. checkStage(s) = checkFilter(StageNode(s), stage[s])
    BY <1>1 DEF checkStage, IsOperator
  <2> QED BY <2>1, RaisedMild DEF checkFilter
<1>2. CASE stage[s].type = "Function" /\ stage[s].what \in def.functions
  <2>1. checkStage(s) = checkFunction(StageNode(s), stage[s])
    BY <1>2 DEF checkStage, IsOperator
  <2>2. checkFunction(StageNode(s), stage[s]) = {}
    BY <1>2 DEF checkFunction, Raise, FunctionByIRName
  <2> QED BY <2>1, <2>2
<1>3. CASE stage[s].type = "Aggregation" /\ FunctionForAggregation(def, stage[s].what, stage[s].scope)
  <2>1. checkStage(s) = checkAggregation(StageNode(s), stage[s])
    BY <1>3 DEF checkStage, IsOperator
  <2>2. checkAggregation(StageNode(s), stage[s]) = {}
    BY <1>3 DEF checkAggregation, Raise
  <2> QED BY <2>1, <2>2
<1> QED BY <1>1, <1>2, <1>3 DEF Expressible

(* No check of a matcher, a predicate or a window refuses it. *)
LEMMA LeavesJudgedMildly ==
  ASSUME NEW n, NEW field, NEW op
  PROVE  \A v \in checkMatcher(n, field, op) \cup checkWindow(n) : Mild(v)
<1>1. SupportsSignal(def, "LOG") /\ def.temporalWindows
  BY EmittedTarget DEF def, Dialect, Logql, SupportsSignal
<1>2. checkWindow(n) = {}
  BY <1>1 DEF checkWindow, Raise
<1>3. checkMatcher(n, field, op) = Raise(Source # Target /\ op = "regex", n, PARTIAL, "regex dialect")
  BY <1>1 DEF checkMatcher
<1> QED BY <1>2, <1>3, RaisedMild

(* Within one language nothing is refused, in any step. *)
LEMMA SameJudgedSteps ==
  ASSUME Source = Target
  PROVE  Typed /\ OrderOK /\ SortOK /\ SamePipelines /\ RootFits /\ SameJudged
         /\ [Next]_vars => SameJudged'
<1> SUFFICES ASSUME Typed, OrderOK, SortOK, SamePipelines, RootFits, SameJudged, [Next]_vars
             PROVE  SameJudged'
  OBVIOUS
<1>0. HeapOK /\ WalkOK
  BY DEF Typed
<1>a. \A v : Mild(v)' <=> Mild(v)
  BY DEF Mild
<1>1. CASE UNCHANGED <<verdicts, issues, flag, reason>>
  BY <1>1 DEF SameJudged, Known, Mild
<1>2. ASSUME pc = "validating", UNCHANGED <<issues, flag, reason>>, \A v \in verdicts' : Mild(v)
      PROVE  SameJudged'
  BY <1>2 DEF SameJudged, Known, Mild
<1>3. CASE BeginValidation
  <2>1. source = def
    BY DEF source, def
  <2>2. verdicts' = {} /\ UNCHANGED <<issues, flag, reason>>
    BY <1>3, <2>1 DEF BeginValidation, StartValidation, checkSentinelSemantics, Raise
  <2> QED BY <2>2 DEF SameJudged, Known, Mild
<1>4. CASE Validate
  <2>0. pc = "validating" /\ ValidatorNext
    BY <1>4 DEF Validate
  <2>1. CASE VisitQuery
    BY <1>2, <2>0, <2>1, QueryJudgedMildly DEF VisitQuery
  <2>2. CASE VisitStage
    <3>1. /\ Head(toVisit)[2] \in DOMAIN stage /\ verdicts' = checkStage(Head(toVisit)[2])
          /\ UNCHANGED <<issues, flag, reason>>
      BY <1>0, <2>2, NextNode DEF WalkOK, VisitStage, AtNode, StageKinds
    <3>2. \A v \in verdicts' : Mild(v)
      BY <3>1, StageJudgedMildly DEF SamePipelines, Expressed
    <3> QED BY <1>2, <2>0, <3>1, <3>2
  <2>3. CASE VisitMatcher \/ VisitWindow
    <3>1. (\A v \in verdicts' : Mild(v)) /\ UNCHANGED <<issues, flag, reason>>
      BY <2>3, LeavesJudgedMildly DEF VisitMatcher, VisitWindow
    <3> QED BY <1>2, <2>0, <3>1
  <2>4. CASE VisitOther
    BY <1>1, <2>4 DEF VisitOther
  <2>5. CASE Report
    <3>1. PICK v \in verdicts :
             /\ flag' = [flag EXCEPT ![v.node] = IF v.flag > @ THEN v.flag ELSE @]
             /\ reason' = [reason EXCEPT ![v.node] = IF v.flag > flag[v.node] THEN v.reason ELSE @]
             /\ issues' = issues \cup {v} /\ verdicts' = verdicts \ {v}
      BY <2>5 DEF Report
    <3>2. Mild(v)
      BY <3>1 DEF SameJudged, Known
    <3>3. Known' \subseteq Known
      BY <3>1 DEF Known
    <3>4. ASSUME NEW n \in Node PROVE flag'[n] # UNSUPPORTED /\ reason'[n] # "other axis"
      BY <1>0, <3>1, <3>2, <3>4 DEF SameJudged, Mild, WalkOK
    <3> QED BY <3>3, <3>4 DEF SameJudged, Mild
  <2> QED BY <2>0, <2>1, <2>2, <2>3, <2>4, <2>5 DEF ValidatorNext
<1>5. BeginValidation \/ Validate \/ UNCHANGED <<verdicts, issues, flag, reason>>
  BY DEF Next, Proceed, Resolve, Fail, BeginEmission, Emit, GenerateReport, Returned, vars, validatorVars
<1> QED BY <1>1, <1>3, <1>4, <1>5
-----------------------------------------------------------------------------
(* What is noted of such a pipeline, and what is reported. *)
RangeFree == \A n \in notes : ~Pinned(n)

(* The resolver's last operand is the whole expression, and stays it. *)
LEMMA RootFitsSteps ==
  RootFits /\ [Next]_vars => RootFits'
<1> SUFFICES ASSUME RootFits, [Next]_vars PROVE RootFits'
  OBVIOUS
<1>1. CASE Resolve \/ Fail
  BY <1>1 DEF RootFits, Resolve, Fail
<1>2. CASE BeginValidation
  BY <1>2 DEF RootFits, BeginValidation, ResolvedRoot, resolverVars, heap, Top
<1>3. CASE Proceed
  BY <1>3 DEF RootFits, Proceed, Validate, BeginEmission, Emit, GenerateReport, resolverVars, Top
<1>4. CASE Returned \/ UNCHANGED vars
  BY <1>4 DEF RootFits, Returned, vars, resolverVars, Top
<1> QED BY <1>1, <1>2, <1>3, <1>4 DEF Next

(* A query that is not pinned leaves no note of an instant. *)
LEMMA EntryRangeFree ==
  ASSUME Unpinned, NEW q \in DOMAIN query
  PROVE  \A n \in EntryNotes(q) \cup Dropped(q) : ~Pinned(n)
<1>1. query[q].pinned = 0
  BY DEF Unpinned
<1> QED BY <1>1 DEF EntryNotes, Dropped, Pinned, QueryNode

(* The emitter notes an instant only on entering a query. *)
LEMMA RangeFreeSteps ==
  ASSUME HeapOK, FramesOK, Unpinned, RangeFree, EmitterNext
  PROVE  RangeFree'
<1>1. ASSUME \A n \in notes' : n \in notes \/ ~Pinned(n) PROVE RangeFree'
  BY <1>1 DEF RangeFree, Pinned
<1>2. frames # << >> => Frame1.q \in DOMAIN query
  BY FramesSplit DEF Placed, FrameRecord
<1>3. CASE SkipFlagged \/ ApplyAggregation \/ ApplyFunction \/ ApplyFilter \/ ApplyBareOperator
  <2>1. notes' \subseteq notes \cup {StageNode(Here), <<"Predicate", Here>>}
    BY <1>3 DEF SkipFlagged, ApplyAggregation, ApplyFunction, ApplyFilter, ApplyBareOperator, Drop,
                CloseRange, Append1, WriteComparison
  <2> QED BY <1>1, <2>1 DEF Pinned, StageNode
<1>4. CASE ApplyOperator
  <2>1. PICK p \in DOMAIN query : notes' = notes \cup EntryNotes(p)
    BY <1>4, OperatorCalls
  <2> QED BY <1>1, <2>1, EntryRangeFree
<1>5. CASE ReturnOperand
  <2>1. Frame1.q \in DOMAIN query
    BY <1>2, <1>5 DEF ReturnOperand, FramesOK
  <2>2. PICK c : c = frames[Depth - 1]
    OBVIOUS
  <2>3. \/ \E p \in DOMAIN query : notes' = notes \cup Dropped(Frame1.q) \cup EntryNotes(p)
        \/ notes' = notes \cup Dropped(Frame1.q)
    BY <1>5, <2>2, OperandReturns
  <2> QED BY <1>1, <2>1, <2>3, EntryRangeFree
<1>6. CASE FinishEmission
  <2>1. Frame1.q \in DOMAIN query
    BY <1>2, <1>6 DEF FinishEmission, FramesOK
  <2>2. notes' = notes \cup Dropped(Frame1.q)
    BY <1>6 DEF FinishEmission, Dropped
  <2> QED BY <1>1, <2>1, <2>2, EntryRangeFree
<1> QED BY <1>3, <1>4, <1>5, <1>6 DEF EmitterNext

SameOK == SamePipelines /\ SameJudged /\ RootFits /\ RangeFree

(* The same language keeps all four. *)
LEMMA SameSteps ==
  ASSUME Source = Target, Constructs \cap Number = {}
  PROVE  Typed /\ OperandsAscend /\ OrderOK /\ SortOK /\ SameOK /\ [Next]_vars => SameOK'
<1> SUFFICES ASSUME Typed, OperandsAscend, OrderOK, SortOK, SameOK, [Next]_vars PROVE SameOK'
  OBVIOUS
<1>1. SamePipelines' /\ SameJudged' /\ RootFits'
  BY SamePipelinesSteps, SameJudgedSteps, RootFitsSteps DEF SameOK
<1>2. RangeFree'
  <2>1. CASE Emit
    BY <2>1, RangeFreeSteps DEF Emit, SameOK, SamePipelines, Typed
  <2>2. CASE BeginEmission
    <3>1. Root \in DOMAIN query
      <4>1. 1 \in DOMAIN stack
        BY <2>2 DEF BeginEmission, Typed, SortOK, StackOK
      <4> QED BY <4>1 DEF Typed, StackOK, Root
    <3>2. \A n \in EntryNotes(Root) : ~Pinned(n)
      BY <3>1, EntryRangeFree DEF SameOK, SamePipelines
    <3> QED BY <2>2, <3>2 DEF BeginEmission, StartEmission, SameOK, RangeFree, Pinned
  <2>3. CASE notes' = notes
    BY <2>3 DEF SameOK, RangeFree, Pinned
  <2>4. Emit \/ BeginEmission \/ notes' = notes
    BY DEF Next, Resolve, Fail, BeginValidation, Proceed, Validate, GenerateReport, Returned, vars,
           emitterVars
  <2> QED BY <2>1, <2>2, <2>3, <2>4
<1> QED BY <1>1, <1>2 DEF SameOK

(* Nothing refused is nothing left out, and what is reworded is flagged. *)
LEMMA SameIsComplete ==
  ASSUME Refused, SameOK, Done, RefusalsAreUnsupported
  PROVE  Complete /\ \A n \in notes : Reworded(n)
<1>1. HeapOK /\ WalkOK /\ FramesOK /\ Counted
  BY DEF Refused, Refusing, Typed, RefusalOK
<1>2. CarriedBy(UNSUPPORTED) = {}
  BY <1>1, PresentNodes DEF CarriedBy, SameOK, SameJudged
<1>3. Complete
  <2>1. Cardinality({}) = 0
    BY FS_EmptySet
  <2> QED BY <1>1, <1>2, <2>1 DEF Counted, Complete
<1>4. ASSUME NEW n \in notes PROVE Reworded(n)
  <2>1. Pinned(n) \/ OtherAxis(n) \/ Reworded(n)
    BY <1>3 DEF RefusalsAreUnsupported
  <2>2. n \in Node
    BY <1>1 DEF FramesOK
  <2> QED BY <2>1, <2>2 DEF SameOK, SameJudged, RangeFree, OtherAxis
<1> QED BY <1>3, <1>4

(* A LogQL pipeline of log stages, ranges and aggregations, re-emitted as      *)
(* LogQL, is never refused and nothing of it is left out; a bool, which LogQL  *)
(* reads and is not written, is noted and reported as partial.                *)
THEOREM SameLanguageLosesNothing ==
  ASSUME Constructs \cap Number = {}
  PROVE  Spec => []SameLanguageIsComplete
<1>1. CASE Source = Target
  <2>1. Init => SameOK
    <3> SUFFICES ASSUME Init PROVE SameOK
      OBVIOUS
    <3>1. SamePipelines
      BY DEF Init, ResolverInit, SamePipelines, Expressed, Unpinned, Fed, OffsetsRanged, OperandsFed
    <3>2. SameJudged
      BY FlagsDiffer DEF Init, ValidatorInit, SameJudged, Known
    <3>3. RootFits /\ RangeFree
      BY DEF Init, EmitterInit, RootFits, RangeFree
    <3> QED BY <3>1, <3>2, <3>3 DEF SameOK
  <2>2. Judged /\ OrderInv /\ Shaping /\ SameOK /\ [Next]_vars => SameOK'
    BY <1>1, SameSteps DEF Judged, OrderInv, Shaping, ModifiersOK
  <2>3. Refused /\ SameOK /\ RefusalsAreUnsupported => SameLanguageIsComplete
    BY SameIsComplete DEF SameLanguageIsComplete
  <2> QED BY <2>1, <2>2, <2>3, JudgedThroughout, OrderThroughout, ShapesThroughout, RefusedThroughout,
             EmitterAgreesWithValidator, PTL DEF Spec
<1>2. CASE Source # Target
  <2>1. SameLanguageIsComplete
    BY <1>2 DEF SameLanguageIsComplete
  <2> QED BY <2>1, PTL
<1> QED BY <1>1, <1>2

-----------------------------------------------------------------------------
(* What of the tree is in the text, in some call's share of it, or noted. *)

(* A node that is in the text, or in some text still being put together. *)
Holds(n) ==
    \/ n \in written
    \/ \E k \in DOMAIN frames : n \in frames[k].text \/ n \in frames[k].operandText

(* A stage that the sort has put ahead of an origin. *)
Excused(s) ==
    \E q \in DOMAIN query : \E t \in InPipeline(q) :
       Origin(stage[t]) /\ s \in InPipeline(q) /\ MovedAcross(q, t, s)

Told(s) == Noted(s) \/ Bare(s) \/ Excused(s) \/ Holds(StageNode(s))

(* A stage the emitter is done with, when E are the queries it is done with. *)
Over(s, E) == Told(s) /\ (Args(s) \subseteq E \/ (stage[s].type = "Join" /\ Noted(s)))

OffsetTold(q) == query[q].offset > 0 => offsetWritten \/ <<"Window", q>> \in notes

Finished(E) ==
    \A q \in E : OffsetTold(q) /\ \A i \in DOMAIN Pipeline(q) : Over(Pipeline(q)[i], E)

(* What an origin still to come would replace can be spared. *)
Spare(f) ==
    \A i \in DOMAIN Pipeline(f.q) : (i >= f.at /\ Origin(stage[Pipeline(f.q)[i]])) =>
       \A n \in f.text : \E s : n = StageNode(s) /\ Excused(s)

Underway(f, E) ==
    /\ Spare(f) /\ (f.logPhase => Sourced(f.q))
    /\ \A i \in DOMAIN Pipeline(f.q) : i < f.at => Over(Pipeline(f.q)[i], E)

(* The operands of the operator a call waits at. *)
Expects(f, p, E) ==
    Args(Pipeline(f.q)[f.at]) \subseteq E \cup {p} \cup Queued(f.operands)

Emitting(E) ==
    /\ Finished(E)
    /\ \A k \in DOMAIN frames : Underway(frames[k], E)
    /\ \A k \in DOMAIN frames : k < Depth => Expects(frames[k], frames[k + 1].q, E)
    /\ IF frames = << >> THEN Root \in E ELSE frames[1].q = Root

OffsetHeld == offsetWritten => \E p \in DOMAIN query : Holds(<<"Window", p>>)
TopClear == frames # << >> => frames[Depth].operandText = {} /\ written = {}

EmissionOK ==
    /\ PastValidation => \E E \in SUBSET DOMAIN query : Emitting(E)
    /\ OffsetHeld /\ TopClear

-----------------------------------------------------------------------------
(* What a step of the emitter leaves as it was. *)

NothingLost ==
    /\ notes \subseteq notes' /\ (offsetWritten => offsetWritten')
    /\ \A n : Holds(n) => Holds(n)' \/ \E s : n = StageNode(s) /\ Excused(s)

(* The excuse is in the heap, which the emitter only reads. *)
LEMMA ExcusesStay ==
  ASSUME Settled
  PROVE  /\ \A s : (Excused(s)' <=> Excused(s)) /\ (Bare(s)' <=> Bare(s)) /\ Args(s)' = Args(s)
         /\ \A f : (Spare(f)' <=> Spare(f)) /\ (Sourced(f.q)' <=> Sourced(f.q))
<1>1. \A s : (Excused(s)' <=> Excused(s)) /\ (Bare(s)' <=> Bare(s)) /\ Args(s)' = Args(s)
  BY DEF Settled, Excused, InPipeline, Pipeline, Origin, HasOperands, IsOperator, MovedAcross, NowBefore,
         Position, Bare, Args
<1>2. \A f : Spare(f)' <=> Spare(f)
  BY <1>1 DEF Settled, Spare, Pipeline, Origin, HasOperands, IsOperator, StageNode
<1>3. \A f : Sourced(f.q)' <=> Sourced(f.q)
  BY DEF Settled, Sourced
<1> QED BY <1>1, <1>2, <1>3

(* What the emitter is done with it stays done with. *)
LEMMA OverStays ==
  ASSUME Settled, NothingLost, NEW E, NEW F, E \subseteq F
  PROVE  /\ \A s : Over(s, E) => Over(s, F)'
         /\ \A q : OffsetTold(q) => OffsetTold(q)'
<1>1. ASSUME NEW s, Told(s) PROVE Told(s)'
  <2>1. CASE Noted(s)
    BY <2>1 DEF NothingLost, Noted, Told, StageNode
  <2>2. CASE Bare(s) \/ Excused(s)
    BY <2>2, ExcusesStay DEF Told
  <2>3. CASE Holds(StageNode(s))
    <3>1. PICK n : n = StageNode(s)
      OBVIOUS
    <3>2. CASE Holds(n)'
      BY <3>1, <3>2 DEF Told, StageNode
    <3>3. CASE \E r : n = StageNode(r) /\ Excused(r)
      <4>1. Excused(s)
        BY <3>1, <3>3 DEF StageNode
      <4> QED BY <4>1, ExcusesStay DEF Told
    <3> QED BY <2>3, <3>1, <3>2, <3>3 DEF NothingLost
  <2> QED BY <1>1, <2>1, <2>2, <2>3 DEF Told
<1>2. \A s : Noted(s) => Noted(s)'
  BY DEF NothingLost, Noted, StageNode
<1>3. \A s : Args(s)' = Args(s) /\ stage'[s] = stage[s]
  BY ExcusesStay DEF Settled
<1>4. \A s : Over(s, E) => Over(s, F)'
  BY <1>1, <1>2, <1>3 DEF Over
<1>5. \A q : OffsetTold(q) => OffsetTold(q)'
  BY DEF OffsetTold, Settled, NothingLost
<1> QED BY <1>4, <1>5

(* A call that waits, or is replaced by one at the same place, is as far. *)
LEMMA UnderwayStays ==
  ASSUME Settled, NothingLost, NEW E, NEW F, E \subseteq F, NEW f, NEW g, SamePlace(f, g),
         Underway(f, E)
  PROVE  Underway(g, F)'
<1>1. Spare(g)' /\ (g.logPhase => Sourced(g.q)')
  <2>1. Spare(g) /\ (g.logPhase => Sourced(g.q))
    BY DEF Underway, Spare, SamePlace
  <2> QED BY <2>1, ExcusesStay
<1>2. Pipeline(g.q)' = Pipeline(g.q) /\ g.q = f.q /\ g.at = f.at
  BY DEF Pipeline, Settled, SamePlace
<1>3. \A i \in DOMAIN Pipeline(g.q) : i < g.at => Over(Pipeline(g.q)[i], F)'
  BY <1>2, OverStays DEF Underway
<1> QED BY <1>1, <1>2, <1>3 DEF Underway

(* What was said of the queries done with stays said, of any further ones too. *)
LEMMA FinishedStays ==
  ASSUME Settled, NothingLost, NEW E, NEW F, E \subseteq F, Finished(E),
         \A q \in F \ E : OffsetTold(q)' /\ \A i \in DOMAIN Pipeline(q) : Over(Pipeline(q)[i], E)
  PROVE  Finished(F)'
<1>1. \A q : Pipeline(q)' = Pipeline(q)
  BY DEF Pipeline, Settled
<1>2. ASSUME NEW q \in F PROVE OffsetTold(q)' /\ \A i \in DOMAIN Pipeline(q) : Over(Pipeline(q)[i], F)'
  <2>1. CASE q \in E
    <3>1. OffsetTold(q) /\ \A i \in DOMAIN Pipeline(q) : Over(Pipeline(q)[i], E)
      BY <2>1 DEF Finished
    <3> QED BY <1>1, <3>1, OverStays
  <2>2. CASE q \notin E
    <3>1. OffsetTold(q)' /\ \A i \in DOMAIN Pipeline(q) : Over(Pipeline(q)[i], E)
      BY <1>2, <2>2
    <3> QED BY <1>1, <3>1, OverStays
  <2> QED BY <2>1, <2>2
<1> QED BY <1>1, <1>2 DEF Finished

(* An offset marked as written stays in some text. *)
LEMMA OffsetHeldStays ==
  ASSUME Settled, NothingLost, OffsetHeld,
         offsetWritten' => offsetWritten \/ \E p \in DOMAIN query : Holds(<<"Window", p>>)'
  PROVE  OffsetHeld'
<1>1. ASSUME NEW p \in DOMAIN query, Holds(<<"Window", p>>) PROVE Holds(<<"Window", p>>)'
  BY <1>1 DEF NothingLost, StageNode
<1> QED BY <1>1 DEF OffsetHeld, Settled

(* An operand expected stays expected, unless it is done with. *)
LEMMA ExpectsStays ==
  ASSUME Settled, NEW E, NEW F, E \subseteq F, NEW f, NEW p, NEW r, Expects(f, p, E),
         p \in F \/ p = r
  PROVE  Expects(f, r, F)'
<1>1. PICK s : s = Pipeline(f.q)[f.at]
  OBVIOUS
<1>2. s = (Pipeline(f.q)[f.at])'
  BY <1>1 DEF Settled, Pipeline
<1>3. Args(s)' = Args(s)
  BY ExcusesStay
<1>4. Args(s) \subseteq F \cup {r} \cup Queued(f.operands)
  BY <1>1 DEF Expects
<1> QED BY <1>2, <1>3, <1>4 DEF Expects, Queued

-----------------------------------------------------------------------------
(* Stages. *)

(* What stands before an origin in the sorted pipeline was put there.         *)
LEMMA AheadOfOrigin ==
  ASSUME HeapOK, SortedAll, OriginsFirst, NEW q \in DOMAIN query,
         NEW i \in DOMAIN Pipeline(q), NEW j \in DOMAIN Pipeline(q), i < j,
         Origin(stage[Pipeline(q)[j]])
  PROVE  Excused(Pipeline(q)[i]) /\ ~Origin(stage[Pipeline(q)[i]]) /\ ~Sourced(q)
<1>1. PICK s, t : s = Pipeline(q)[i] /\ t = Pipeline(q)[j]
  OBVIOUS
<1>2. s \in InPipeline(q) /\ t \in InPipeline(q)
  BY <1>1 DEF InPipeline
<1>3. s \in Nat /\ t \in Nat
  BY <1>2, PositionType
<1>4. ASSUME NEW k \in DOMAIN Pipeline(q), NEW l \in DOMAIN Pipeline(q), k < l
      PROVE  Pipeline(q)[k] # Pipeline(q)[l]
  <2>1. Pipeline(q)[k] \in InPipeline(q) /\ Pipeline(q)[k] \in Nat
    BY PositionType DEF InPipeline
  <2>2. rankOf(stage[Pipeline(q)[k]], def) \in Nat
    BY <2>1, RankType
  <2> QED BY <1>4, <2>1, <2>2 DEF SortedAll, SortedIn
<1>5. s # t
  BY <1>1, <1>4
<1>6. t <= s /\ ~Sourced(q) /\ (Origin(stage[s]) => s <= t)
  BY <1>1, <1>2 DEF OriginsFirst
<1>7. Position(q, s) = i /\ Position(q, t) = j /\ i \in Nat /\ j \in Nat
  <2>1. Pipeline(q) \in Seq(StageId)
    BY PipelineType
  <2>2. i \in Nat /\ j \in Nat /\ DOMAIN Pipeline(q) \subseteq Nat
    BY <2>1
  <2> QED BY <1>1, <1>2, <1>4, <2>2, PositionType
<1>8. MovedAcross(q, t, s)
  BY <1>3, <1>5, <1>6, <1>7 DEF MovedAcross, NowBefore
<1> QED BY <1>1, <1>2, <1>3, <1>5, <1>6, <1>8 DEF Excused

(* What a stage leaves of the expression it is applied to. *)
Writes(text, logPhase) ==
    /\ Render(text, logPhase) /\ text \in SUBSET Node /\ logPhase \in BOOLEAN
    /\ written' = written /\ notes \subseteq notes'
    /\ logPhase => Frame1.logPhase
    /\ \A n \in Frame1.text : n \in text \/ \E s : n = StageNode(s) /\ Excused(s)
    /\ \A n \in text : \/ n = StageNode(Here) \/ n \in Frame1.text
                       \/ n = <<"Window", Frame1.q>> /\ Frame1.logPhase
    /\ StageNode(Here) \in text \/ StageNode(Here) \in notes' \/ Bare(Here)
    /\ Args(Here) = {} \/ (stage[Here].type = "Join" /\ StageNode(Here) \in notes')
    /\ offsetWritten => offsetWritten'
    /\ offsetWritten' => offsetWritten \/ <<"Window", Frame1.q>> \in text

(* Writing a stage keeps what is known of the texts. *)
LEMMA WritesStays ==
  ASSUME HeapOK, FramesOK, SortedAll, OriginsFirst, AtStage, Settled, stack' = stack,
         NEW E, Emitting(E), OffsetHeld, TopClear,
         NEW text, NEW logPhase, Writes(text, logPhase)
  PROVE  Emitting(E)' /\ OffsetHeld' /\ TopClear'
<1>1. /\ frames # << >> /\ Frame1.q \in DOMAIN query /\ Frame1.at \in DOMAIN Pipeline(Frame1.q)
      /\ Depth \in Nat \ {0} /\ DOMAIN frames = 1..Depth /\ Frame1 = frames[Depth]
  BY HereType, OuterFrames
<1>2. PICK g : /\ Becomes(g) /\ g.q = Frame1.q /\ g.at = Frame1.at + 1
               /\ g.text = text /\ g.logPhase = logPhase /\ g.operandText = Frame1.operandText
  BY <1>1, RenderBecomes DEF Writes
<1>3. \A n : Holds(n) => Holds(n)' \/ \E s : n = StageNode(s) /\ Excused(s)
  <2> SUFFICES ASSUME NEW n, Holds(n), ~\E s : n = StageNode(s) /\ Excused(s) PROVE Holds(n)'
    OBVIOUS
  <2>1. CASE n \in written
    BY <2>1 DEF Holds, Writes
  <2>2. ASSUME NEW k \in DOMAIN frames, n \in frames[k].text \/ n \in frames[k].operandText
        PROVE  Holds(n)'
    <3>1. CASE k < Depth
      BY <1>1, <1>2, <2>2, <3>1 DEF Holds, Becomes
    <3>2. CASE k = Depth
      <4>1. n \in g.text \/ n \in g.operandText
        BY <1>1, <1>2, <2>2, <3>2 DEF Writes
      <4> QED BY <1>1, <1>2, <4>1 DEF Holds, Becomes
    <3> QED BY <1>1, <3>1, <3>2
  <2> QED BY <2>1, <2>2 DEF Holds
<1>4. NothingLost
  BY <1>3 DEF NothingLost, Writes
<1>5. \A n \in text : Holds(n)'
  BY <1>1, <1>2 DEF Holds, Becomes
<1>6. \A s : s = Here => Over(s, E)'
  <2> SUFFICES ASSUME NEW s, s = Here PROVE Over(s, E)'
    OBVIOUS
  <2>1. Told(s)'
    <3>1. StageNode(s) \in text => Holds(StageNode(s))'
      BY <1>5 DEF StageNode
    <3>2. Bare(s) => Bare(s)'
      BY ExcusesStay
    <3> QED BY <3>1, <3>2 DEF Told, Writes, Noted, StageNode
  <2>2. (Args(s) \subseteq E)' \/ (stage[s].type = "Join" /\ Noted(s))'
    BY ExcusesStay DEF Writes, Noted, StageNode, Settled
  <2> QED BY <2>1, <2>2 DEF Over
<1>7. Underway(Frame1, E)
  BY <1>1 DEF Emitting
<1>8. Spare(g)
  <2> SUFFICES ASSUME NEW i \in DOMAIN Pipeline(g.q), i >= g.at, Origin(stage[Pipeline(g.q)[i]]),
                      NEW n \in text
               PROVE  \E s : n = StageNode(s) /\ Excused(s)
    BY <1>2 DEF Spare
  <2>1. Frame1.at \in Nat /\ i \in Nat /\ Frame1.at < i /\ i \in DOMAIN Pipeline(Frame1.q)
    <3>1. Pipeline(Frame1.q) \in Seq(StageId)
      BY <1>1, PipelineType
    <3>2. DOMAIN Pipeline(Frame1.q) \subseteq Nat
      BY <3>1
    <3> QED BY <1>1, <1>2, <3>2
  <2>2. Excused(Here) /\ ~Sourced(Frame1.q)
    BY <1>1, <1>2, <2>1, AheadOfOrigin DEF Here
  <2>3. CASE n = StageNode(Here)
    BY <2>2, <2>3
  <2>4. CASE n \in Frame1.text
    BY <1>2, <1>7, <2>1, <2>4 DEF Underway, Spare
  <2>5. ~Frame1.logPhase
    BY <1>7, <2>2 DEF Underway
  <2> QED BY <2>3, <2>4, <2>5 DEF Writes
<1>9. Underway(g, E)'
  <2>1. g.logPhase => Sourced(g.q)
    BY <1>2, <1>7 DEF Underway, Writes
  <2>2. Pipeline(g.q)' = Pipeline(g.q)
    BY DEF Settled, Pipeline
  <2>3. ASSUME NEW i \in DOMAIN Pipeline(g.q), i < g.at, NEW s, s = Pipeline(g.q)[i]
        PROVE  Over(s, E)'
    <3>1. i \in Nat /\ Frame1.at \in Nat
      <4>1. Pipeline(g.q) \in Seq(StageId)
        BY <1>1, <1>2, PipelineType
      <4>2. DOMAIN Pipeline(g.q) \subseteq Nat
        BY <4>1
      <4> QED BY <1>1, <1>2, <2>3, <4>2
    <3>2. CASE i = Frame1.at
      BY <1>2, <1>6, <2>3, <3>2 DEF Here
    <3>3. CASE i < Frame1.at
      <4>1. Over(s, E)
        BY <1>2, <1>7, <2>3, <3>3 DEF Underway
      <4> QED BY <1>4, <4>1, OverStays
    <3> QED BY <1>2, <2>3, <3>1, <3>2, <3>3
  <2>4. \A i \in DOMAIN Pipeline(g.q)' : i < g.at => Over(Pipeline(g.q)[i], E)'
    BY <2>2, <2>3
  <2>5. Spare(g)' /\ (g.logPhase => Sourced(g.q)')
    BY <1>8, <2>1, ExcusesStay
  <2> QED BY <2>4, <2>5 DEF Underway
<1>10. ASSUME NEW k \in DOMAIN frames', NEW h, h = frames'[k] PROVE Underway(h, E)'
  <2>1. CASE k = Depth
    BY <1>2, <1>9, <1>10, <2>1 DEF Becomes
  <2>2. CASE k < Depth
    <3>1. k \in DOMAIN frames /\ h = frames[k]
      BY <1>1, <1>2, <1>10, <2>2 DEF Becomes
    <3>2. Underway(h, E)
      BY <3>1 DEF Emitting
    <3> QED BY <1>4, <3>2, UnderwayStays DEF SamePlace
  <2> QED BY <1>1, <1>2, <1>10, <2>1, <2>2 DEF Becomes
<1>11. ASSUME NEW k \in DOMAIN frames', k < Depth, NEW h, h = frames'[k], NEW p, p = frames'[k + 1].q
       PROVE  Expects(h, p, E)'
  <2>1. k \in DOMAIN frames /\ h = frames[k] /\ k + 1 \in DOMAIN frames /\ p = frames[k + 1].q
    <3>1. k \in DOMAIN frames /\ h = frames[k] /\ k + 1 \in DOMAIN frames
      BY <1>1, <1>2, <1>11 DEF Becomes
    <3>2. CASE k + 1 = Depth
      BY <1>1, <1>2, <1>11, <3>1, <3>2 DEF Becomes
    <3>3. CASE k + 1 < Depth
      <4>1. frames'[k + 1] = frames[k + 1]
        BY <1>1, <1>2, <1>11, <3>1, <3>3 DEF Becomes
      <4> QED BY <1>11, <3>1, <4>1
    <3> QED BY <1>1, <1>11, <3>1, <3>2, <3>3
  <2>2. Expects(h, p, E)
    BY <1>11, <2>1 DEF Emitting
  <2> QED BY <2>2, ExpectsStays
<1>12. Finished(E)'
  BY <1>4, FinishedStays DEF Emitting
<1>13. Depth' = Depth /\ frames' # << >> /\ frames'[1].q = Root /\ Root' = Root
  <2>1. Depth' = Depth /\ frames' # << >>
    BY <1>1, <1>2 DEF Becomes, Depth
  <2>2. frames[1].q = Root
    BY <1>1 DEF Emitting
  <2>3. frames'[1].q = Root
    BY <1>1, <1>2, <2>2 DEF Becomes
  <2> QED BY <2>1, <2>3 DEF Root
<1>14. Emitting(E)'
  BY <1>10, <1>11, <1>12, <1>13 DEF Emitting
<1>15. OffsetHeld'
  BY <1>1, <1>4, <1>5, OffsetHeldStays DEF Writes
<1>16. TopClear'
  BY <1>1, <1>2, <1>13 DEF TopClear, Becomes, Writes
<1> QED BY <1>14, <1>15, <1>16

(* Only a join keeps operands of a stage that was refused: operators never are. *)
LEMMA FlaggedHasNoOperands ==
  ASSUME HeapOK, WalkOK, FlagIsWorstVerdict, FittingOK, NEW s \in DOMAIN stage
  PROVE  /\ Flagged(StageNode(s)) => Args(s) = {} \/ stage[s].type = "Join"
         /\ ~HasOperands(stage[s]) => Args(s) = {} \/ stage[s].type = "Join"
<1>1. stage[s] \in StageRecord /\ Shaped(stage[s])
  BY HeapDomains DEF HeapOK
<1>2. stage[s].args = << >> => Args(s) = {}
  BY DEF Args
<1>3. ~HasOperands(stage[s]) => Args(s) = {} \/ stage[s].type = "Join"
  BY <1>1, <1>2 DEF Shaped, StageRecord, HasOperands, IsOperator
<1>4. ASSUME Flagged(StageNode(s)) PROVE ~IsOperator(stage[s])
  <2>1. StageNode(s) \in Node
    BY PresentNodes, PresentAre
  <2>2. PICK v \in issues : v.node = StageNode(s) /\ v.flag = UNSUPPORTED
    BY <1>4, <2>1, FlagsDiffer DEF FlagIsWorstVerdict, Flagged
  <2>3. v.node[1] = "Stage" /\ v.node[2] = s
    BY <2>2 DEF StageNode
  <2>4. Fitting(v)
    BY DEF FittingOK, Known
  <2> QED BY <2>2, <2>3, <2>4 DEF Fitting
<1> QED BY <1>3, <1>4 DEF HasOperands

(* Every way of applying a stage, or of skipping it, writes or notes it. *)
LEMMA StagesWrite ==
  ASSUME HeapOK, FramesOK, WalkOK, FlagIsWorstVerdict, FittingOK, NEW E, Emitting(E),
         SkipFlagged \/ ApplyAggregation \/ ApplyFunction \/ ApplyFilter \/ ApplyBareOperator
  PROVE  AtStage /\ \E text, logPhase : Writes(text, logPhase)
<1>1. AtStage
  BY DEF SkipFlagged, ApplyAggregation, ApplyFunction, ApplyFilter, ApplyBareOperator, Applicable
<1>2. /\ frames # << >> /\ Here \in DOMAIN stage /\ StageNode(Here) \in Node
      /\ <<"Window", Frame1.q>> \in Node
  BY <1>1, HereType
<1>3. Frame1.text \in SUBSET Node /\ Frame1.logPhase \in BOOLEAN
  BY <1>2, FramesSplit DEF FrameRecord
<1>4. Drop => Writes(Frame1.text, Frame1.logPhase)
          \/ ~(Args(Here) = {} \/ stage[Here].type = "Join")
  BY <1>3 DEF Drop, Writes
<1>5. ASSUME Append1(Frame1.logPhase) \/ (Append1(FALSE) /\ ~Frame1.logPhase), Args(Here) = {}
      PROVE  \E text, logPhase : Writes(text, logPhase)
  <2> DEFINE text == Frame1.text \cup {StageNode(Here)}
  <2>1. PICK logPhase \in BOOLEAN : Append1(logPhase) /\ (logPhase => Frame1.logPhase)
    BY <1>3, <1>5
  <2>2. Writes(text, logPhase)
    BY <1>2, <1>3, <1>5, <2>1 DEF Append1, Writes
  <2> QED BY <2>2
<1>6. ASSUME CloseRange, Frame1.logPhase, Args(Here) = {} PROVE \E text, logPhase : Writes(text, logPhase)
  <2> DEFINE offset == query[Frame1.q].offset > 0
             text == Frame1.text \cup {StageNode(Here)} \cup {n \in {<<"Window", Frame1.q>>} : offset}
  <2>1. /\ Render(text, FALSE) /\ offsetWritten' = (offsetWritten \/ offset)
        /\ notes' = notes /\ written' = written
    BY <1>6 DEF CloseRange
  <2>2. text \in SUBSET Node
    BY <1>2, <1>3
  <2>3. offset => <<"Window", Frame1.q>> \in text
    OBVIOUS
  <2>4. \A n \in text : n = StageNode(Here) \/ n \in Frame1.text \/ n = <<"Window", Frame1.q>>
    OBVIOUS
  <2>5. StageNode(Here) \in text /\ Frame1.text \subseteq text
    OBVIOUS
  <2> HIDE DEF text, offset
  <2>6. Writes(text, FALSE)
    BY <1>6, <2>1, <2>2, <2>3, <2>4, <2>5 DEF Writes
  <2> QED BY <2>6
<1>7. stage[Here].type \in {"Aggregation", "Function", "Filter"} => Args(Here) = {}
  BY <1>2 DEF HeapOK, Shaped, Args
<1>8. ASSUME Drop, Args(Here) = {} \/ stage[Here].type = "Join"
      PROVE  \E text, logPhase : Writes(text, logPhase)
  BY <1>4, <1>8
<1>9. CASE SkipFlagged
  BY <1>1, <1>2, <1>8, <1>9, FlaggedHasNoOperands DEF SkipFlagged
<1>10. CASE ApplyAggregation
  <2>1. Args(Here) = {}
    BY <1>7, <1>10 DEF ApplyAggregation, Applicable
  <2>2. Drop \/ (CloseRange /\ Frame1.logPhase) \/ (Append1(FALSE) /\ ~Frame1.logPhase)
    BY <1>10 DEF ApplyAggregation
  <2> QED BY <1>1, <1>5, <1>6, <1>8, <2>1, <2>2
<1>11. CASE ApplyFunction
  <2>1. Args(Here) = {} /\ stage[Here].type = "Function"
    BY <1>7, <1>11 DEF ApplyFunction, Applicable
  <2>2. \/ Drop \/ (CloseRange /\ Frame1.logPhase) \/ (Append1(FALSE) /\ ~Frame1.logPhase)
        \/ Append1(Frame1.logPhase)
        \/ /\ stage[Here].what = "literal" /\ Render({StageNode(Here)}, FALSE)
           /\ UNCHANGED <<offsetWritten, notes, written>>
    BY <1>3, <1>11 DEF ApplyFunction
  <2>3. ASSUME stage[Here].what = "literal", Render({StageNode(Here)}, FALSE),
               UNCHANGED <<offsetWritten, notes, written>>
        PROVE  Writes({StageNode(Here)}, FALSE)
    <3>1. Spare(Frame1)
      BY <1>2, OuterFrames DEF Emitting, Underway
    <3>2. Frame1.at \in DOMAIN Pipeline(Frame1.q) /\ Frame1.at \in Nat
      BY <1>1, <1>2, HereType, FramesSplit DEF FrameRecord
    <3>3. \A n \in Frame1.text : \E s : n = StageNode(s) /\ Excused(s)
      BY <2>3, <3>1, <3>2 DEF Spare, Origin, Here
    <3> QED BY <1>2, <2>1, <2>3, <3>3 DEF Writes
  <2> QED BY <1>1, <1>5, <1>6, <1>8, <2>1, <2>2, <2>3
<1>12. CASE ApplyFilter
  <2>1. Args(Here) = {}
    BY <1>7, <1>12 DEF ApplyFilter, Applicable
  <2>2. CASE Drop
    BY <1>1, <1>8, <2>1, <2>2
  <2>3. CASE Frame1.logPhase
    BY <1>1, <1>5, <1>12, <2>1, <2>3 DEF ApplyFilter
  <2>4. CASE WriteComparison
    <3>1. Writes(Frame1.text \cup {StageNode(Here)}, FALSE)
      BY <1>2, <1>3, <2>1, <2>4 DEF WriteComparison, Writes
    <3> QED BY <1>1, <3>1
  <2> QED BY <1>12, <2>2, <2>3, <2>4 DEF ApplyFilter
<1>13. CASE ApplyBareOperator
  <2>1. /\ Bare(Here) /\ stage[Here].type = "BinaryOp" /\ ~HasOperands(stage[Here])
        /\ Render(Frame1.text, Frame1.logPhase) /\ UNCHANGED <<offsetWritten, notes, written>>
    BY <1>13 DEF ApplyBareOperator, Applicable, Bare
  <2>2. Args(Here) = {}
    BY <1>2, <2>1, FlaggedHasNoOperands
  <2>3. Writes(Frame1.text, Frame1.logPhase)
    BY <1>3, <2>1, <2>2 DEF Writes
  <2> QED BY <1>1, <2>3
<1> QED BY <1>1, <1>9, <1>10, <1>11, <1>12, <1>13
-----------------------------------------------------------------------------
(* Operands. *)

(* A call begins with nothing behind it. *)
LEMMA CallsBeginUnderway ==
  ASSUME HeapOK, OriginsFirst, NEW p \in DOMAIN query, NEW g, g = Frame(p), NEW E
  PROVE  Underway(g, E) /\ g.q = p /\ g.operandText = {}
<1>1. /\ g.q = p /\ g.at = 1 /\ g.operandText = {} /\ (g.logPhase <=> Sourced(p))
      /\ ~Sourced(p) => g.text = {}
  BY DEF Frame, Sourced
<1>2. Spare(g)
  <2> SUFFICES ASSUME NEW i \in DOMAIN Pipeline(p), Origin(stage[Pipeline(p)[i]]) PROVE g.text = {}
    BY <1>1 DEF Spare
  <2>1. Pipeline(p)[i] \in InPipeline(p)
    BY DEF InPipeline
  <2> QED BY <1>1, <2>1 DEF OriginsFirst
<1>3. \A i \in DOMAIN Pipeline(p) : ~(i < 1)
  <2>1. Pipeline(p) \in Seq(StageId)
    BY PipelineType
  <2> QED BY <2>1
<1> QED BY <1>1, <1>2, <1>3 DEF Underway

(* A call that has come to the end is done with every stage. *)
LEMMA EndIsReached ==
  ASSUME HeapOK, FramesOK, frames # << >>, ~AtStage, NEW E, Emitting(E)
  PROVE  /\ Frame1.q \in DOMAIN query
         /\ \A i \in DOMAIN Pipeline(Frame1.q) : Over(Pipeline(Frame1.q)[i], E)
<1>1. Frame1.q \in DOMAIN query /\ Frame1.at \in Nat
  BY FramesSplit DEF Placed, FrameRecord
<1>2. Pipeline(Frame1.q) \in Seq(StageId)
  BY <1>1, PipelineType
<1>3. Len(Pipeline(Frame1.q)) < Frame1.at
  BY <1>1, <1>2 DEF AtStage
<1>4. \A i \in DOMAIN Pipeline(Frame1.q) : i < Frame1.at
  BY <1>1, <1>2, <1>3
<1>5. Underway(Frame1, E)
  BY OuterFrames DEF Emitting
<1> QED BY <1>1, <1>4, <1>5 DEF Underway

(* Beginning on the operands of an operator keeps what is known of the texts. *)
LEMMA OperatorEmits ==
  ASSUME HeapOK, FramesOK, OriginsFirst, Settled, stack' = stack, NEW E, Emitting(E), OffsetHeld,
         TopClear, ApplyOperator
  PROVE  Emitting(E)' /\ OffsetHeld' /\ TopClear'
<1>1. /\ AtStage /\ UNCHANGED <<offsetWritten, written>>
      /\ frames # << >> /\ Frame1.q \in DOMAIN query
      /\ Depth \in Nat \ {0} /\ DOMAIN frames = 1..Depth /\ Frame1 = frames[Depth]
  BY OperatorCalls, HereType, OuterFrames
<1>2. PICK f, p : /\ p \in DOMAIN query /\ Calls(f, Frame(p)) /\ SamePlace(Frame1, f)
                  /\ f.operandText = Frame1.operandText /\ Args(Here) = {p} \cup Queued(f.operands)
                  /\ notes' = notes \cup EntryNotes(p)
  BY OperatorCalls
<1>3. PICK g : g = Frame(p)
  OBVIOUS
<1>4. \A n : Holds(n) => Holds(n)'
  <2> SUFFICES ASSUME NEW n, Holds(n) PROVE Holds(n)'
    OBVIOUS
  <2>1. CASE n \in written
    BY <1>1, <2>1 DEF Holds
  <2>2. ASSUME NEW k \in DOMAIN frames, n \in frames[k].text \/ n \in frames[k].operandText
        PROVE  Holds(n)'
    <3>1. k \in DOMAIN frames'
      BY <1>1, <1>2, <2>2 DEF Calls
    <3>2. CASE k < Depth
      BY <1>1, <1>2, <2>2, <3>1, <3>2 DEF Holds, Calls
    <3>3. CASE k = Depth
      BY <1>1, <1>2, <2>2, <3>1, <3>3 DEF Holds, Calls, SamePlace
    <3> QED BY <1>1, <3>2, <3>3
  <2> QED BY <2>1, <2>2 DEF Holds
<1>5. NothingLost
  BY <1>1, <1>2, <1>4 DEF NothingLost
<1>6. Underway(g, E)' /\ g.q = p /\ g.operandText = {}
  <2>1. Underway(g, E) /\ g.q = p /\ g.operandText = {}
    BY <1>2, <1>3, CallsBeginUnderway
  <2> QED BY <1>5, <2>1, UnderwayStays DEF SamePlace
<1>7. Underway(f, E)'
  <2>1. Underway(Frame1, E)
    BY <1>1 DEF Emitting
  <2> QED BY <1>2, <1>5, <2>1, UnderwayStays
<1>8. ASSUME NEW k \in DOMAIN frames', NEW h, h = frames'[k] PROVE Underway(h, E)'
  <2>1. CASE k = Depth + 1
    BY <1>2, <1>3, <1>6, <1>8, <2>1 DEF Calls
  <2>2. CASE k = Depth
    BY <1>2, <1>7, <1>8, <2>2 DEF Calls
  <2>3. CASE k < Depth
    <3>1. k \in DOMAIN frames /\ h = frames[k]
      BY <1>1, <1>2, <1>8, <2>3 DEF Calls
    <3>2. Underway(h, E)
      BY <3>1 DEF Emitting
    <3> QED BY <1>5, <3>2, UnderwayStays DEF SamePlace
  <2> QED BY <1>1, <1>2, <1>8, <2>1, <2>2, <2>3 DEF Calls
<1>9. ASSUME NEW k \in DOMAIN frames', k < Depth + 1, NEW h, h = frames'[k], NEW r, r = frames'[k + 1].q
      PROVE  Expects(h, r, E)'
  <2>1. CASE k = Depth
    <3>1. h = f /\ r = p
      BY <1>2, <1>3, <1>6, <1>9, <2>1 DEF Calls
    <3>2. Expects(f, p, E)
      BY <1>2 DEF Expects, SamePlace, Here
    <3> QED BY <3>1, <3>2, ExpectsStays
  <2>2. CASE k < Depth
    <3>1. k \in DOMAIN frames /\ h = frames[k] /\ k + 1 \in DOMAIN frames
      BY <1>1, <1>2, <1>9, <2>2 DEF Calls
    <3>2. r = frames[k + 1].q
      <4>1. CASE k + 1 = Depth
        BY <1>1, <1>2, <1>9, <4>1 DEF Calls, SamePlace
      <4>2. CASE k + 1 < Depth
        <5>1. frames'[k + 1] = frames[k + 1]
          BY <1>1, <1>2, <3>1, <4>2 DEF Calls
        <5> QED BY <1>9, <5>1
      <4> QED BY <1>1, <2>2, <3>1, <4>1, <4>2
    <3>3. Expects(h, r, E)
      BY <2>2, <3>1, <3>2 DEF Emitting
    <3> QED BY <3>3, ExpectsStays
  <2> QED BY <1>1, <1>2, <1>9, <2>1, <2>2 DEF Calls
<1>10. Finished(E)'
  BY <1>5, FinishedStays DEF Emitting
<1>11. Depth' = Depth + 1 /\ frames' # << >> /\ frames'[1].q = Root /\ Root' = Root
  <2>1. Depth' = Depth + 1 /\ frames' # << >>
    BY <1>1, <1>2 DEF Calls, Depth
  <2>2. frames[1].q = Root
    BY <1>1 DEF Emitting
  <2>3. frames'[1].q = Root
    BY <1>1, <1>2, <2>2 DEF Calls, SamePlace
  <2> QED BY <2>1, <2>3 DEF Root
<1>12. Emitting(E)'
  BY <1>8, <1>9, <1>10, <1>11 DEF Emitting
<1>13. OffsetHeld'
  BY <1>1, <1>5, OffsetHeldStays
<1>14. TopClear'
  BY <1>1, <1>2, <1>3, <1>6, <1>11 DEF TopClear, Calls
<1> QED BY <1>12, <1>13, <1>14

(* The operand's query is done with, and its operator waits for one fewer. *)
LEMMA ReturnEmits ==
  ASSUME HeapOK, FramesOK, SortedAll, OriginsFirst, Awaiting, Settled, stack' = stack,
         NEW E \in SUBSET DOMAIN query, Emitting(E), OffsetHeld, TopClear, ReturnOperand
  PROVE  (\E F \in SUBSET DOMAIN query : Emitting(F)') /\ OffsetHeld' /\ TopClear'
<1>1. PICK c : c = frames[Depth - 1]
  OBVIOUS
<1>2. /\ Depth > 1 /\ Depth \in Nat /\ ~AtStage /\ UNCHANGED <<offsetWritten, written>>
      /\ notes \subseteq notes' /\ Dropped(Frame1.q) \subseteq notes'
  BY <1>1, OperandReturns
<1>3. /\ frames # << >> /\ DOMAIN frames = 1..Depth /\ Frame1 = frames[Depth]
      /\ Frame1.operandText = {} /\ Depth - 1 \in DOMAIN frames
  <2>1. frames # << >>
    BY <1>2 DEF ReturnOperand, FramesOK, Depth
  <2>2. DOMAIN frames = 1..Depth /\ Frame1 = frames[Depth]
    BY <2>1, OuterFrames
  <2>3. Depth - 1 \in 1..Depth
    BY <1>2
  <2> QED BY <2>1, <2>2, <2>3 DEF TopClear
<1>4. PICK F : F = E \cup {Frame1.q}
  OBVIOUS
<1>5. /\ Frame1.q \in DOMAIN query /\ F \in SUBSET DOMAIN query
      /\ \A i \in DOMAIN Pipeline(Frame1.q) : Over(Pipeline(Frame1.q)[i], E)
  BY <1>2, <1>3, <1>4, EndIsReached
<1>6. Underway(c, E) /\ Expects(c, Frame1.q, E) /\ Waits(c)
  <2>1. Depth - 1 < Depth /\ Depth - 1 + 1 = Depth
    BY <1>2
  <2> QED BY <1>1, <1>3, <2>1 DEF Emitting, Awaiting
<1>7. c.q \in DOMAIN query /\ c.at \in DOMAIN Pipeline(c.q) /\ c.at \in Nat
  <2>1. Depth - 1 < Depth
    BY <1>2
  <2>2. c.q \in DOMAIN query /\ c.at >= 1 /\ c.at <= Len(Pipeline(c.q)) /\ c.at \in Nat
    <3>1. c \in FrameRecord
      <4>1. frames \in Seq(FrameRecord)
        BY DEF FramesOK
      <4>2. \A k \in DOMAIN frames : frames[k] \in FrameRecord
        BY <4>1
      <4> QED BY <1>1, <1>3, <4>2
    <3>2. Placed(c, Depth - 1 < Depth)
      BY <1>1, <1>3 DEF FramesOK, Depth
    <3> QED BY <2>1, <3>1, <3>2 DEF Placed, FrameRecord
  <2>3. Pipeline(c.q) \in Seq(StageId)
    BY <2>2, PipelineType
  <2> QED BY <2>2, <2>3
<1>9. ASSUME NothingLost PROVE Finished(F)'
  <2>1. \A q \in F \ E : OffsetTold(q)' /\ \A i \in DOMAIN Pipeline(q) : Over(Pipeline(q)[i], E)
    <3>1. \A q \in F \ E : q = Frame1.q
      BY <1>4
    <3>2. PICK r : r = Frame1.q
      OBVIOUS
    <3>3. OffsetTold(r)'
      BY <1>2, <1>5, <3>2 DEF OffsetTold, Dropped, Settled
    <3>4. \A i \in DOMAIN Pipeline(r) : Over(Pipeline(r)[i], E)
      BY <1>5, <3>2
    <3> QED BY <3>1, <3>2, <3>3, <3>4
  <2> QED BY <1>4, <1>9, <2>1, FinishedStays DEF Emitting
<1>10. ASSUME NothingLost PROVE OffsetHeld'
  BY <1>2, <1>10, OffsetHeldStays
<1>11. E \subseteq F /\ \A q : q = Frame1.q => q \in F
  BY <1>4
<1>12. frames[1].q = Root /\ Root' = Root
  BY <1>3 DEF Emitting, Root
<1>20. ASSUME NEW f, NEW p, p \in DOMAIN query, Turns(f, Frame(p)), SamePlace(c, f),
              f.operandText = c.operandText \cup Frame1.text,
              Queued(c.operands) = {p} \cup Queued(f.operands)
       PROVE  Emitting(F)' /\ OffsetHeld' /\ TopClear'
  <2>1. PICK g : g = Frame(p)
    OBVIOUS
  <2>2. \A n : Holds(n) => Holds(n)'
    <3> SUFFICES ASSUME NEW n, Holds(n) PROVE Holds(n)'
      OBVIOUS
    <3>0. DOMAIN frames' = 1..Depth /\ frames'[Depth - 1] = f
      BY <1>20 DEF Turns
    <3>1. CASE n \in written
      BY <1>2, <3>1 DEF Holds
    <3>2. ASSUME NEW k \in DOMAIN frames, n \in frames[k].text \/ n \in frames[k].operandText
          PROVE  Holds(n)'
      <4>1. CASE k < Depth - 1
        <5>1. frames'[k] = frames[k] /\ k \in DOMAIN frames'
          BY <1>2, <1>3, <1>20, <3>0, <4>1 DEF Turns
        <5> QED BY <3>2, <5>1 DEF Holds
      <4>2. CASE k = Depth - 1
        BY <1>1, <1>3, <1>20, <3>0, <3>2, <4>2 DEF Holds, SamePlace
      <4>3. CASE k = Depth
        BY <1>3, <1>20, <3>0, <3>2, <4>3 DEF Holds
      <4> QED BY <1>2, <1>3, <4>1, <4>2, <4>3
    <3> QED BY <3>1, <3>2 DEF Holds
  <2>3. NothingLost
    BY <1>2, <2>2 DEF NothingLost
  <2>4. Underway(g, F)' /\ g.q = p /\ g.operandText = {}
    <3>1. Underway(g, F) /\ g.q = p /\ g.operandText = {}
      BY <1>20, <2>1, CallsBeginUnderway
    <3> QED BY <2>3, <3>1, UnderwayStays DEF SamePlace
  <2>5. Underway(f, F)'
    BY <1>6, <1>11, <1>20, <2>3, UnderwayStays
  <2>6. ASSUME NEW k \in DOMAIN frames', NEW h, h = frames'[k] PROVE Underway(h, F)'
    <3>1. CASE k = Depth
      BY <1>20, <2>1, <2>4, <2>6, <3>1 DEF Turns
    <3>2. CASE k = Depth - 1
      BY <1>20, <2>5, <2>6, <3>2 DEF Turns
    <3>3. CASE k < Depth - 1
      <4>1. k \in DOMAIN frames /\ h = frames[k]
        BY <1>2, <1>3, <1>20, <2>6, <3>3 DEF Turns
      <4>2. Underway(h, E)
        BY <4>1 DEF Emitting
      <4> QED BY <1>11, <2>3, <4>2, UnderwayStays DEF SamePlace
    <3> QED BY <1>2, <1>20, <2>6, <3>1, <3>2, <3>3 DEF Turns
  <2>7. ASSUME NEW k \in DOMAIN frames', k < Depth, NEW h, h = frames'[k], NEW r, r = frames'[k + 1].q
        PROVE  Expects(h, r, F)'
    <3>1. CASE k = Depth - 1
      <4>1. h = f /\ r = p
        BY <1>2, <1>20, <2>1, <2>4, <2>7, <3>1 DEF Turns
      <4>2. Expects(f, p, F)
        BY <1>6, <1>11, <1>20 DEF Expects, SamePlace
      <4> QED BY <4>1, <4>2, ExpectsStays
    <3>2. CASE k < Depth - 1
      <4>1. k \in DOMAIN frames /\ h = frames[k] /\ k + 1 \in DOMAIN frames /\ k \in Nat
        BY <1>2, <1>3, <1>20, <2>7, <3>2 DEF Turns
      <4>2. r = frames[k + 1].q
        <5>1. CASE k + 1 = Depth - 1
          BY <1>1, <1>20, <2>7, <5>1 DEF Turns, SamePlace
        <5>2. CASE k + 1 < Depth - 1
          <6>1. frames'[k + 1] = frames[k + 1]
            BY <1>2, <1>20, <4>1, <5>2 DEF Turns
          <6> QED BY <2>7, <6>1
        <5> QED BY <1>2, <3>2, <4>1, <5>1, <5>2
      <4>3. Expects(h, r, E)
        BY <2>7, <4>1, <4>2 DEF Emitting
      <4> QED BY <1>11, <4>3, ExpectsStays
    <3> QED BY <1>2, <1>20, <2>7, <3>1, <3>2 DEF Turns
  <2>8. Depth' = Depth /\ frames' # << >> /\ frames'[1].q = Root
    <3>1. Depth' = Depth /\ frames' # << >>
      BY <1>2, <1>20 DEF Turns, Depth
    <3>2. frames'[1].q = Root
      BY <1>1, <1>2, <1>12, <1>20 DEF Turns, SamePlace
    <3> QED BY <3>1, <3>2
  <2>9. Emitting(F)'
    BY <1>9, <1>12, <2>3, <2>6, <2>7, <2>8 DEF Emitting
  <2>10. TopClear'
    BY <1>2, <1>3, <1>20, <2>1, <2>4, <2>8 DEF TopClear, Turns
  <2> QED BY <1>10, <2>3, <2>9, <2>10
<1>30. ASSUME NEW g, Returns(g), c.operands = << >>, g.q = c.q, g.at = c.at + 1, g.logPhase = FALSE,
              g.text = c.operandText \cup Frame1.text \cup {StageNode(Pipeline(c.q)[c.at])},
              g.operandText = {}
       PROVE  Emitting(F)' /\ OffsetHeld' /\ TopClear'
  <2>0. PICK s : s = Pipeline(c.q)[c.at]
    OBVIOUS
  <2>1. /\ HasOperands(stage[s]) /\ Args(s) \subseteq F /\ StageNode(s) \in g.text
        /\ Depth - 1 \in Nat /\ DOMAIN frames' = 1..(Depth - 1) /\ frames'[Depth - 1] = g
    BY <1>2, <1>4, <1>6, <1>30, <2>0 DEF Expects, Waits, Queued, Returns
  <2>2. \A n \in c.text : \E r : n = StageNode(r) /\ Excused(r)
    BY <1>6, <1>7, <2>0, <2>1 DEF Underway, Spare, Origin
  <2>3. \A n : Holds(n) => Holds(n)' \/ \E r : n = StageNode(r) /\ Excused(r)
    <3> SUFFICES ASSUME NEW n, Holds(n), ~\E r : n = StageNode(r) /\ Excused(r) PROVE Holds(n)'
      OBVIOUS
    <3>1. CASE n \in written
      BY <1>2, <3>1 DEF Holds
    <3>2. ASSUME NEW k \in DOMAIN frames, n \in frames[k].text \/ n \in frames[k].operandText
          PROVE  Holds(n)'
      <4>1. CASE k < Depth - 1
        <5>1. frames'[k] = frames[k] /\ k \in DOMAIN frames'
          BY <1>2, <1>3, <1>30, <2>1, <4>1 DEF Returns
        <5> QED BY <3>2, <5>1 DEF Holds
      <4>2. CASE k = Depth - 1 \/ k = Depth
        <5>1. n \in g.text
          BY <1>1, <1>3, <1>30, <2>2, <3>2, <4>2
        <5>2. Depth - 1 \in DOMAIN frames'
          BY <1>2, <2>1
        <5> QED BY <2>1, <5>1, <5>2 DEF Holds
      <4> QED BY <1>2, <1>3, <4>1, <4>2
    <3> QED BY <3>1, <3>2 DEF Holds
  <2>4. NothingLost
    BY <1>2, <2>3 DEF NothingLost
  <2>5. Over(s, F)'
    <3>1. Holds(StageNode(s))'
      <4>1. Depth - 1 \in DOMAIN frames'
        BY <1>2, <2>1
      <4>2. PICK n : n = StageNode(s)
        OBVIOUS
      <4>3. Holds(n)'
        BY <2>1, <4>1, <4>2 DEF Holds
      <4> QED BY <4>2, <4>3 DEF StageNode
    <3>2. (Args(s) \subseteq F)'
      BY <2>1, ExcusesStay
    <3> QED BY <3>1, <3>2 DEF Over, Told
  <2>6. Underway(g, F)'
    <3>1. Spare(g)
      <4> SUFFICES ASSUME NEW i \in DOMAIN Pipeline(c.q), i >= c.at + 1, Origin(stage[Pipeline(c.q)[i]])
                   PROVE  FALSE
        BY <1>30 DEF Spare
      <4>1. c.at < i
        <5>1. Pipeline(c.q) \in Seq(StageId)
          BY <1>7, PipelineType
        <5>2. i \in Nat
          BY <5>1
        <5> QED BY <1>7, <5>2
      <4>2. ~Origin(stage[s])
        BY <1>7, <2>0, <4>1, AheadOfOrigin
      <4> QED BY <2>1, <4>2 DEF Origin
    <3>2. Spare(g)'
      BY <3>1, ExcusesStay
    <3>3. Pipeline(g.q)' = Pipeline(g.q)
      BY DEF Settled, Pipeline
    <3>4. ASSUME NEW i \in DOMAIN Pipeline(g.q), i < g.at, NEW r, r = Pipeline(g.q)[i]
          PROVE  Over(r, F)'
      <4>1. i \in Nat
        <5>1. Pipeline(c.q) \in Seq(StageId)
          BY <1>7, PipelineType
        <5> QED BY <1>30, <3>4, <5>1
      <4>2. CASE i = c.at
        BY <1>30, <2>0, <2>5, <3>4, <4>2
      <4>3. CASE i < c.at
        <5>1. Over(r, E)
          BY <1>6, <1>30, <3>4, <4>3 DEF Underway
        <5> QED BY <1>11, <2>4, <5>1, OverStays
      <4> QED BY <1>7, <1>30, <3>4, <4>1, <4>2, <4>3
    <3>5. \A i \in DOMAIN Pipeline(g.q)' : i < g.at => Over(Pipeline(g.q)[i], F)'
      BY <3>3, <3>4
    <3> QED BY <1>30, <3>2, <3>5 DEF Underway
  <2>7. ASSUME NEW k \in DOMAIN frames', NEW h, h = frames'[k] PROVE Underway(h, F)'
    <3>1. CASE k = Depth - 1
      BY <2>1, <2>6, <2>7, <3>1
    <3>2. CASE k < Depth - 1
      <4>1. k \in DOMAIN frames /\ h = frames[k]
        BY <1>2, <1>3, <1>30, <2>1, <2>7, <3>2 DEF Returns
      <4>2. Underway(h, E)
        BY <4>1 DEF Emitting
      <4> QED BY <1>11, <2>4, <4>2, UnderwayStays DEF SamePlace
    <3> QED BY <1>2, <2>1, <2>7, <3>1, <3>2
  <2>8. ASSUME NEW k \in DOMAIN frames', k < Depth - 1, NEW h, h = frames'[k],
               NEW r, r = frames'[k + 1].q
        PROVE  Expects(h, r, F)'
    <3>1. /\ k \in DOMAIN frames /\ h = frames[k] /\ k + 1 \in DOMAIN frames /\ k \in Nat
      BY <1>2, <1>3, <1>30, <2>1, <2>8 DEF Returns
    <3>2. r = frames[k + 1].q
      <4>1. CASE k + 1 = Depth - 1
        BY <1>1, <1>30, <2>1, <2>8, <4>1
      <4>2. CASE k + 1 < Depth - 1
        <5>1. frames'[k + 1] = frames[k + 1]
          BY <1>2, <1>30, <3>1, <4>2 DEF Returns
        <5> QED BY <2>8, <5>1
      <4> QED BY <1>2, <2>8, <3>1, <4>1, <4>2
    <3>3. k < Depth
      BY <1>2, <2>8, <3>1
    <3>4. Expects(h, r, E)
      BY <3>1, <3>2, <3>3 DEF Emitting
    <3> QED BY <1>11, <3>4, ExpectsStays
  <2>9. Depth' = Depth - 1 /\ frames' # << >> /\ frames'[1].q = Root
    <3>1. Depth' = Depth - 1 /\ frames' # << >>
      BY <1>2, <1>30, <2>1 DEF Returns, Depth
    <3>2. frames'[1].q = Root
      <4>1. CASE Depth - 1 = 1
        BY <1>1, <1>12, <1>30, <2>1, <4>1
      <4>2. CASE Depth - 1 # 1
        <5>1. frames'[1] = frames[1]
          BY <1>2, <1>30, <4>2 DEF Returns
        <5> QED BY <1>12, <5>1
      <4> QED BY <4>1, <4>2
    <3> QED BY <3>1, <3>2
  <2>10. Emitting(F)'
    BY <1>9, <1>12, <2>4, <2>7, <2>8, <2>9 DEF Emitting
  <2>11. TopClear'
    BY <1>2, <1>3, <1>30, <2>1, <2>9 DEF TopClear
  <2> QED BY <1>10, <2>4, <2>10, <2>11
<1> QED
  <2>1. \/ \E f, p : /\ p \in DOMAIN query /\ Turns(f, Frame(p)) /\ SamePlace(c, f)
                     /\ f.operandText = c.operandText \cup Frame1.text
                     /\ Queued(c.operands) = {p} \cup Queued(f.operands)
                     /\ notes' = notes \cup Dropped(Frame1.q) \cup EntryNotes(p)
        \/ \E g : /\ Returns(g) /\ c.operands = << >>
                  /\ g.q = c.q /\ g.at = c.at + 1 /\ g.logPhase = FALSE
                  /\ g.text = c.operandText \cup Frame1.text \cup {StageNode(Pipeline(c.q)[c.at])}
                  /\ g.operandText = {} /\ notes' = notes \cup Dropped(Frame1.q)
    BY <1>1, OperandReturns
  <2>2. F \in SUBSET DOMAIN query' /\ F \in SUBSET DOMAIN query
    BY <1>5 DEF Settled
  <2>3. Emitting(F)' /\ OffsetHeld' /\ TopClear'
    BY <2>1, <1>20, <1>30
  <2> QED BY <2>2, <2>3

(* The outermost query is done with. *)
LEMMA FinishEmits ==
  ASSUME HeapOK, FramesOK, Settled, stack' = stack,
         NEW E \in SUBSET DOMAIN query, Emitting(E), OffsetHeld, TopClear, FinishEmission
  PROVE  (\E F \in SUBSET DOMAIN query : Emitting(F)') /\ OffsetHeld' /\ TopClear'
<1>1. /\ Len(frames) = 1 /\ ~AtStage /\ frames' = << >> /\ written' = Frame1.text
      /\ offsetWritten' = offsetWritten /\ notes \subseteq notes' /\ Dropped(Frame1.q) \subseteq notes'
  BY DEF FinishEmission, Dropped
<1>2. /\ frames # << >> /\ Depth = 1 /\ DOMAIN frames = {1} /\ Frame1 = frames[1]
      /\ Frame1.operandText = {} /\ written = {} /\ Frame1.q = Root /\ Root' = Root
  <2>1. frames # << >> /\ Depth = 1
    BY <1>1 DEF Depth
  <2>2. DOMAIN frames = 1..1 /\ Frame1 = frames[1]
    BY <2>1, OuterFrames
  <2> QED BY <2>1, <2>2 DEF TopClear, Emitting, Root
<1>3. PICK F : F = E \cup {Frame1.q}
  OBVIOUS
<1>4. /\ Frame1.q \in DOMAIN query /\ F \in SUBSET DOMAIN query /\ E \subseteq F /\ Root \in F
      /\ \A i \in DOMAIN Pipeline(Frame1.q) : Over(Pipeline(Frame1.q)[i], E)
  BY <1>1, <1>2, <1>3, EndIsReached
<1>5. NothingLost
  BY <1>1, <1>2 DEF NothingLost, Holds
<1>6. Finished(F)'
  <2>1. \A q \in F \ E : OffsetTold(q)' /\ \A i \in DOMAIN Pipeline(q) : Over(Pipeline(q)[i], E)
    <3>1. \A q \in F \ E : q = Frame1.q
      BY <1>3
    <3>2. PICK r : r = Frame1.q
      OBVIOUS
    <3>3. OffsetTold(r)'
      BY <1>1, <1>4, <3>2 DEF OffsetTold, Dropped, Settled
    <3>4. \A i \in DOMAIN Pipeline(r) : Over(Pipeline(r)[i], E)
      BY <1>4, <3>2
    <3> QED BY <3>1, <3>2, <3>3, <3>4
  <2> QED BY <1>4, <1>5, <2>1, FinishedStays DEF Emitting
<1>7. Emitting(F)'
  BY <1>1, <1>2, <1>4, <1>6 DEF Emitting
<1>8. OffsetHeld' /\ TopClear'
  BY <1>1, <1>5, OffsetHeldStays DEF TopClear
<1> QED BY <1>4, <1>7, <1>8
-----------------------------------------------------------------------------
(* The invariant of emission, and what it gives. *)

(* What no step of the emitter touches stays accounted for. *)
LEMMA EmittingIdle ==
  ASSUME Settled, UNCHANGED <<stack, frames, offsetWritten, notes, written>>, NEW E, Emitting(E)
  PROVE  Emitting(E)'
<1>1. NothingLost
  BY DEF NothingLost, Holds
<1>2. Finished(E)'
  BY <1>1, FinishedStays DEF Emitting
<1>3. ASSUME NEW k \in DOMAIN frames, NEW h, h = frames[k] PROVE Underway(h, E)'
  <2>1. Underway(h, E)
    BY <1>3 DEF Emitting
  <2> QED BY <1>1, <2>1, UnderwayStays DEF SamePlace
<1>4. ASSUME NEW k \in DOMAIN frames, k < Depth, NEW h, h = frames[k], NEW r, r = frames[k + 1].q
      PROVE  Expects(h, r, E)'
  <2>1. Expects(h, r, E)
    BY <1>4 DEF Emitting
  <2> QED BY <2>1, ExpectsStays
<1>5. IF frames = << >> THEN Root \in E ELSE frames[1].q = Root
  BY DEF Emitting
<1>6. Root' = Root /\ Depth' = Depth
  BY DEF Root, Depth
<1> QED BY <1>2, <1>3, <1>4, <1>5, <1>6 DEF Emitting

(* What is known of the texts is kept in every step of a translation. *)
LEMMA EmissionSteps ==
  Refused /\ EmissionOK /\ [Next]_vars => EmissionOK'
<1> SUFFICES ASSUME Refused, EmissionOK, [Next]_vars PROVE EmissionOK'
  OBVIOUS
<1>0. /\ HeapOK /\ FramesOK /\ WalkOK /\ PhaseOK /\ StackOK /\ OriginsFirst /\ FittingOK
      /\ FlagIsWorstVerdict /\ Awaiting /\ Unwritten /\ SortOK
  BY DEF Refused, Refusing, Typed, ShapesOK, RefusalOK
<1>1. CASE Resolve \/ Fail \/ BeginValidation \/ Validate
  <2>1. /\ pc \in {"resolving", "validating"} /\ pc' \in {"resolving", "validating", "failed"}
        /\ UNCHANGED <<frames, offsetWritten, written>>
    BY <1>1 DEF Resolve, Fail, BeginValidation, Validate, emitterVars
  <2>2. frames = << >> /\ offsetWritten = FALSE
    BY <1>0, <2>1 DEF PhaseOK, Unwritten
  <2> QED BY <2>1, <2>2 DEF EmissionOK, OffsetHeld, TopClear, PastValidation
<1>2. CASE BeginEmission
  <2>1. /\ pc = "validating" /\ frames' = <<Frame(Root)>> /\ UNCHANGED <<offsetWritten, written>>
        /\ notes' = notes \cup EntryNotes(Root) /\ Settled /\ stack' = stack
    BY <1>2 DEF BeginEmission, StartEmission, resolverVars, heap, validatorVars, Settled
  <2>2. frames = << >> /\ offsetWritten = FALSE /\ written = {}
    BY <1>0, <2>1 DEF PhaseOK, Unwritten
  <2>3. Root \in DOMAIN query
    <3>1. 1 \in DOMAIN stack
      BY <1>0, <2>1 DEF PhaseOK, StackOK
    <3> QED BY <1>0, <3>1 DEF StackOK, Root
  <2>4. NothingLost
    BY <2>1, <2>2 DEF NothingLost, Holds
  <2>5. PICK g, root : g = Frame(Root) /\ root = Root
    OBVIOUS
  <2>6. Underway(g, {}) /\ g.q = root /\ g.operandText = {}
    BY <1>0, <2>3, <2>5, CallsBeginUnderway
  <2>7. Underway(g, {})'
    BY <2>1, <2>4, <2>6, UnderwayStays DEF SamePlace
  <2>8. frames' = <<g>> /\ Root' = root
    BY <2>1, <2>5 DEF Root
  <2>9. Emitting({})'
    BY <2>6, <2>7, <2>8 DEF Emitting, Finished, Depth
  <2>10. TopClear'
    BY <2>1, <2>2, <2>6, <2>8 DEF TopClear, Depth
  <2> QED BY <2>1, <2>2, <2>9, <2>10 DEF EmissionOK, OffsetHeld
<1>3. CASE Emit
  <2>1. /\ pc = "emitting" /\ EmitterNext /\ Settled /\ stack' = stack
    BY <1>3 DEF Emit, resolverVars, heap, validatorVars, Settled
  <2>2. PICK E \in SUBSET DOMAIN query : Emitting(E)
    BY <2>1 DEF EmissionOK, PastValidation
  <2>3. OffsetHeld /\ TopClear /\ SortedAll
    BY <1>0, <2>1 DEF EmissionOK, SortOK, PastValidation, SortedAll
  <2>4. (\E F \in SUBSET DOMAIN query : Emitting(F)') /\ OffsetHeld' /\ TopClear'
    <3>1. CASE SkipFlagged \/ ApplyAggregation \/ ApplyFunction \/ ApplyFilter \/ ApplyBareOperator
      <4>1. AtStage /\ \E text, logPhase : Writes(text, logPhase)
        BY <1>0, <2>2, <3>1, StagesWrite
      <4>2. Emitting(E)' /\ OffsetHeld' /\ TopClear'
        BY <1>0, <2>1, <2>2, <2>3, <4>1, WritesStays
      <4> QED BY <4>2
    <3>2. CASE ApplyOperator
      <4>1. Emitting(E)' /\ OffsetHeld' /\ TopClear'
        BY <1>0, <2>1, <2>2, <2>3, <3>2, OperatorEmits
      <4> QED BY <4>1
    <3>3. CASE ReturnOperand
      BY <1>0, <2>1, <2>2, <2>3, <3>3, ReturnEmits
    <3>4. CASE FinishEmission
      BY <1>0, <2>1, <2>2, <2>3, <3>4, FinishEmits
    <3> QED BY <2>1, <3>1, <3>2, <3>3, <3>4 DEF EmitterNext
  <2>5. DOMAIN query' = DOMAIN query
    BY <2>1 DEF Settled
  <2> QED BY <2>4, <2>5 DEF EmissionOK
<1>4. CASE GenerateReport \/ Returned \/ UNCHANGED vars
  <2>1. /\ Settled /\ UNCHANGED <<stack, frames, offsetWritten, notes, written>>
        /\ PastValidation' => PastValidation
    BY <1>4 DEF GenerateReport, Returned, vars, resolverVars, heap, validatorVars, emitterVars, Settled,
                PastValidation
  <2>2. \A E : Emitting(E) => Emitting(E)'
    BY <2>1, EmittingIdle
  <2>3. DOMAIN query' = DOMAIN query
    BY <2>1 DEF Settled
  <2>4. OffsetHeld' /\ TopClear'
    BY <2>1, <2>3 DEF EmissionOK, OffsetHeld, TopClear, Holds, Depth
  <2> QED BY <2>1, <2>2, <2>3, <2>4 DEF EmissionOK
<1> QED BY <1>1, <1>2, <1>3, <1>4 DEF Next, Proceed

(* It holds throughout. *)
LEMMA EmissionThroughout ==
  Spec => []EmissionOK
<1>1. Init => EmissionOK
  BY DEF Init, EmitterInit, EmissionOK, PastValidation, OffsetHeld, TopClear
<1> QED BY <1>1, EmissionSteps, RefusedThroughout, PTL DEF Spec

(* What a join takes with it is whole: with a query, its operands. *)
LEMMA LostIsClosed ==
  ASSUME HeapOK
  PROVE  /\ LostQueries \subseteq DOMAIN query
         /\ \A q \in LostQueries : \A s \in InPipeline(q) : Args(s) \subseteq LostQueries
         /\ \A s \in DOMAIN stage : (stage[s].type = "Join" /\ Noted(s)) => Args(s) \subseteq LostQueries
<1>1. PICK lost : lost = UNION {Args(s) : s \in {t \in DOMAIN stage : stage[t].type = "Join" /\ Noted(t)}}
  OBVIOUS
<1>2. LostQueries = Under(lost)
  BY <1>1 DEF LostQueries
<1>3. \A s \in DOMAIN stage : Args(s) \subseteq DOMAIN query
  BY DEF HeapOK, Args
<1>4. ASSUME NEW q \in DOMAIN query, NEW s \in InPipeline(q) PROVE s \in DOMAIN stage /\ Args(s) \subseteq Operands(q)
  BY <1>4 DEF HeapOK, InPipeline, Operands
<1>5. lost \subseteq Under(lost)
  BY <1>1, <1>3 DEF Under
<1>6. ASSUME NEW q \in Under(lost), NEW s \in InPipeline(q) PROVE Args(s) \subseteq Under(lost)
  <2>1. q \in DOMAIN query
    BY DEF Under
  <2>2. ASSUME NEW p \in Args(s), NEW S \in SUBSET DOMAIN query,
               lost \subseteq S, \A r \in S : Operands(r) \subseteq S
        PROVE  p \in S
    <3>1. q \in S
      BY <2>2 DEF Under
    <3> QED BY <1>4, <1>6, <2>1, <2>2, <3>1
  <2>3. Args(s) \subseteq DOMAIN query
    BY <1>3, <1>4, <2>1
  <2> QED BY <2>2, <2>3 DEF Under
<1> QED BY <1>1, <1>2, <1>5, <1>6 DEF Under

(* Once the translation is done, the emitter is done with every query that no *)
(* join took with it.                                                         *)
LEMMA AllEmitted ==
  ASSUME Refused, EmissionOK, Done
  PROVE  /\ \A q \in DOMAIN query \ LostQueries : OffsetTold(q) /\ \A s \in InPipeline(q) : Told(s)
         /\ \A n : Holds(n) <=> n \in written
<1>0. HeapOK /\ StackOK /\ PhaseOK /\ Rooted /\ SortOK /\ frames = << >>
  BY DEF Refused, Refusing, Typed, PhaseOK, Done
<1>1. PICK E \in SUBSET DOMAIN query : Emitting(E)
  BY DEF EmissionOK, PastValidation, Done
<1>2. Finished(E) /\ Root \in E
  BY <1>0, <1>1 DEF Emitting
<1>3. PICK S : S = E \cup LostQueries
  OBVIOUS
<1>4. S \in SUBSET DOMAIN query
  BY <1>0, <1>3, LostIsClosed
<1>5. ASSUME NEW q \in S, NEW s \in InPipeline(q) PROVE Args(s) \subseteq S
  <2>1. CASE q \in LostQueries
    BY <1>0, <1>3, <1>5, <2>1, LostIsClosed
  <2>2. CASE q \in E
    <3>1. Over(s, E) /\ s \in DOMAIN stage
      BY <1>0, <1>2, <1>5, <2>2 DEF Finished, InPipeline, HeapOK
    <3> QED BY <1>0, <1>3, <3>1, LostIsClosed DEF Over
  <2> QED BY <1>3, <1>5, <2>1, <2>2
<1>6. Closed(S)
  <2> SUFFICES ASSUME NEW q \in S, NEW i \in DOMAIN Pipeline(q),
                      NEW j \in DOMAIN stage[Pipeline(q)[i]].args
               PROVE  stage[Pipeline(q)[i]].args[j] \in S
    BY DEF Closed
  <2>1. Pipeline(q)[i] \in InPipeline(q)
    BY DEF InPipeline
  <2> QED BY <1>5, <2>1 DEF Args
<1>7. Stacked(S)
  <2>1. Len(stack) = 1
    BY <1>0 DEF SortOK, Done
  <2>2. DOMAIN stack = {1}
    BY <1>0, <2>1 DEF StackOK
  <2> QED BY <1>2, <1>3, <2>2 DEF Stacked, Root
<1>8. S = DOMAIN query
  BY <1>0, <1>4, <1>6, <1>7 DEF Rooted
<1>9. ASSUME NEW q \in DOMAIN query \ LostQueries
      PROVE  OffsetTold(q) /\ \A s \in InPipeline(q) : Told(s)
  <2>1. q \in E
    BY <1>3, <1>8
  <2> QED BY <1>2, <2>1 DEF Finished, Over, InPipeline
<1> QED BY <1>0, <1>9 DEF Holds

(* Whatever the text does not hold, a comment line speaks of, but for a stage  *)
(* the sort put ahead of an operator or a number and its text replaced        *)
(* (logql/emitter.go applyBinaryOp).                                          *)
THEOREM StagesLostOnlyByReorder ==
  Spec => []SilentLossOnlyByReorder
<1>1. Refused /\ EmissionOK => SilentLossOnlyByReorder
  <2> SUFFICES ASSUME Refused, EmissionOK, Done, NEW s \in SilentlyLost
               PROVE  \E q \in DOMAIN query : \E t \in InPipeline(q) :
                         /\ HasOperands(stage[t]) \/ stage[t].what = "literal"
                         /\ s \in InPipeline(q) /\ MovedAcross(q, t, s)
    BY DEF SilentLossOnlyByReorder
  <2>1. PICK q \in DOMAIN query : s \in InPipeline(q)
    BY DEF Refused, Refusing, ShapesOK, AllHoused, SilentlyLost
  <2>2. q \notin LostQueries
    BY <2>1 DEF SilentlyLost, LostWithJoin
  <2>3. Told(s) /\ (Holds(StageNode(s)) <=> StageNode(s) \in written)
    BY <2>1, <2>2, AllEmitted
  <2>4. Excused(s)
    BY <2>3 DEF Told, SilentlyLost
  <2> QED BY <2>4 DEF Excused, Origin
<1> QED BY <1>1, RefusedThroughout, EmissionThroughout, PTL

(* A window whose offset the text does not hold has a note saying so, unless   *)
(* the text holds another's (logql/emitter.go noteDroppedOffset).             *)
THEOREM OffsetsAreNoted ==
  Spec => []DroppedOffsetsNoted
<1>1. Refused /\ EmissionOK => DroppedOffsetsNoted
  <2> SUFFICES ASSUME Refused, EmissionOK, Done, NEW q \in DOMAIN query \ LostQueries,
                      query[q].offset > 0, <<"Window", q>> \notin written
               PROVE  \/ <<"Window", q>> \in notes
                      \/ \E p \in DOMAIN query \ {q} : <<"Window", p>> \in written
    BY DEF DroppedOffsetsNoted
  <2>1. offsetWritten \/ <<"Window", q>> \in notes
    BY AllEmitted DEF OffsetTold
  <2>2. ASSUME offsetWritten PROVE \E p \in DOMAIN query \ {q} : <<"Window", p>> \in written
    <3>1. PICK p \in DOMAIN query : Holds(<<"Window", p>>)
      BY <2>2 DEF EmissionOK, OffsetHeld
    <3>2. <<"Window", p>> \in written
      BY <3>1, AllEmitted
    <3> QED BY <3>2
  <2> QED BY <2>1, <2>2
<1> QED BY <1>1, RefusedThroughout, EmissionThroughout, PTL

=============================================================================
