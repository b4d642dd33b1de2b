--------------------------- MODULE Compiler_proof ---------------------------
(***************************************************************************)
(* Proofs about a translation into LogQL, for expressions of any size and   *)
(* from any set of constructs: what the validator's stable sort does to a   *)
(* pipeline of any length, the types, and the verdicts a node carries and   *)
(* the report shows.                                                        *)
(***************************************************************************)
EXTENDS Compiler, Functions, FunctionTheorems, FiniteSetTheorems, SequenceTheorems, TLAPS

-----------------------------------------------------------------------------
(* What the stable sort does: it loses no stage and invents none, it leaves
   the stages in rank order with those of a rank as they were written, and a
   pair it exchanges never escapes crossedProducer for want of a moved stage. *)

(* A ranking of n stages. *)
Ranking(n) == [1..n -> Nat]

(* The stages that go before the i-th. *)
Before(ranks, i) == {j \in DOMAIN ranks : Precedes(ranks, j, i)}

(* Precedes is a strict total order of the stages.                            *)
LEMMA PrecedesOrders ==
  ASSUME NEW n \in Nat, NEW ranks \in Ranking(n),
         NEW i \in 1..n, NEW j \in 1..n, NEW k \in 1..n
  PROVE  /\ ~Precedes(ranks, i, i)
         /\ Precedes(ranks, i, j) /\ Precedes(ranks, j, k) => Precedes(ranks, i, k)
         /\ i # j => Precedes(ranks, i, j) \/ Precedes(ranks, j, i)
         /\ ~(Precedes(ranks, i, j) /\ Precedes(ranks, j, i))
<1>1. ranks[i] \in Nat /\ ranks[j] \in Nat /\ ranks[k] \in Nat
  BY DEF Ranking
<1> QED
  BY <1>1 DEF Precedes

(* Each stage has at most n - 1 before it.                                    *)
LEMMA BeforeBounded ==
  ASSUME NEW n \in Nat, NEW ranks \in Ranking(n), NEW i \in 1..n
  PROVE  /\ IsFiniteSet(Before(ranks, i))
         /\ Cardinality(Before(ranks, i)) \in 0..(n - 1)
<1>1. DOMAIN ranks = 1..n
  BY DEF Ranking
<1>2. IsFiniteSet(1..n) /\ Cardinality(1..n) = n
  BY FS_Interval
<1>3. IsFiniteSet((1..n) \ {i}) /\ Cardinality((1..n) \ {i}) = n - 1
  BY <1>2, FS_RemoveElement
<1>4. Before(ranks, i) \in SUBSET ((1..n) \ {i})
  BY <1>1, PrecedesOrders DEF Before
<1>5. /\ IsFiniteSet(Before(ranks, i))
      /\ Cardinality(Before(ranks, i)) <= n - 1
  BY <1>3, <1>4, FS_Subset
<1>6. Cardinality(Before(ranks, i)) \in Nat
  BY <1>5, FS_CardinalityType
<1> QED
  BY <1>5, <1>6

(* A stage's new position is a position of the pipeline.                      *)
LEMMA NewPositionType ==
  ASSUME NEW n \in Nat, NEW ranks \in Ranking(n), NEW i \in 1..n
  PROVE  NewPosition(ranks, i) \in 1..n
<1>1. NewPosition(ranks, i) = 1 + Cardinality(Before(ranks, i))
  BY DEF NewPosition, Before
<1> QED
  BY <1>1, BeforeBounded

(* A stage that goes before another gets an earlier position.                 *)
LEMMA NewPositionOrders ==
  ASSUME NEW n \in Nat, NEW ranks \in Ranking(n), NEW i \in 1..n, NEW j \in 1..n,
         Precedes(ranks, i, j)
  PROVE  NewPosition(ranks, i) < NewPosition(ranks, j)
<1>1. DOMAIN ranks = 1..n
  BY DEF Ranking
<1>2. Before(ranks, i) \cup {i} \in SUBSET Before(ranks, j)
  BY <1>1, PrecedesOrders DEF Before
<1>3. i \notin Before(ranks, i)
  BY PrecedesOrders DEF Before
<1>4. Cardinality(Before(ranks, i) \cup {i}) = Cardinality(Before(ranks, i)) + 1
  BY <1>3, BeforeBounded, FS_AddElement
<1>5. Cardinality(Before(ranks, i) \cup {i}) <= Cardinality(Before(ranks, j))
  BY <1>2, BeforeBounded, FS_Subset
<1>6. /\ Cardinality(Before(ranks, i)) \in 0..(n - 1)
      /\ Cardinality(Before(ranks, j)) \in 0..(n - 1)
  BY BeforeBounded
<1> QED
  BY <1>4, <1>5, <1>6 DEF NewPosition, Before

(* No two stages get the same position, and every position is some stage's.   *)
LEMMA NewPositionIsPermutation ==
  ASSUME NEW n \in Nat, NEW ranks \in Ranking(n)
  PROVE  /\ \A i, j \in 1..n : NewPosition(ranks, i) = NewPosition(ranks, j) => i = j
         /\ \A k \in 1..n : \E i \in 1..n : NewPosition(ranks, i) = k
<1> DEFINE P == [i \in 1..n |-> NewPosition(ranks, i)]
<1>1. P \in [1..n -> 1..n]
  BY NewPositionType
<1>2. \A i, j \in 1..n : NewPosition(ranks, i) = NewPosition(ranks, j) => i = j
  <2> SUFFICES ASSUME NEW i \in 1..n, NEW j \in 1..n, i # j,
                      NewPosition(ranks, i) = NewPosition(ranks, j)
               PROVE  FALSE
    OBVIOUS
  <2>1. Precedes(ranks, i, j) \/ Precedes(ranks, j, i)
    BY PrecedesOrders
  <2>2. NewPosition(ranks, i) \in 1..n /\ NewPosition(ranks, j) \in 1..n
    BY NewPositionType
  <2> QED
    BY <2>1, <2>2, NewPositionOrders
<1>3. P \in Injection(1..n, 1..n)
  <2>1. \A i, j \in 1..n : P[i] = P[j] => i = j
    BY <1>2
  <2> HIDE DEF P
  <2> QED
    BY <1>1, <2>1, Fun_IsInj
<1>4. IsFiniteSet(1..n)
  BY FS_Interval
<1>5. P \in Surjection(1..n, 1..n)
  <2> HIDE DEF P
  <2> QED
    BY <1>3, <1>4, FS_Injection
<1>6. \A k \in 1..n : \E i \in 1..n : P[i] = k
  <2> HIDE DEF P
  <2> QED
    BY <1>5, Zenon DEF Surjection
<1> QED
  BY <1>2, <1>6

(* OldPosition undoes NewPosition.                                            *)
LEMMA OldPositionInverts ==
  ASSUME NEW n \in Nat, NEW ranks \in Ranking(n), NEW k \in 1..n
  PROVE  /\ OldPosition(ranks, k) \in 1..n
         /\ NewPosition(ranks, OldPosition(ranks, k)) = k
<1>1. DOMAIN ranks = 1..n
  BY DEF Ranking
<1>2. \E i \in 1..n : NewPosition(ranks, i) = k
  <2>1. \A m \in 1..n : \E i \in 1..n : NewPosition(ranks, i) = m
    BY NewPositionIsPermutation
  <2> QED
    BY <2>1
<1> QED
  BY <1>1, <1>2 DEF OldPosition

(* Every stage has a rank.                                                    *)
LEMMA RanksType ==
  ASSUME NEW ids \in Seq(StageId), NEW dialect
  PROVE  Len(ids) \in Nat /\ DOMAIN ids = 1..Len(ids) /\ Ranks(ids, dialect) \in Ranking(Len(ids))
<1>1. Len(ids) \in Nat /\ DOMAIN ids = 1..Len(ids)
  OBVIOUS
<1>2. \A st : rankOf(st, dialect) \in Nat
  BY DEF rankOf, rankLineFilter, rankParser, rankLabelFilter, rankFormatter, rankUnwrap,
         rankAggregation, rankValueFilter, rankJoin, rankOther
<1> QED
  BY <1>1, <1>2 DEF Ranks, Ranking

(* The reordered pipeline holds each stage of the old one exactly once        *)
(* (pipeline_order.go checkPipelineOrder).                                    *)
THEOREM SortKeepsStages ==
  ASSUME NEW ids \in Seq(StageId), NEW dialect
  PROVE  \E p \in [DOMAIN ids -> DOMAIN ids] :
            /\ \A k, l \in DOMAIN ids : p[k] = p[l] => k = l
            /\ \A i \in DOMAIN ids : \E k \in DOMAIN ids : p[k] = i
            /\ Reordered(ids, dialect) = [k \in DOMAIN ids |-> ids[p[k]]]
<1> DEFINE n == Len(ids)
           ranks == Ranks(ids, dialect)
<1>1. n \in Nat /\ DOMAIN ids = 1..n /\ ranks \in Ranking(n)
  BY RanksType
<1>2. CASE ~dialect.pipelineOrdered
  <2>1. Reordered(ids, dialect) = ids
    BY <1>2 DEF Reordered
  <2>2. WITNESS [k \in DOMAIN ids |-> k] \in [DOMAIN ids -> DOMAIN ids]
  <2> QED
    BY <1>1, <2>1
<1>3. CASE dialect.pipelineOrdered
  <2> DEFINE p == [k \in DOMAIN ids |-> OldPosition(ranks, k)]
  <2> HIDE DEF n, ranks
  <2>1. p \in [DOMAIN ids -> DOMAIN ids]
    BY <1>1, OldPositionInverts
  <2>2. \A k, l \in DOMAIN ids : p[k] = p[l] => k = l
    <3> SUFFICES ASSUME NEW k \in DOMAIN ids, NEW l \in DOMAIN ids, p[k] = p[l]
                 PROVE  k = l
      OBVIOUS
    <3>1. OldPosition(ranks, k) = OldPosition(ranks, l)
      OBVIOUS
    <3>2. /\ NewPosition(ranks, OldPosition(ranks, k)) = k
          /\ NewPosition(ranks, OldPosition(ranks, l)) = l
      BY <1>1, OldPositionInverts
    <3> QED
      BY <3>1, <3>2
  <2>3. \A i \in DOMAIN ids : \E k \in DOMAIN ids : p[k] = i
    <3> SUFFICES ASSUME NEW i \in DOMAIN ids
                 PROVE  \E k \in DOMAIN ids : p[k] = i
      OBVIOUS
    <3> DEFINE k == NewPosition(ranks, i)
    <3>1. k \in 1..n
      BY <1>1, NewPositionType
    <3>2. OldPosition(ranks, k) \in 1..n /\ NewPosition(ranks, OldPosition(ranks, k)) = k
      BY <1>1, <3>1, OldPositionInverts
    <3>3. OldPosition(ranks, k) = i
      BY <1>1, <3>2, NewPositionIsPermutation
    <3> QED
      BY <1>1, <3>1, <3>3
  <2>4. Reordered(ids, dialect) = [k \in DOMAIN ids |-> ids[p[k]]]
    BY <1>3 DEF Reordered, ranks
  <2> QED
    BY <2>1, <2>2, <2>3, <2>4
<1> QED
  BY <1>2, <1>3

(* For a target that orders its pipelines, a stage stands before another in   *)
(* the reordered pipeline just when its rank is lower, or equal and it was    *)
(* written first (sort.SliceStable).                                          *)
THEOREM SortIsStable ==
  ASSUME NEW ids \in Seq(StageId), NEW dialect, NEW k \in DOMAIN ids, NEW l \in DOMAIN ids,
         k < l
  PROVE  LET ranks == Ranks(ids, dialect)
             i == OldPosition(ranks, k)
             j == OldPosition(ranks, l)
         IN  ranks[i] < ranks[j] \/ (ranks[i] = ranks[j] /\ i < j)
<1> DEFINE ranks == Ranks(ids, dialect)
           i == OldPosition(ranks, k)
           j == OldPosition(ranks, l)
<1>1. Len(ids) \in Nat /\ DOMAIN ids = 1..Len(ids) /\ ranks \in Ranking(Len(ids))
  BY RanksType
<1>2. i \in 1..Len(ids) /\ j \in 1..Len(ids)
      /\ NewPosition(ranks, i) = k /\ NewPosition(ranks, j) = l
  <2> HIDE DEF ranks
  <2> QED
    BY <1>1, OldPositionInverts
<1>3. i # j
  BY <1>1, <1>2
<1>4. ~Precedes(ranks, j, i)
  <2> HIDE DEF ranks, i, j
  <2> SUFFICES ASSUME Precedes(ranks, j, i)
               PROVE  FALSE
    OBVIOUS
  <2>1. NewPosition(ranks, j) < NewPosition(ranks, i)
    BY <1>1, <1>2, NewPositionOrders
  <2> QED
    BY <1>1, <1>2, <2>1
<1>5. Precedes(ranks, i, j)
  <2> HIDE DEF ranks, i, j
  <2> QED
    BY <1>1, <1>2, <1>3, <1>4, PrecedesOrders
<1> QED
  BY <1>5 DEF Precedes

(* Reporting only the stages that moved leaves no exchanged pair out: of two  *)
(* stages exchanged where one rewrites what the other reads, at least one     *)
(* moved and is a crossed one (pipeline_order.go crossedProducer and the loop *)
(* over its result).                                                          *)
THEOREM ExchangedPairReported ==
  ASSUME NEW ids \in Seq(StageId), NEW dialect, NEW i \in DOMAIN ids, NEW j \in DOMAIN ids,
         Swapped(Ranks(ids, dialect), i, j), i < j,
         j \in AffectedBy(ids, Ranks(ids, dialect), i) \/ i \in AffectedBy(ids, Ranks(ids, dialect), j)
  PROVE  LET ranks == Ranks(ids, dialect)
             moved == {m \in DOMAIN ids : NewPosition(ranks, m) # m}
         IN  {i, j} \cap moved \cap crossedProducer(ids, ranks) # {}
<1> DEFINE ranks == Ranks(ids, dialect)
<1>1. Len(ids) \in Nat /\ DOMAIN ids = 1..Len(ids) /\ ranks \in Ranking(Len(ids))
  BY RanksType
<1> HIDE DEF ranks
<1>2. Precedes(ranks, j, i)
  BY <1>1 DEF Swapped, ranks
<1>3. NewPosition(ranks, j) < NewPosition(ranks, i)
  BY <1>1, <1>2, NewPositionOrders
<1>4. NewPosition(ranks, i) # i \/ NewPosition(ranks, j) # j
  BY <1>1, <1>3
<1>5. Swapped(ranks, j, i)
  BY <1>2 DEF Swapped
<1>6. i \in crossedProducer(ids, ranks) /\ j \in crossedProducer(ids, ranks)
  BY <1>5 DEF crossedProducer, ranks
<1> QED
  BY <1>4, <1>6 DEF ranks

USE BoundsAssumption, LanguagesAssumption, ModelledSource, EmittedTarget

-----------------------------------------------------------------------------
(* The invariant that the types follow from: what the ids held by pipelines,  *)
(* stages, operands, worklist and frames refer to has been allocated, and     *)
(* each phase finds its predecessor's state as that phase left it.            *)

QueryKinds == {"Query", "Source", "Matcher", "Output", "Range", "Window"}
StageKinds == {"Stage", "Predicate", "Argument"}

(* The nodes of what has been allocated. *)
Live == (QueryKinds \X DOMAIN query) \cup (StageKinds \X DOMAIN stage)

(* What the resolver's constructors guarantee of a stage. *)
Shaped(st) ==
    /\ st.type \in {"Filter", "Function", "Aggregation"} => st.args = << >>
    /\ st.what \in {"unwrap", "literal"} => st.type = "Function"

HeapOK ==
    /\ query \in Seq(QueryRecord) /\ Len(query) <= MaxQueries
    /\ stage \in Seq(StageRecord) /\ Len(stage) <= MaxStages
    /\ \A q \in DOMAIN query : \A i \in DOMAIN Pipeline(q) : Pipeline(q)[i] \in DOMAIN stage
    /\ \A s \in DOMAIN stage : \A i \in DOMAIN stage[s].args :
          stage[s].args[i] \in DOMAIN query
    /\ \A s \in DOMAIN stage : Shaped(stage[s])

OperandTypes ==
    {"log", "unwrapping", "range", "unwrapped range", "vector", "scalar", "literal"}

Pending == [q : Nat, is : OperandTypes]
StackOK == stack \in Seq(Pending) /\ \A i \in DOMAIN stack : stack[i].q \in DOMAIN query

Modifier ==
    [construct : {"offset", "@", "subquery", "bool", "less", "bool between series"}, home : Nat]
AuthoredOK == authored \in Seq(Modifier)

(* A reason is always given with the same flag. *)
Severity(why) ==
    IF why \in {"absent data", "stage order", "regex dialect", "bool", "other axis"}
    THEN PARTIAL ELSE UNSUPPORTED

Judgement ==
    {v \in VerdictRecord :
        /\ v.flag = Severity(v.reason)
        /\ v.path = "walked" \/ v.reason = "stage order"}

WalkOK ==
    /\ toVisit \in Seq(Live) /\ verdicts \subseteq Judgement
    /\ flag \in [Node -> Flags] /\ reason \in [Node -> Reasons]
    /\ issues \subseteq Judgement /\ mismatch \in BOOLEAN

FrameRecord ==
    [q : Nat, at : Nat, text : SUBSET Node, logPhase : BOOLEAN, operands : Seq(Nat),
     operandText : SUBSET Node]

(* A caller waits at the operator whose operands are being written. *)
Placed(f, waiting) ==
    /\ f.q \in DOMAIN query /\ f.at >= 1
    /\ \A j \in DOMAIN f.operands : f.operands[j] \in DOMAIN query
    /\ waiting => f.at <= Len(Pipeline(f.q))

FramesOK ==
    /\ frames \in Seq(FrameRecord)
    /\ \A i \in DOMAIN frames : Placed(frames[i], i < Len(frames))
    /\ offsetWritten \in BOOLEAN /\ notes \subseteq Node /\ written \subseteq Node

PhaseOK ==
    /\ pc \in Phases
    /\ pc \notin {"resolving", "failed"} => stack # << >>
    /\ pc # "validating" => toVisit = << >> /\ verdicts = {}
    /\ pc # "emitting" => frames = << >>

ReportOK ==
    /\ report.rows \subseteq VerdictRecord
    /\ {report.partial, report.unsupported} \subseteq Nat

Typed ==
    HeapOK /\ StackOK /\ AuthoredOK /\ WalkOK /\ FramesOK /\ PhaseOK /\ ReportOK

-----------------------------------------------------------------------------
(* Resolution. *)

(* What the sequences of the heap are indexed by. *)
LEMMA HeapDomains ==
  ASSUME HeapOK
  PROVE  /\ DOMAIN query = 1..Len(query) /\ Len(query) \in Nat
         /\ DOMAIN stage = 1..Len(stage) /\ Len(stage) \in Nat
         /\ DOMAIN query \subseteq QueryId /\ DOMAIN stage \subseteq StageId
         /\ \A q \in DOMAIN query : query[q] \in QueryRecord
         /\ \A s \in DOMAIN stage : stage[s] \in StageRecord
  BY DEF HeapOK, QueryId, StageId

(* A query that is fetched and has no stage yet. *)
LEMMA PushQueryOK ==
  ASSUME HeapOK, StackOK, Len(query) + 1 <= MaxQueries,
         NEW q \in QueryRecord, q.pipeline = << >>, NEW type \in OperandTypes, PushQuery(q, type)
  PROVE  HeapOK' /\ StackOK'
<1>1. /\ query' \in Seq(QueryRecord) /\ Len(query') = Len(query) + 1
      /\ \A i \in 1..Len(query) : query'[i] = query[i]
      /\ query'[Len(query) + 1] = q
  BY AppendProperties DEF PushQuery, HeapOK
<1>2. /\ DOMAIN query' = 1..(Len(query) + 1) /\ DOMAIN query = 1..Len(query)
      /\ stage' = stage /\ Len(query) \in Nat
  BY <1>1, HeapDomains DEF PushQuery
<1>3. \A p \in DOMAIN query' : \A i \in DOMAIN query'[p].pipeline :
         query'[p].pipeline[i] \in DOMAIN stage
  <2>1. DOMAIN q.pipeline = {}
    OBVIOUS
  <2> QED BY <1>1, <1>2, <2>1 DEF HeapOK, Pipeline
<1>4. \A s \in DOMAIN stage : \A i \in DOMAIN stage[s].args :
         stage[s].args[i] \in DOMAIN query'
  BY <1>2 DEF HeapOK
<1>5. HeapOK'
  BY <1>1, <1>2, <1>3, <1>4 DEF HeapOK, Pipeline
<1>6. [q |-> Len(query) + 1, is |-> type] \in Pending
  BY <1>2 DEF Pending
<1>7. /\ stack' \in Seq(Pending) /\ Len(stack') = Len(stack) + 1
      /\ \A i \in 1..Len(stack) : stack'[i] = stack[i]
      /\ stack'[Len(stack) + 1] = [q |-> Len(query) + 1, is |-> type]
  BY <1>6, AppendProperties DEF PushQuery, StackOK
<1>8. StackOK'
  BY <1>2, <1>7 DEF StackOK
<1> QED BY <1>5, <1>8

(* One stage is allocated. *)
LEMMA NewStage ==
  ASSUME HeapOK, NEW st \in StageRecord, Len(stage) + 1 <= MaxStages,
         stage' = Append(stage, st)
  PROVE  /\ stage' \in Seq(StageRecord) /\ Len(stage') = Len(stage) + 1
         /\ DOMAIN stage' = 1..(Len(stage) + 1) /\ DOMAIN stage \subseteq DOMAIN stage'
         /\ Len(stage) + 1 \in DOMAIN stage' /\ Len(stage) + 1 \in StageId
         /\ \A i \in DOMAIN stage : stage'[i] = stage[i]
         /\ stage'[Len(stage) + 1] = st
<1>1. /\ stage' \in Seq(StageRecord) /\ Len(stage') = Len(stage) + 1
      /\ \A i \in 1..Len(stage) : stage'[i] = stage[i]
      /\ stage'[Len(stage) + 1] = st
  BY AppendProperties DEF HeapOK
<1>2. DOMAIN stage' = 1..(Len(stage) + 1) /\ DOMAIN stage = 1..Len(stage) /\ Len(stage) \in Nat
  BY <1>1, HeapDomains
<1> QED BY <1>1, <1>2 DEF StageId

(* A query without a data source. *)
LEMMA BareQuery ==
  ASSUME NEW ids \in Seq(StageId)
  PROVE  LET q == [NewQuery(MetricSignal, "none") EXCEPT !.pipeline = ids]
         IN  q \in QueryRecord /\ q.pipeline = ids
<1>1. MetricSignal \in {"METRIC", "LOG"}
  BY DEF MetricSignal
<1>2. NewQuery(MetricSignal, "none") \in QueryRecord
  BY <1>1 DEF NewQuery, QueryRecord
<1> QED BY <1>2 DEF QueryRecord

(* A query that is nothing but a stage over the operands on top of the stack. *)
LEMMA PushStageOK ==
  ASSUME HeapOK, StackOK, Len(query) + 1 <= MaxQueries, Len(stage) + 1 <= MaxStages,
         NEW st \in StageRecord, Shaped(st),
         \A i \in DOMAIN st.args : st.args[i] \in DOMAIN query,
         NEW n \in 0..Len(stack), NEW type \in OperandTypes, PushStage(st, n, type)
  PROVE  HeapOK' /\ StackOK'
<1> DEFINE s == Len(stage) + 1
           q == [NewQuery(MetricSignal, "none") EXCEPT !.pipeline = <<s>>]
<1>1. /\ stage' \in Seq(StageRecord) /\ Len(stage') = Len(stage) + 1
      /\ DOMAIN stage' = 1..(Len(stage) + 1) /\ DOMAIN stage \subseteq DOMAIN stage'
      /\ s \in DOMAIN stage' /\ s \in StageId
      /\ \A i \in DOMAIN stage : stage'[i] = stage[i]
      /\ stage'[s] = st
  BY NewStage DEF PushStage
<1>2. q \in QueryRecord /\ q.pipeline = <<s>>
  <2>1. <<s>> \in Seq(StageId)
    BY <1>1
  <2> QED BY <2>1, BareQuery
<1> HIDE DEF q
<1>3. /\ query' \in Seq(QueryRecord) /\ Len(query') = Len(query) + 1
      /\ \A i \in 1..Len(query) : query'[i] = query[i]
      /\ query'[Len(query) + 1] = q
  BY <1>2, AppendProperties DEF PushStage, HeapOK, q
<1>4. /\ DOMAIN query' = 1..(Len(query) + 1) /\ DOMAIN query = 1..Len(query)
      /\ Len(query) \in Nat
  BY <1>3, HeapDomains
<1>5. \A p \in DOMAIN query' : \A i \in DOMAIN query'[p].pipeline :
         query'[p].pipeline[i] \in DOMAIN stage'
  <2> SUFFICES ASSUME NEW p \in DOMAIN query', NEW i \in DOMAIN query'[p].pipeline
               PROVE  query'[p].pipeline[i] \in DOMAIN stage'
    OBVIOUS
  <2>1. CASE p = Len(query) + 1
    <3>1. query'[p].pipeline = <<s>>
      BY <1>2, <1>3, <2>1
    <3> QED BY <1>1, <3>1
  <2>2. CASE p # Len(query) + 1
    <3>1. p \in DOMAIN query /\ query'[p] = query[p]
      BY <1>3, <1>4, <2>2
    <3> QED BY <1>1, <3>1 DEF HeapOK, Pipeline
  <2> QED BY <2>1, <2>2
<1>6. \A t \in DOMAIN stage' : \A i \in DOMAIN stage'[t].args :
         stage'[t].args[i] \in DOMAIN query'
  <2> SUFFICES ASSUME NEW t \in DOMAIN stage', NEW i \in DOMAIN stage'[t].args
               PROVE  stage'[t].args[i] \in DOMAIN query'
    OBVIOUS
  <2>1. CASE t = s
    BY <1>1, <1>4, <2>1
  <2>2. CASE t # s
    <3>1. t \in DOMAIN stage
      BY <1>1, <2>2, HeapDomains
    <3> QED BY <1>1, <1>4, <3>1 DEF HeapOK
  <2> QED BY <2>1, <2>2
<1>7. \A t \in DOMAIN stage' : Shaped(stage'[t])
  BY <1>1, HeapDomains DEF HeapOK
<1>8. HeapOK'
  BY <1>1, <1>3, <1>4, <1>5, <1>6, <1>7 DEF HeapOK, Pipeline
<1>9. [q |-> Len(query) + 1, is |-> type] \in Pending
  BY <1>4 DEF Pending
<1>10. /\ Pop(n) \in Seq(Pending)
       /\ Len(Pop(n)) <= Len(stack)
       /\ \A i \in 1..Len(Pop(n)) : Pop(n)[i] = stack[i]
  <2>1. Len(stack) \in Nat /\ DOMAIN stack = 1..Len(stack)
        /\ \A i \in 1..Len(stack) : stack[i] \in Pending
    BY DEF StackOK
  <2>2. 1 \in Int /\ Len(stack) - n \in Int /\ \A i \in 1..(Len(stack) - n) : stack[i] \in Pending
    BY <2>1
  <2>3. /\ SubSeq(stack, 1, Len(stack) - n) \in Seq(Pending)
        /\ Len(SubSeq(stack, 1, Len(stack) - n)) =
               IF 1 <= Len(stack) - n THEN (Len(stack) - n) - 1 + 1 ELSE 0
        /\ \A i \in 1..((Len(stack) - n) - 1 + 1) :
               SubSeq(stack, 1, Len(stack) - n)[i] = stack[1 + i - 1]
    BY <2>2, SubSeqProperties
  <2> QED BY <2>1, <2>3 DEF Pop
<1>11. /\ stack' \in Seq(Pending) /\ Len(stack') = Len(Pop(n)) + 1
       /\ \A i \in 1..Len(Pop(n)) : stack'[i] = Pop(n)[i]
       /\ stack'[Len(Pop(n)) + 1] = [q |-> Len(query) + 1, is |-> type]
  BY <1>9, <1>10, AppendProperties DEF PushStage
<1>12. \A i \in DOMAIN stack' : stack'[i].q \in DOMAIN query'
  <2> SUFFICES ASSUME NEW i \in DOMAIN stack' PROVE stack'[i].q \in DOMAIN query'
    OBVIOUS
  <2>1. i \in 1..(Len(Pop(n)) + 1) /\ Len(Pop(n)) \in Nat
    BY <1>10, <1>11
  <2>2. CASE i = Len(Pop(n)) + 1
    BY <1>4, <1>11, <2>2
  <2>3. CASE i # Len(Pop(n)) + 1
    <3>1. i \in 1..Len(Pop(n)) /\ i \in DOMAIN stack
      BY <1>10, <2>1, <2>3 DEF StackOK
    <3> QED BY <1>4, <1>10, <1>11, <3>1 DEF StackOK
  <2> QED BY <2>2, <2>3
<1> QED BY <1>8, <1>11, <1>12 DEF StackOK

(* What a query holds besides its stages is changed. *)
LEMMA ModifyOK ==
  ASSUME HeapOK, NEW q \in DOMAIN query, NEW r \in QueryRecord,
         r.pipeline = query[q].pipeline, query' = [query EXCEPT ![q] = r], stage' = stage
  PROVE  HeapOK' /\ DOMAIN query' = DOMAIN query
<1>1. /\ query' \in Seq(QueryRecord) /\ Len(query') = Len(query)
      /\ \A p \in 1..Len(query) : query'[p] = IF p = q THEN r ELSE query[p]
  BY ExceptSeq, HeapDomains DEF HeapOK
<1>2. DOMAIN query' = 1..Len(query) /\ DOMAIN query = 1..Len(query)
  BY <1>1, HeapDomains
<1>3. \A p \in DOMAIN query : query'[p].pipeline = query[p].pipeline
  BY <1>1, <1>2
<1> QED BY <1>1, <1>2, <1>3 DEF HeapOK, Pipeline

(* What the grammar takes an operand for is changed. *)
LEMMA RetypeOK ==
  ASSUME StackOK, NEW i \in DOMAIN stack, NEW type \in OperandTypes,
         stack' = [stack EXCEPT ![i].is = type], DOMAIN query \subseteq DOMAIN query'
  PROVE  StackOK'
<1>1. [stack[i] EXCEPT !.is = type] \in Pending /\ i \in 1..Len(stack)
  <2>1. stack[i] \in Pending /\ i \in 1..Len(stack)
    BY DEF StackOK
  <2> QED BY <2>1 DEF Pending
<1>2. stack' = [stack EXCEPT ![i] = [stack[i] EXCEPT !.is = type]]
  OBVIOUS
<1>3. /\ stack' \in Seq(Pending) /\ Len(stack') = Len(stack)
      /\ \A j \in 1..Len(stack) :
            stack'[j] = IF j = i THEN [stack[i] EXCEPT !.is = type] ELSE stack[j]
  BY <1>1, <1>2, ExceptSeq DEF StackOK
<1>4. \A j \in DOMAIN stack' : stack'[j].q = stack[j].q /\ j \in DOMAIN stack
  BY <1>3 DEF StackOK, Pending
<1> QED BY <1>3, <1>4 DEF StackOK

(* A construct is folded into its operand's query. *)
LEMMA AppendStageOK ==
  ASSUME HeapOK, StackOK, Len(stage) + 1 <= MaxStages, stack # << >>,
         NEW st \in StageRecord, Shaped(st), st.args = << >>,
         NEW type \in OperandTypes, AppendStage(st, type)
  PROVE  HeapOK' /\ StackOK' /\ DOMAIN query' = DOMAIN query
<1> DEFINE s == Len(stage) + 1
           q == Top.q
           r == [query[q] EXCEPT !.pipeline = Append(@, s)]
<1>1. /\ stage' \in Seq(StageRecord) /\ Len(stage') = Len(stage) + 1
      /\ DOMAIN stage' = 1..(Len(stage) + 1) /\ DOMAIN stage \subseteq DOMAIN stage'
      /\ s \in DOMAIN stage' /\ s \in StageId
      /\ \A i \in DOMAIN stage : stage'[i] = stage[i]
      /\ stage'[s] = st
  BY NewStage DEF AppendStage
<1>2. Len(stack) \in DOMAIN stack /\ q \in DOMAIN query
  BY DEF StackOK, Top
<1>3. query[q] \in QueryRecord /\ query[q].pipeline \in Seq(StageId)
  BY <1>2, HeapDomains DEF QueryRecord
<1>4. /\ Append(query[q].pipeline, s) \in Seq(StageId)
      /\ Len(Append(query[q].pipeline, s)) = Len(query[q].pipeline) + 1
      /\ \A i \in 1..Len(query[q].pipeline) :
            Append(query[q].pipeline, s)[i] = query[q].pipeline[i]
      /\ Append(query[q].pipeline, s)[Len(query[q].pipeline) + 1] = s
  <2>1. s \in StageId
    BY <1>1
  <2> HIDE DEF s, q
  <2> QED BY <1>3, <2>1, AppendProperties
<1>5. r \in QueryRecord /\ r.pipeline = Append(query[q].pipeline, s)
  BY <1>3, <1>4 DEF QueryRecord
<1>6. query' = [query EXCEPT ![q] = r]
  BY DEF AppendStage
<1> HIDE DEF r
<1>7. /\ query' \in Seq(QueryRecord) /\ Len(query') = Len(query)
      /\ \A p \in 1..Len(query) : query'[p] = IF p = q THEN r ELSE query[p]
  BY <1>2, <1>5, <1>6, ExceptSeq, HeapDomains DEF HeapOK
<1>8. DOMAIN query' = 1..Len(query) /\ DOMAIN query = 1..Len(query)
  BY <1>7, HeapDomains
<1>9. \A p \in DOMAIN query' : \A i \in DOMAIN query'[p].pipeline :
         query'[p].pipeline[i] \in DOMAIN stage'
  <2> SUFFICES ASSUME NEW p \in DOMAIN query', NEW i \in DOMAIN query'[p].pipeline
               PROVE  query'[p].pipeline[i] \in DOMAIN stage'
    OBVIOUS
  <2>1. CASE p = q
    <3>0. query'[p].pipeline = Append(query[q].pipeline, s)
      BY <1>5, <1>7, <1>8, <2>1
    <3>1. i \in 1..(Len(query[q].pipeline) + 1) /\ Len(query[q].pipeline) \in Nat
          /\ DOMAIN query[q].pipeline = 1..Len(query[q].pipeline)
      BY <1>3, <1>4, <3>0
    <3>2. query'[p].pipeline[i] = IF i = Len(query[q].pipeline) + 1 THEN s ELSE query[q].pipeline[i]
      <4> DEFINE ids == query[q].pipeline
      <4>1. /\ i \in 1..(Len(ids) + 1) /\ Len(ids) \in Nat
            /\ query'[p].pipeline[i] = Append(ids, s)[i]
            /\ \A j \in 1..Len(ids) : Append(ids, s)[j] = ids[j]
            /\ Append(ids, s)[Len(ids) + 1] = s
        BY <1>4, <3>0, <3>1
      <4> HIDE DEF ids, s
      <4>2. query'[p].pipeline[i] = IF i = Len(ids) + 1 THEN s ELSE ids[i]
        <5>1. CASE i = Len(ids) + 1
          BY <4>1, <5>1
        <5>2. CASE i # Len(ids) + 1
          BY <4>1, <5>2
        <5> QED BY <5>1, <5>2
      <4> QED BY <4>2 DEF ids
    <3>3. CASE i = Len(query[q].pipeline) + 1
      BY <1>1, <3>2, <3>3
    <3>4. CASE i # Len(query[q].pipeline) + 1
      <4>1. i \in DOMAIN query[q].pipeline
        BY <3>1, <3>4
      <4>2. query[q].pipeline[i] \in DOMAIN stage
        BY <1>2, <4>1 DEF HeapOK, Pipeline
      <4> QED BY <1>1, <3>2, <3>4, <4>2
    <3> QED BY <3>3, <3>4
  <2>2. CASE p # q
    BY <1>1, <1>7, <1>8, <2>2 DEF HeapOK, Pipeline
  <2> QED BY <2>1, <2>2
<1>10. \A t \in DOMAIN stage' : /\ Shaped(stage'[t])
                                /\ \A i \in DOMAIN stage'[t].args :
                                      stage'[t].args[i] \in DOMAIN query'
  <2> SUFFICES ASSUME NEW t \in DOMAIN stage'
               PROVE  Shaped(stage'[t]) /\ \A i \in DOMAIN stage'[t].args :
                                              stage'[t].args[i] \in DOMAIN query'
    OBVIOUS
  <2>1. CASE t = s
    BY <1>1, <2>1
  <2>2. CASE t # s
    <3>1. t \in DOMAIN stage
      BY <1>1, <2>2, HeapDomains
    <3> QED BY <1>1, <1>8, <3>1 DEF HeapOK
  <2> QED BY <2>1, <2>2
<1>11. HeapOK'
  BY <1>1, <1>7, <1>8, <1>9, <1>10 DEF HeapOK, Pipeline
<1>12. StackOK'
  BY <1>2, <1>8, RetypeOK DEF AppendStage
<1> QED BY <1>8, <1>11, <1>12

(* What a stage's fields are when no constructor sets them. *)
LEMMA BlankFields ==
  /\ "" \in StageNames /\ "" \in Comparisons /\ "" \in {"", "TEMPORAL", "GROUP"}
  /\ << >> \in Seq(QueryId) /\ 0 \in Nat
<1>1. "" \in StageNames
  BY DEF StageNames
<1>2. "" \in Comparisons
  BY DEF Comparisons
<1>3. << >> \in Seq(QueryId)
  OBVIOUS
<1> QED BY <1>1, <1>2, <1>3

(* The filters the resolver makes. *)
LEMMA FilterMade ==
  ASSUME NEW field \in StageNames, NEW op \in Comparisons, NEW bool \in Nat,
         field \notin {"unwrap", "literal"}
  PROVE  /\ Filter(field, op, bool) \in StageRecord /\ Filter(field, op, bool).args = << >>
         /\ Shaped(Filter(field, op, bool))
<1>1. Filter(field, op, bool) \in StageRecord
  BY BlankFields DEF Filter, Blank, StageRecord
<1>2. /\ Filter(field, op, bool).type = "Filter" /\ Filter(field, op, bool).what = field
      /\ Filter(field, op, bool).args = << >>
  BY DEF Filter, Blank
<1> QED BY <1>1, <1>2 DEF Shaped

(* The functions the resolver makes. *)
LEMMA FunctionMade ==
  ASSUME NEW name \in StageNames
  PROVE  /\ Function(name) \in StageRecord /\ Function(name).args = << >>
         /\ Shaped(Function(name))
<1>1. Function(name) \in StageRecord
  BY BlankFields DEF Function, Blank, StageRecord
<1>2. Function(name).type = "Function" /\ Function(name).args = << >>
  BY DEF Function, Blank
<1> QED BY <1>1, <1>2 DEF Shaped

(* The aggregations the resolver makes. *)
LEMMA AggregationMade ==
  ASSUME NEW op \in StageNames, NEW scope \in {"TEMPORAL", "GROUP"},
         op \notin {"unwrap", "literal"}
  PROVE  /\ Aggregation(op, scope) \in StageRecord /\ Aggregation(op, scope).args = << >>
         /\ Shaped(Aggregation(op, scope))
<1>1. Aggregation(op, scope) \in StageRecord
  BY BlankFields DEF Aggregation, Blank, StageRecord
<1>2. /\ Aggregation(op, scope).what = op /\ Aggregation(op, scope).args = << >>
      /\ Aggregation(op, scope).type = "Aggregation"
  BY DEF Aggregation, Blank
<1> QED BY <1>1, <1>2 DEF Shaped

(* The stages that hold queries, and the operator a join leaves behind. *)
LEMMA OperatorsMade ==
  ASSUME NEW q \in QueryId, NEW p \in QueryId
  PROVE  /\ Join(q) \in StageRecord /\ Join(q).args = <<q>> /\ Shaped(Join(q))
         /\ BinaryOp(None, None) \in StageRecord /\ BinaryOp(None, None).args = << >>
         /\ Shaped(BinaryOp(None, None))
         /\ BinaryOp(p, q) \in StageRecord /\ BinaryOp(p, q).args = <<p, q>>
         /\ Shaped(BinaryOp(p, q))
         /\ UnaryOp(q) \in StageRecord /\ UnaryOp(q).args = <<q>> /\ Shaped(UnaryOp(q))
<1>0. p # None /\ <<q>> \in Seq(QueryId) /\ <<p, q>> \in Seq(QueryId) /\ << >> \in Seq(QueryId)
  BY DEF None, QueryId
<1>1. Join(q) \in StageRecord /\ Join(q).args = <<q>> /\ Shaped(Join(q))
  <2>1. Join(q) \in StageRecord
    BY <1>0, BlankFields DEF Join, Blank, StageRecord
  <2>2. Join(q).args = <<q>> /\ Join(q).what = "" /\ Join(q).type \in {"Join", "BinaryOp", "UnaryOp"}
    BY <1>0 DEF Join, Blank
  <2> QED BY <2>1, <2>2 DEF Shaped
<1>2. BinaryOp(None, None) \in StageRecord /\ BinaryOp(None, None).args = << >> /\ Shaped(BinaryOp(None, None))
  <2>1. BinaryOp(None, None) \in StageRecord
    BY <1>0, BlankFields DEF BinaryOp, Blank, StageRecord
  <2>2. BinaryOp(None, None).args = << >> /\ BinaryOp(None, None).what = "" /\ BinaryOp(None, None).type \in {"Join", "BinaryOp", "UnaryOp"}
    BY <1>0 DEF BinaryOp, Blank
  <2> QED BY <2>1, <2>2 DEF Shaped
<1>3. BinaryOp(p, q) \in StageRecord /\ BinaryOp(p, q).args = <<p, q>> /\ Shaped(BinaryOp(p, q))
  <2>1. BinaryOp(p, q) \in StageRecord
    BY <1>0, BlankFields DEF BinaryOp, Blank, StageRecord
  <2>2. BinaryOp(p, q).args = <<p, q>> /\ BinaryOp(p, q).what = "" /\ BinaryOp(p, q).type \in {"Join", "BinaryOp", "UnaryOp"}
    BY <1>0 DEF BinaryOp, Blank
  <2> QED BY <2>1, <2>2 DEF Shaped
<1>4. UnaryOp(q) \in StageRecord /\ UnaryOp(q).args = <<q>> /\ Shaped(UnaryOp(q))
  <2>1. UnaryOp(q) \in StageRecord
    BY <1>0, BlankFields DEF UnaryOp, Blank, StageRecord
  <2>2. UnaryOp(q).args = <<q>> /\ UnaryOp(q).what = "" /\ UnaryOp(q).type \in {"Join", "BinaryOp", "UnaryOp"}
    BY <1>0 DEF UnaryOp, Blank
  <2> QED BY <2>1, <2>2 DEF Shaped
<1> QED BY <1>1, <1>2, <1>3, <1>4

(* What the resolver's actions come to, the modifiers aside. *)
Fetches ==
    \E q \in QueryRecord, type \in OperandTypes :
       /\ q.pipeline = << >> /\ Len(query) + 1 <= MaxQueries
       /\ PushQuery(q, type)

Begins ==
    \E st \in StageRecord, n \in 0..2, type \in OperandTypes :
       /\ n <= Len(stack) /\ Len(query) + 1 <= MaxQueries /\ Len(stage) + 1 <= MaxStages
       /\ Shaped(st) /\ DOMAIN st.args = 1..n
       /\ \A i \in 1..n : st.args[i] = stack[Len(stack) - n + i].q
       /\ PushStage(st, n, type)

Folds ==
    \E st \in StageRecord, type \in OperandTypes :
       /\ stack # << >> /\ Len(stage) + 1 <= MaxStages
       /\ Shaped(st) /\ st.args = << >>
       /\ AppendStage(st, type)

Retypes == \E type \in OperandTypes : stack # << >> /\ stack' = [stack EXCEPT ![Len(stack)].is = type]

Modifies ==
    \E r \in QueryRecord :
       /\ r.pipeline = query[Top.q].pipeline
       /\ query' = [query EXCEPT ![Top.q] = r] /\ stage' = stage
       /\ Retypes

Moves == Fetches \/ Begins \/ Folds \/ Modifies \/ ResolveJoin \/ (Retypes /\ UNCHANGED heap)

(* The occurrence a modifier is recorded by is a number. *)
LEMMA OccurrenceType ==
  ASSUME AuthoredOK, NEW given \in BOOLEAN, NEW n \in Nat, NEW otherwise \in Nat
  PROVE  Occurrence(given, n, otherwise) \in Nat
<1>1. Len(authored) \in Nat
  BY DEF AuthoredOK
<1> QED BY <1>1 DEF Occurrence

(* The same of a pinned instant, which is written after the offset. *)
LEMMA PinOccurrenceType ==
  ASSUME AuthoredOK, NEW offset \in BOOLEAN, NEW pinned \in BOOLEAN, NEW otherwise \in Nat
  PROVE  PinOccurrence(offset, pinned, otherwise) \in Nat
<1>1. (IF offset THEN 2 ELSE 1) \in Nat
  OBVIOUS
<1> QED BY <1>1, OccurrenceType DEF PinOccurrence

(* A selector's query. *)
LEMMA SelectorMade ==
  ASSUME NEW signal \in {"METRIC", "LOG"}, NEW m \in SourceKinds \cup {"name"}, NEW step \in BOOLEAN
  PROVE  /\ NewQuery(signal, m) \in QueryRecord /\ NewQuery(signal, m).pipeline = << >>
         /\ [NewQuery(signal, m) EXCEPT !.step = step] \in QueryRecord
         /\ [NewQuery(signal, m) EXCEPT !.step = step].pipeline = << >>
<1>1. << >> \in Seq(StageId)
  OBVIOUS
<1>2. NewQuery(signal, m) \in QueryRecord /\ NewQuery(signal, m).pipeline = << >>
  BY <1>1 DEF NewQuery, QueryRecord
<1> QED BY <1>2 DEF QueryRecord

(* The modifiers written after it. *)
LEMMA SelectorModified ==
  ASSUME AuthoredOK, NEW offset \in BOOLEAN, NEW pinned \in BOOLEAN,
         NEW q \in QueryRecord, q.pipeline = << >>
  PROVE  /\ WithModifiers(q, offset, pinned) \in QueryRecord
         /\ WithModifiers(q, offset, pinned).pipeline = << >>
<1> DEFINE a == Occurrence(offset, 1, 0)
           b == PinOccurrence(offset, pinned, 0)
<1>1. a \in Nat /\ b \in Nat
  BY OccurrenceType, PinOccurrenceType
<1>2. WithModifiers(q, offset, pinned) = [q EXCEPT !.offset = a, !.pinned = b]
  BY DEF WithModifiers
<1> HIDE DEF a, b
<1> QED BY <1>1, <1>2 DEF QueryRecord

(* The operands on top of the stack. *)
LEMMA TopOfStack ==
  ASSUME HeapOK, StackOK, stack # << >>
  PROVE  /\ Len(stack) \in DOMAIN stack /\ Len(stack) \in Nat \ {0}
         /\ Top \in Pending /\ Top.q \in DOMAIN query /\ Top.q \in QueryId
         /\ Len(stack) >= 2 => /\ Len(stack) - 1 \in DOMAIN stack
                               /\ Below \in Pending /\ Below.q \in DOMAIN query
                               /\ Below.q \in QueryId
  BY HeapDomains DEF StackOK, Top, Below

(* The fields of one query are overwritten. *)
LEMMA OverwriteQuery ==
  ASSUME HeapOK, NEW q \in DOMAIN query, NEW r, query' = [query EXCEPT ![q] = r],
         r \in QueryRecord, r.pipeline = query[q].pipeline, q = Top.q, stage' = stage, Retypes
  PROVE  Modifies
  BY DEF Modifies

(* A modifier is recorded where the author wrote one. *)
LEMMA AuthoredGrows ==
  ASSUME NEW s \in Seq(Modifier), NEW x \in Modifier, NEW c \in BOOLEAN
  PROVE  s \o Given(c, <<x>>) \in Seq(Modifier)
<1>1. <<x>> \in Seq(Modifier) /\ << >> \in Seq(Modifier)
  OBVIOUS
<1>2. Given(c, <<x>>) \in Seq(Modifier)
  BY <1>1 DEF Given
<1> QED BY <1>2, ConcatProperties

(* What is recorded is a modifier. *)
LEMMA WroteType ==
  ASSUME NEW q \in Nat,
         NEW construct \in {"offset", "@", "subquery", "bool", "less", "bool between series"}
  PROVE  Wrote(construct, q) \in Modifier
  BY DEF Wrote, Modifier

(* An offset and a pinned instant. *)
LEMMA ModifiersType ==
  ASSUME AuthoredOK, NEW offset \in BOOLEAN, NEW pinned \in BOOLEAN, NEW q \in Nat
  PROVE  /\ Modifiers(offset, pinned, q) \in Seq(Modifier)
         /\ Len(Modifiers(offset, pinned, q)) \in Nat
<1>1. Wrote("offset", q) \in Modifier /\ Wrote("@", q) \in Modifier
  BY WroteType
<1>2. authored \o Given(offset, <<Wrote("offset", q)>>) \in Seq(Modifier)
  BY <1>1, AuthoredGrows DEF AuthoredOK
<1>3. (authored \o Given(offset, <<Wrote("offset", q)>>)) \o Given(pinned, <<Wrote("@", q)>>)
        \in Seq(Modifier)
  BY <1>1, <1>2, AuthoredGrows
<1> QED BY <1>3 DEF Modifiers

(* A subquery changes the modifiers of its operand's query. *)
LEMMA SubqueryModifies ==
  ASSUME HeapOK, StackOK, AuthoredOK, NEW offset \in BOOLEAN, NEW pinned \in BOOLEAN,
         ResolveSubqueryExpr(offset, pinned)
  PROVE  Modifies
<1> DEFINE a == Occurrence(offset, 1, query[Top.q].offset)
           b == PinOccurrence(offset, pinned, query[Top.q].pinned)
           c == Len(Modifiers(offset, pinned, Top.q)) + 1
           r == [query[Top.q] EXCEPT !.offset = a, !.pinned = b, !.subquery = c]
<1>0. stack # << >> /\ stage' = stage
  BY DEF ResolveSubqueryExpr, Operand
<1>1. Top.q \in DOMAIN query /\ query[Top.q] \in QueryRecord
  BY <1>0, TopOfStack, HeapDomains
<1>2. query[Top.q].offset \in Nat /\ query[Top.q].pinned \in Nat
  BY <1>1 DEF QueryRecord
<1>3. a \in Nat /\ b \in Nat
  BY <1>2, OccurrenceType, PinOccurrenceType
<1>4. c \in Nat
  <2>1. Len(Modifiers(offset, pinned, Top.q)) \in Nat
    BY <1>1, ModifiersType, HeapDomains DEF QueryId
  <2> QED BY <2>1
<1>5. query' = [query EXCEPT ![Top.q] = r]
  BY <1>1 DEF ResolveSubqueryExpr
<1> HIDE DEF a, b, c
<1>6. r \in QueryRecord /\ r.pipeline = query[Top.q].pipeline
  BY <1>1, <1>3, <1>4 DEF QueryRecord
<1>7. Retypes
  BY <1>0 DEF ResolveSubqueryExpr, Retypes, OperandTypes
<1> QED BY <1>0, <1>1, <1>5, <1>6, <1>7, OverwriteQuery

(* A log range gives its operand's query a window. *)
LEMMA LogRangeModifies ==
  ASSUME HeapOK, StackOK, AuthoredOK, NEW offset \in BOOLEAN, ResolveLogRange(offset)
  PROVE  Modifies
<1> DEFINE a == Occurrence(offset, 1, 0)
           r == [query[Top.q] EXCEPT !.step = TRUE, !.offset = a]
<1>0. stack # << >> /\ stage' = stage
  BY DEF ResolveLogRange, Operand
<1>1. Top.q \in DOMAIN query /\ query[Top.q] \in QueryRecord
  BY <1>0, TopOfStack, HeapDomains
<1>3. a \in Nat
  BY OccurrenceType
<1>5. query' = [query EXCEPT ![Top.q] = r]
  BY <1>1 DEF ResolveLogRange
<1> HIDE DEF a
<1>6. r \in QueryRecord /\ r.pipeline = query[Top.q].pipeline
  BY <1>1, <1>3 DEF QueryRecord
<1>7. Retypes
  <2>1. stack[Len(stack)].is \in {"log", "unwrapping"}
    BY DEF ResolveLogRange, Operand, Top
  <2>2. CASE stack[Len(stack)].is = "log"
    BY <1>0, <2>2 DEF ResolveLogRange, Retypes, OperandTypes
  <2>3. CASE stack[Len(stack)].is = "unwrapping"
    BY <1>0, <2>3 DEF ResolveLogRange, Retypes, OperandTypes
  <2> QED BY <2>1, <2>2, <2>3
<1> QED BY <1>0, <1>1, <1>5, <1>6, <1>7, OverwriteQuery

(* A stage folded into its operand. *)
LEMMA FoldingFolds ==
  ASSUME NEW st \in StageRecord, st.args = << >>, Shaped(st), NEW type \in OperandTypes,
         stack # << >>, Room(0, 1), AppendStage(st, type)
  PROVE  Folds
<1>1. Len(stage) + 1 <= MaxStages
  BY DEF Room
<1> QED BY <1>1 DEF Folds

(* The range functions, calls and aggregations fold. *)
LEMMA CallsFold ==
  ASSUME HeapOK, StackOK,
         NEW op \in {"RATE", "SUM", "QUANTILE", "COUNT_DISTINCT", "bytes_rate",
                     "stdvar_over_time", "sort", "abs", "histogram_fraction"},
         ResolveRangeFunction(op) \/ ResolveAggregateExpr(op) \/ ResolveCall(op)
  PROVE  Folds
<1>1. op \in StageNames /\ op \notin {"unwrap", "literal"}
  BY DEF StageNames, RangeFunctions
<1>2. "vector" \in OperandTypes
  BY DEF OperandTypes
<1>3. CASE ResolveRangeFunction(op)
  <2>1. stack # << >> /\ Room(0, 1)
    BY <1>3 DEF ResolveRangeFunction, Operand
  <2>2. AppendStage(Aggregation(op, "TEMPORAL"), "vector") \/ AppendStage(Function(op), "vector")
    BY <1>3 DEF ResolveRangeFunction
  <2> QED BY <1>1, <1>2, <2>1, <2>2, FoldingFolds, AggregationMade, FunctionMade
<1>4. CASE ResolveAggregateExpr(op)
  <2>1. stack # << >> /\ Room(0, 1) /\ AppendStage(Aggregation(op, "GROUP"), "vector")
    BY <1>4 DEF ResolveAggregateExpr, Operand
  <2> QED BY <1>1, <1>2, <2>1, FoldingFolds, AggregationMade
<1>5. CASE ResolveCall(op)
  <2>1. stack # << >> /\ Room(0, 1) /\ AppendStage(Function(op), "vector")
    BY <1>5 DEF ResolveCall, Operand
  <2> QED BY <1>1, <1>2, <2>1, FoldingFolds, FunctionMade
<1> QED BY <1>3, <1>4, <1>5

(* A query fetched. *)
LEMMA FetchingFetches ==
  ASSUME NEW q \in QueryRecord, q.pipeline = << >>, NEW type \in OperandTypes,
         Room(1, 0), PushQuery(q, type)
  PROVE  Fetches
<1>1. Len(query) + 1 <= MaxQueries
  BY DEF Room
<1> QED BY <1>1 DEF Fetches

(* The selectors fetch. *)
LEMMA SelectorsFetch ==
  ASSUME AuthoredOK, NEW m \in SourceKinds \cup {"name"},
         NEW offset \in BOOLEAN, NEW pinned \in BOOLEAN,
         \/ ResolveVectorSelector(m, offset, pinned) \/ ResolveMatrixSelector(m, offset, pinned)
         \/ ResolveStreamSelector(m)
  PROVE  Fetches
<1>0. {"vector", "range", "log"} \subseteq OperandTypes
  BY DEF OperandTypes
<1>1. CASE ResolveVectorSelector(m, offset, pinned)
  <2> DEFINE q == WithModifiers(NewQuery("METRIC", m), offset, pinned)
  <2>1. q \in QueryRecord /\ q.pipeline = << >>
    <3> DEFINE b == NewQuery("METRIC", m)
    <3>1. b \in QueryRecord /\ b.pipeline = << >>
      BY SelectorMade
    <3> HIDE DEF b
    <3> QED BY <3>1, SelectorModified DEF b
  <2>2. Room(1, 0) /\ PushQuery(q, "vector")
    BY <1>1 DEF ResolveVectorSelector
  <2> HIDE DEF q
  <2> QED BY <1>0, <2>1, <2>2, FetchingFetches
<1>2. CASE ResolveMatrixSelector(m, offset, pinned)
  <2> DEFINE q == WithModifiers([NewQuery("METRIC", m) EXCEPT !.step = TRUE], offset, pinned)
  <2>1. q \in QueryRecord /\ q.pipeline = << >>
    <3> DEFINE b == [NewQuery("METRIC", m) EXCEPT !.step = TRUE]
    <3>1. b \in QueryRecord /\ b.pipeline = << >>
      BY SelectorMade
    <3> HIDE DEF b
    <3> QED BY <3>1, SelectorModified DEF b
  <2>2. Room(1, 0) /\ PushQuery(q, "range")
    BY <1>2 DEF ResolveMatrixSelector
  <2> HIDE DEF q
  <2> QED BY <1>0, <2>1, <2>2, FetchingFetches
<1>3. CASE ResolveStreamSelector(m)
  <2>1. NewQuery("LOG", m) \in QueryRecord /\ NewQuery("LOG", m).pipeline = << >>
    BY SelectorMade
  <2>2. Room(1, 0) /\ PushQuery(NewQuery("LOG", m), "log")
    BY <1>3 DEF ResolveStreamSelector
  <2> QED BY <1>0, <2>1, <2>2, FetchingFetches
<1> QED BY <1>1, <1>2, <1>3

(* A log pipeline's stages, and the filters after an unwrap, fold. *)
LEMMA StagesFold ==
  ASSUME \/ \E st \in LogStage : ResolveStage(st)
         \/ ResolveUnwrap \/ ResolvePostFilter
  PROVE  Folds
<1>0. {"log", "unwrapping"} \subseteq OperandTypes
  BY DEF OperandTypes
<1>1. /\ {FieldBody, "label", "parse_json", "label_format", "line_format", "unwrap"} \subseteq StageNames
      /\ {"contains", "equal", "regex"} \subseteq Comparisons
      /\ FieldBody \notin {"unwrap", "literal"} /\ "label" \notin {"unwrap", "literal"}
  BY DEF StageNames, Comparisons, FieldBody, LogStages, Parsers, LabelFormatters, LineFormatters
<1>2. ASSUME NEW st \in LogStage, ResolveStage(st) PROVE Folds
  <2>1. st \in StageRecord /\ st.args = << >> /\ Shaped(st)
    BY <1>1, FilterMade, FunctionMade DEF LogStage
  <2>2. stack # << >> /\ Room(0, 1) /\ AppendStage(st, "log")
    BY <1>2 DEF ResolveStage, Operand
  <2> QED BY <1>0, <2>1, <2>2, FoldingFolds
<1>3. CASE ResolveUnwrap
  <2>2. stack # << >> /\ Room(0, 1) /\ AppendStage(Function("unwrap"), "unwrapping")
    BY <1>3 DEF ResolveUnwrap, Operand
  <2> QED BY <1>0, <1>1, <2>2, FoldingFolds, FunctionMade
<1>4. CASE ResolvePostFilter
  <2>2. stack # << >> /\ Room(0, 1) /\ AppendStage(Filter("label", "equal", 0), "unwrapping")
    BY <1>4 DEF ResolvePostFilter, Operand
  <2> QED BY <1>0, <1>1, <2>2, FoldingFolds, FilterMade
<1> QED BY <1>2, <1>3, <1>4

(* A comparison with a number folds. *)
LEMMA ComparisonFolds ==
  ASSUME HeapOK, StackOK, AuthoredOK, NEW numberFirst \in BOOLEAN, NEW bool \in BOOLEAN,
         ResolveComparisonFilter(numberFirst, bool)
  PROVE  Folds
<1> DEFINE b == Occurrence(bool, 1, 0)
<1>1. b \in Nat
  BY OccurrenceType
<1>2. FieldValue \in StageNames /\ "greater" \in Comparisons /\ FieldValue \notin {"unwrap", "literal"}
  BY DEF StageNames, Comparisons, FieldValue
<1>3. stack # << >> /\ Room(0, 1) /\ AppendStage(Filter(FieldValue, "greater", b), Top.is)
  BY DEF ResolveComparisonFilter, Operand
<1>4. Top.is \in OperandTypes
  BY <1>3, TopOfStack DEF Pending
<1> HIDE DEF b
<1> QED BY <1>1, <1>2, <1>3, <1>4, FoldingFolds, FilterMade

(* A number, an operator over one operand or over two, begin a query. *)
LEMMA OperatorsBegin ==
  ASSUME HeapOK, StackOK,
         ResolveLiteral \/ ResolveUnaryExpr \/ \E bool \in BOOLEAN : ResolveArithmetic(bool)
  PROVE  Begins
<1>0. {"vector", "scalar", "literal", ScalarType} \subseteq OperandTypes
  BY DEF OperandTypes, ScalarType
<1>1. CASE ResolveLiteral
  <2>1. Function("literal") \in StageRecord /\ Function("literal").args = << >>
        /\ Shaped(Function("literal"))
    <3>1. "literal" \in StageNames
      BY DEF StageNames
    <3> QED BY <3>1, FunctionMade
  <2>2. /\ Len(query) + 1 <= MaxQueries /\ Len(stage) + 1 <= MaxStages
        /\ PushStage(Function("literal"), 0, "literal")
    BY <1>1 DEF ResolveLiteral, Room
  <2>3. 0 <= Len(stack) /\ 0 \in 0..2 /\ DOMAIN << >> = 1..0
    BY DEF StackOK
  <2> HIDE DEF Begins
  <2>4. /\ DOMAIN Function("literal").args = 1..0
        /\ \A i \in 1..0 : Function("literal").args[i] = stack[Len(stack) - 0 + i].q
    BY <2>1, <2>3
  <2> QED BY <1>0, <2>1, <2>2, <2>3, <2>4 DEF Begins
<1>2. CASE ResolveUnaryExpr
  <2> DEFINE type == IF Top.is = "vector" THEN "vector" ELSE ScalarType
  <2>0. stack # << >>
    BY <1>2 DEF ResolveUnaryExpr, Operand
  <2>1. /\ UnaryOp(Top.q) \in StageRecord /\ UnaryOp(Top.q).args = <<Top.q>>
        /\ Shaped(UnaryOp(Top.q))
    BY <2>0, TopOfStack, OperatorsMade
  <2>2. /\ Len(query) + 1 <= MaxQueries /\ Len(stage) + 1 <= MaxStages
        /\ PushStage(UnaryOp(Top.q), 1, type)
    BY <1>2 DEF ResolveUnaryExpr, Room
  <2>3. 1 <= Len(stack) /\ 1 \in 0..2
    BY <2>0, TopOfStack
  <2>4. /\ DOMAIN UnaryOp(Top.q).args = 1..1
        /\ \A i \in 1..1 : UnaryOp(Top.q).args[i] = stack[Len(stack) - 1 + i].q
    <3>1. Len(stack) - 1 + 1 = Len(stack)
      BY <2>0, TopOfStack
    <3> QED BY <2>1, <3>1 DEF Top
  <2>5. type \in OperandTypes
    BY <1>0
  <2> HIDE DEF type
  <2> QED BY <2>1, <2>2, <2>3, <2>4, <2>5 DEF Begins
<1>3. ASSUME NEW bool \in BOOLEAN, ResolveArithmetic(bool) PROVE Begins
  <2> DEFINE type == IF "vector" \in {Top.is, Below.is} THEN "vector" ELSE ScalarType
             st == BinaryOp(Below.q, Top.q)
  <2>0. Len(stack) >= 2 /\ stack # << >>
    <3>1. Len(stack) >= 2
      BY <1>3 DEF ResolveArithmetic
    <3> QED BY <3>1
  <2>1. st \in StageRecord /\ st.args = <<Below.q, Top.q>> /\ Shaped(st)
    BY <2>0, TopOfStack, OperatorsMade
  <2>2. /\ Len(query) + 1 <= MaxQueries /\ Len(stage) + 1 <= MaxStages
        /\ PushStage(st, 2, type)
    BY <1>3 DEF ResolveArithmetic, Room
  <2>3. 2 <= Len(stack) /\ 2 \in 0..2
    BY <2>0, TopOfStack
  <2> HIDE DEF st
  <2>4. /\ DOMAIN st.args = 1..2
        /\ \A i \in 1..2 : st.args[i] = stack[Len(stack) - 2 + i].q
    <3>1. Len(stack) - 2 + 1 = Len(stack) - 1 /\ Len(stack) - 2 + 2 = Len(stack)
      BY <2>0, TopOfStack
    <3>2. st.args[1] = stack[Len(stack) - 1].q /\ st.args[2] = stack[Len(stack)].q
      BY <2>1 DEF Top, Below
    <3> QED BY <2>1, <3>1, <3>2
  <2>5. type \in OperandTypes
    BY <1>0
  <2> HIDE DEF type
  <2> QED BY <2>1, <2>2, <2>3, <2>4, <2>5 DEF Begins
<1> QED BY <1>1, <1>2, <1>3

(* Every step of the resolver is one of these. *)
LEMMA ResolverMoves ==
  ASSUME HeapOK, StackOK, AuthoredOK, ResolverNext
  PROVE  Moves
<1>1. ASSUME NEW m \in AllowedSources \cup {"name"}, NEW offset \in BOOLEAN, NEW pinned \in BOOLEAN,
             ResolveVectorSelector(m, offset, pinned) \/ ResolveMatrixSelector(m, offset, pinned)
      PROVE  Fetches
  BY <1>1, SelectorsFetch DEF AllowedSources
<1>2. ASSUME NEW m \in AllowedSources, ResolveStreamSelector(m) PROVE Fetches
  <2>1. TRUE \in BOOLEAN
    OBVIOUS
  <2> QED BY <1>2, <2>1, SelectorsFetch DEF AllowedSources
<1>3. CASE ResolveParenExpr
  <2>1. stack # << >> /\ stack' = [stack EXCEPT ![Len(stack)].is = ScalarType]
    BY <1>3 DEF ResolveParenExpr, Operand
  <2>2. ScalarType \in OperandTypes
    BY DEF ScalarType, OperandTypes
  <2>3. UNCHANGED heap
    BY <1>3 DEF ResolveParenExpr
  <2> QED BY <2>1, <2>2, <2>3 DEF Moves, Retypes
<1>4. ASSUME NEW op \in {"RATE", "SUM", "QUANTILE", "COUNT_DISTINCT", "bytes_rate",
                  "stdvar_over_time"},
             ResolveRangeFunction(op) \/ ResolveAggregateExpr(op)
      PROVE  Folds
  BY <1>4, CallsFold
<1>5. ASSUME NEW name \in {"sort", "abs", "histogram_fraction"}, ResolveCall(name)
      PROVE  Folds
  BY <1>5, CallsFold
<1> QED
  BY <1>1, <1>2, <1>3, <1>4, <1>5, SubqueryModifies, LogRangeModifies, StagesFold, ComparisonFolds,
     OperatorsBegin DEF Moves, ResolverNext

(* A join takes its right side from the stack and folds two stages into its   *)
(* left.                                                                      *)
LEMMA JoinOK ==
  ASSUME HeapOK, StackOK, ResolveJoin
  PROVE  HeapOK' /\ StackOK' /\ DOMAIN query' = DOMAIN query
<1> DEFINE s == Len(stage) + 1
           a == Join(Top.q)
           b == BinaryOp(None, None)
           q == Below.q
           r == [query[q] EXCEPT !.pipeline = @ \o <<s, s + 1>>]
<1>1. /\ Len(stage) + 2 <= MaxStages /\ Len(stack) >= 2 /\ stack # << >>
      /\ stage' = stage \o <<a, b>> /\ stack' = Pop(1)
  <2>1. Len(stack) >= 2
    BY DEF ResolveJoin
  <2> QED BY <2>1 DEF ResolveJoin, Room
<1>2. /\ Top.q \in DOMAIN query /\ Top.q \in QueryId /\ q \in DOMAIN query
      /\ Len(stack) \in DOMAIN stack /\ Len(stack) - 1 \in DOMAIN stack
  BY <1>1, TopOfStack
<1>3. /\ a \in StageRecord /\ a.args = <<Top.q>> /\ Shaped(a)
      /\ b \in StageRecord /\ b.args = << >> /\ Shaped(b)
  BY <1>2, OperatorsMade
<1>4. query' = [query EXCEPT ![q] = r]
  BY <1>2 DEF ResolveJoin
<1> HIDE DEF a, b
<1>5. /\ stage' \in Seq(StageRecord) /\ Len(stage') = Len(stage) + 2
      /\ \A i \in 1..Len(stage) : stage'[i] = stage[i]
      /\ stage'[s] = a /\ stage'[s + 1] = b
  <2>1. <<a, b>> \in Seq(StageRecord) /\ stage \in Seq(StageRecord) /\ Len(stage) \in Nat
    BY <1>3, HeapDomains DEF HeapOK
  <2>2. /\ stage' \in Seq(StageRecord) /\ Len(stage') = Len(stage) + 2
        /\ \A i \in 1..(Len(stage) + 2) :
              stage'[i] = IF i <= Len(stage) THEN stage[i] ELSE <<a, b>>[i - Len(stage)]
    BY <1>1, <2>1, ConcatProperties
  <2> QED BY <2>1, <2>2
<1>6. /\ DOMAIN stage' = 1..(Len(stage) + 2) /\ DOMAIN stage = 1..Len(stage) /\ Len(stage) \in Nat
      /\ s \in StageId /\ s + 1 \in StageId /\ s \in DOMAIN stage' /\ s + 1 \in DOMAIN stage'
      /\ DOMAIN stage \subseteq DOMAIN stage'
  BY <1>1, <1>5, HeapDomains DEF StageId
<1>7. query[q] \in QueryRecord /\ query[q].pipeline \in Seq(StageId)
  BY <1>2, HeapDomains DEF QueryRecord
<1> DEFINE ids == query[q].pipeline \o <<s, s + 1>>
<1>8. /\ ids \in Seq(StageId)
      /\ \A i \in DOMAIN ids : ids[i] \in DOMAIN stage'
  <2>1. <<s, s + 1>> \in Seq(StageId)
    BY <1>6
  <2>2. /\ ids \in Seq(StageId) /\ Len(ids) = Len(query[q].pipeline) + 2
        /\ \A i \in 1..(Len(query[q].pipeline) + 2) :
              ids[i] = IF i <= Len(query[q].pipeline) THEN query[q].pipeline[i]
                       ELSE <<s, s + 1>>[i - Len(query[q].pipeline)]
    BY <1>7, <2>1, ConcatProperties
  <2>3. Len(query[q].pipeline) \in Nat /\ DOMAIN query[q].pipeline = 1..Len(query[q].pipeline)
    BY <1>7
  <2>4. \A i \in DOMAIN query[q].pipeline : query[q].pipeline[i] \in DOMAIN stage
    BY <1>2 DEF HeapOK, Pipeline
  <2> HIDE DEF ids
  <2>5. ASSUME NEW i \in DOMAIN ids PROVE ids[i] \in DOMAIN stage'
    <3>1. i \in 1..(Len(query[q].pipeline) + 2)
      BY <2>2
    <3>2. CASE i <= Len(query[q].pipeline)
      <4>1. i \in DOMAIN query[q].pipeline /\ ids[i] = query[q].pipeline[i]
        BY <2>2, <2>3, <3>1, <3>2
      <4> QED BY <1>6, <2>4, <4>1
    <3>3. CASE i > Len(query[q].pipeline)
      <4>1. i = Len(query[q].pipeline) + 1 \/ i = Len(query[q].pipeline) + 2
        BY <2>3, <3>1, <3>3
      <4>2. ids[i] = <<s, s + 1>>[i - Len(query[q].pipeline)]
        <5>1. ~(i <= Len(query[q].pipeline))
          BY <2>3, <3>1, <3>3
        <5> QED BY <2>2, <3>1, <5>1, Zenon
      <4>3. i - Len(query[q].pipeline) \in {1, 2}
        BY <2>3, <4>1
      <4>4. <<s, s + 1>>[i - Len(query[q].pipeline)] \in {s, s + 1}
        BY <4>3
      <4>5. ids[i] \in {s, s + 1}
        BY <4>2, <4>4, Zenon
      <4> QED BY <1>6, <4>5
    <3> QED BY <2>3, <3>1, <3>2, <3>3
  <2> QED BY <2>2, <2>5
<1>9. r \in QueryRecord /\ r.pipeline = ids
  <2> HIDE DEF ids
  <2>1. r = [query[q] EXCEPT !.pipeline = ids]
    BY DEF ids
  <2> QED BY <1>7, <1>8, <2>1 DEF QueryRecord
<1> HIDE DEF r, ids
<1>10. /\ query' \in Seq(QueryRecord) /\ Len(query') = Len(query)
       /\ \A p \in 1..Len(query) : query'[p] = IF p = q THEN r ELSE query[p]
  BY <1>2, <1>4, <1>9, ExceptSeq, HeapDomains DEF HeapOK
<1>11. DOMAIN query' = 1..Len(query) /\ DOMAIN query = 1..Len(query)
  BY <1>10, HeapDomains
<1>12. \A p \in DOMAIN query' : \A i \in DOMAIN query'[p].pipeline :
          query'[p].pipeline[i] \in DOMAIN stage'
  <2> SUFFICES ASSUME NEW p \in DOMAIN query', NEW i \in DOMAIN query'[p].pipeline
               PROVE  query'[p].pipeline[i] \in DOMAIN stage'
    OBVIOUS
  <2>1. CASE p = q
    <3>1. query'[p].pipeline = ids
      BY <1>9, <1>10, <1>11, <2>1
    <3> QED BY <1>8, <3>1
  <2>2. CASE p # q
    BY <1>6, <1>10, <1>11, <2>2 DEF HeapOK, Pipeline
  <2> QED BY <2>1, <2>2
<1>13. \A t \in DOMAIN stage' : /\ Shaped(stage'[t])
                                /\ \A i \in DOMAIN stage'[t].args :
                                      stage'[t].args[i] \in DOMAIN query'
  <2> SUFFICES ASSUME NEW t \in DOMAIN stage'
               PROVE  Shaped(stage'[t]) /\ \A i \in DOMAIN stage'[t].args :
                                              stage'[t].args[i] \in DOMAIN query'
    OBVIOUS
  <2>1. CASE t = s
    BY <1>2, <1>3, <1>5, <1>11, <2>1
  <2>2. CASE t = s + 1
    BY <1>3, <1>5, <2>2
  <2>3. CASE t # s /\ t # s + 1
    <3>1. t \in DOMAIN stage
      BY <1>6, <2>3
    <3>2. stage'[t] = stage[t]
      BY <1>5, <1>6, <3>1
    <3> QED BY <1>11, <3>1, <3>2 DEF HeapOK
  <2> QED BY <2>1, <2>2, <2>3
<1>14. HeapOK'
  <2>1. Len(query') <= MaxQueries /\ Len(stage') <= MaxStages
    BY <1>1, <1>5, <1>10 DEF HeapOK
  <2> QED BY <1>5, <1>10, <1>12, <1>13, <2>1 DEF HeapOK, Pipeline
<1>15. StackOK'
  <2>1. /\ Pop(1) \in Seq(Pending)
        /\ \A i \in DOMAIN Pop(1) : i \in DOMAIN stack /\ Pop(1)[i] = stack[i]
    <3>1. Len(stack) \in Nat /\ DOMAIN stack = 1..Len(stack)
          /\ \A i \in 1..Len(stack) : stack[i] \in Pending
      BY DEF StackOK
    <3>2. 1 \in Int /\ Len(stack) - 1 \in Int /\ \A i \in 1..(Len(stack) - 1) : stack[i] \in Pending
      BY <3>1
    <3>3. /\ SubSeq(stack, 1, Len(stack) - 1) \in Seq(Pending)
          /\ Len(SubSeq(stack, 1, Len(stack) - 1)) =
                 IF 1 <= Len(stack) - 1 THEN (Len(stack) - 1) - 1 + 1 ELSE 0
          /\ \A i \in 1..((Len(stack) - 1) - 1 + 1) :
                 SubSeq(stack, 1, Len(stack) - 1)[i] = stack[1 + i - 1]
      BY <3>2, SubSeqProperties
    <3> QED BY <3>1, <3>3 DEF Pop
  <2> QED BY <1>1, <1>11, <2>1 DEF StackOK
<1> QED BY <1>11, <1>14, <1>15

(* What an author may have written, besides nothing. *)
LEMMA AuthoredCases ==
  ASSUME ResolverNext
  PROVE  \/ UNCHANGED authored
         \/ \E offset, pinned \in BOOLEAN :
               authored' = Modifiers(offset, pinned, Len(query) + 1)
         \/ \E offset, pinned \in BOOLEAN : ResolveSubqueryExpr(offset, pinned)
         \/ \E offset \in BOOLEAN : ResolveLogRange(offset)
         \/ \E bool \in BOOLEAN : ResolveArithmetic(bool)
         \/ \E numberFirst, bool \in BOOLEAN : ResolveComparisonFilter(numberFirst, bool)
  BY DEF ResolverNext, ResolveVectorSelector, ResolveMatrixSelector, ResolveStreamSelector,
         ResolveStage, ResolveUnwrap, ResolvePostFilter, ResolveRangeFunction, ResolveCall,
         ResolveAggregateExpr, ResolveLiteral, ResolveJoin, ResolveUnaryExpr, ResolveParenExpr

(* Each modifier is recorded. *)
LEMMA AuthoredType ==
  ASSUME HeapOK, StackOK, AuthoredOK, ResolverNext
  PROVE  AuthoredOK'
<1>0. Len(query) + 1 \in Nat /\ Len(stage) + 1 \in Nat
  BY HeapDomains
<1>1. ASSUME NEW offset \in BOOLEAN, NEW pinned \in BOOLEAN, NEW q \in Nat,
             authored' = Modifiers(offset, pinned, q)
      PROVE  AuthoredOK'
  BY <1>1, ModifiersType DEF AuthoredOK
<1>2. ASSUME NEW offset \in BOOLEAN, NEW pinned \in BOOLEAN, ResolveSubqueryExpr(offset, pinned)
      PROVE  AuthoredOK'
  <2>1. Top.q \in Nat
    BY <1>2, TopOfStack DEF ResolveSubqueryExpr, Operand, QueryId
  <2>2. Modifiers(offset, pinned, Top.q) \in Seq(Modifier) /\ Wrote("subquery", Top.q) \in Modifier
    BY <2>1, ModifiersType, WroteType
  <2>3. authored' = Append(Modifiers(offset, pinned, Top.q), Wrote("subquery", Top.q))
    BY <1>2 DEF ResolveSubqueryExpr
  <2> QED BY <2>2, <2>3, AppendProperties DEF AuthoredOK
<1>3. ASSUME NEW offset \in BOOLEAN, ResolveLogRange(offset) PROVE AuthoredOK'
  <2>1. Top.q \in Nat
    <3>1. stack # << >>
      BY <1>3 DEF ResolveLogRange, Operand
    <3> QED BY <3>1, TopOfStack DEF QueryId
  <2>2. authored' = Modifiers(offset, FALSE, Top.q)
    BY <1>3 DEF ResolveLogRange
  <2> QED BY <1>1, <2>1, <2>2
<1>4. ASSUME NEW bool \in BOOLEAN, ResolveArithmetic(bool) PROVE AuthoredOK'
  <2>1. authored' = authored \o Given(bool, <<Wrote("bool between series", Len(query) + 1)>>)
    BY <1>4 DEF ResolveArithmetic
  <2> QED BY <1>0, <2>1, WroteType, AuthoredGrows DEF AuthoredOK
<1>5. ASSUME NEW numberFirst \in BOOLEAN, NEW bool \in BOOLEAN,
             ResolveComparisonFilter(numberFirst, bool)
      PROVE  AuthoredOK'
  <2>1. Top.q \in Nat
    <3>1. stack # << >>
      BY <1>5 DEF ResolveComparisonFilter, Operand
    <3> QED BY <3>1, TopOfStack DEF QueryId
  <2>2. authored' = (authored \o Given(bool, <<Wrote("bool", Top.q)>>))
                      \o Given(numberFirst, <<Wrote("less", Len(stage) + 1)>>)
    BY <1>5 DEF ResolveComparisonFilter
  <2>3. Wrote("bool", Top.q) \in Modifier /\ Wrote("less", Len(stage) + 1) \in Modifier
    BY <1>0, <2>1, WroteType
  <2>4. authored \o Given(bool, <<Wrote("bool", Top.q)>>) \in Seq(Modifier)
    BY <2>3, AuthoredGrows DEF AuthoredOK
  <2> QED BY <2>2, <2>3, <2>4, AuthoredGrows DEF AuthoredOK
<1>6. CASE UNCHANGED authored
  BY <1>6 DEF AuthoredOK
<1> QED BY <1>0, <1>1, <1>2, <1>3, <1>4, <1>5, <1>6, AuthoredCases

(* Resolution keeps the types. *)
LEMMA ResolverTypes ==
  ASSUME HeapOK, StackOK, AuthoredOK, ResolverNext
  PROVE  HeapOK' /\ StackOK' /\ AuthoredOK'
<1>0. SUFFICES HeapOK' /\ StackOK'
  BY AuthoredType
<1>1. CASE Fetches
  BY <1>1, PushQueryOK DEF Fetches
<1>2. CASE Begins
  <2>1. PICK st \in StageRecord, n \in 0..2, type \in OperandTypes :
           /\ n <= Len(stack) /\ Len(query) + 1 <= MaxQueries /\ Len(stage) + 1 <= MaxStages
           /\ Shaped(st) /\ DOMAIN st.args = 1..n
           /\ \A i \in 1..n : st.args[i] = stack[Len(stack) - n + i].q
           /\ PushStage(st, n, type)
    BY <1>2 DEF Begins
  <2>2. Len(stack) \in Nat /\ DOMAIN stack = 1..Len(stack)
    BY DEF StackOK
  <2>3. \A i \in 1..n : Len(stack) - n + i \in DOMAIN stack
    BY <2>1, <2>2
  <2>4. \A i \in DOMAIN st.args : st.args[i] \in DOMAIN query
    BY <2>1, <2>3 DEF StackOK
  <2>5. n \in 0..Len(stack)
    BY <2>1, <2>2
  <2> QED BY <2>1, <2>4, <2>5, PushStageOK
<1>3. CASE Folds
  BY <1>3, AppendStageOK DEF Folds
<1>4. CASE Modifies
  <2>1. PICK r \in QueryRecord :
           /\ r.pipeline = query[Top.q].pipeline
           /\ query' = [query EXCEPT ![Top.q] = r] /\ stage' = stage
           /\ Retypes
    BY <1>4 DEF Modifies
  <2>2. PICK type \in OperandTypes :
           stack # << >> /\ stack' = [stack EXCEPT ![Len(stack)].is = type]
    BY <2>1 DEF Retypes
  <2>3. Top.q \in DOMAIN query /\ Len(stack) \in DOMAIN stack
    BY <2>2, TopOfStack
  <2>4. HeapOK' /\ DOMAIN query' = DOMAIN query
    BY <2>1, <2>3, ModifyOK
  <2> QED BY <2>2, <2>3, <2>4, RetypeOK
<1>5. CASE ResolveJoin
  BY <1>5, JoinOK
<1>6. CASE Retypes /\ UNCHANGED heap
  <2>1. PICK type \in OperandTypes :
           stack # << >> /\ stack' = [stack EXCEPT ![Len(stack)].is = type]
    BY <1>6 DEF Retypes
  <2>2. HeapOK'
    BY <1>6 DEF HeapOK, heap, Pipeline
  <2>3. Len(stack) \in DOMAIN stack
    BY <2>1, TopOfStack
  <2> QED BY <1>6, <2>1, <2>2, <2>3, RetypeOK DEF heap
<1> QED BY <1>1, <1>2, <1>3, <1>4, <1>5, <1>6, ResolverMoves DEF Moves

-----------------------------------------------------------------------------
(* The tree. *)

(* What is allocated are nodes. *)
LEMMA LiveNodes ==
  ASSUME HeapOK
  PROVE  Live \subseteq Node
  BY HeapDomains DEF Live, Node, QueryKinds, StageKinds

(* The node of each part. *)
LEMMA LiveParts ==
  /\ \A q \in DOMAIN query, kind \in QueryKinds : <<kind, q>> \in Live
  /\ \A s \in DOMAIN stage, kind \in StageKinds : <<kind, s>> \in Live
  BY DEF Live

(* A sequence of ids gives a sequence of nodes. *)
LEMMA NodesOfType ==
  ASSUME NEW kind, NEW ids, NEW S, ids \in Seq(S), NEW T,
         \A i \in DOMAIN ids : <<kind, ids[i]>> \in T
  PROVE  NodesOf(kind, ids) \in Seq(T)
<1>1. DOMAIN ids = 1..Len(ids) /\ Len(ids) \in Nat
  OBVIOUS
<1>2. NodesOf(kind, ids) = [i \in 1..Len(ids) |-> <<kind, ids[i]>>]
  BY <1>1 DEF NodesOf
<1>3. \A i \in 1..Len(ids) : <<kind, ids[i]>> \in T
  BY <1>1
<1> HIDE DEF NodesOf
<1> QED BY <1>1, <1>2, <1>3, IsASeq

(* A node that is there or is not. *)
LEMMA GivenType ==
  ASSUME NEW S, NEW x \in S, NEW c
  PROVE  Given(c, <<x>>) \in Seq(S)
<1>1. <<x>> \in Seq(S) /\ << >> \in Seq(S)
  OBVIOUS
<1> QED BY <1>1 DEF Given

(* What hangs below a query with a given pipeline. *)
LEMMA QueryChildrenType ==
  ASSUME HeapOK, NEW q \in DOMAIN query, NEW ids \in Seq(StageId),
         \A i \in DOMAIN ids : ids[i] \in DOMAIN stage
  PROVE  QueryChildren(q, ids) \in Seq(Live)
<1>1. <<"Source", q>> \in Live /\ <<"Output", q>> \in Live
  BY LiveParts DEF QueryKinds
<1>2. Given(query[q].source # "none", << <<"Source", q>> >>) \in Seq(Live)
  BY <1>1, GivenType
<1>3. \A i \in DOMAIN ids : <<"Stage", ids[i]>> \in Live
  BY LiveParts DEF StageKinds
<1>4. NodesOf("Stage", ids) \in Seq(Live)
  BY <1>3, NodesOfType
<1>5. << <<"Output", q>> >> \in Seq(Live)
  BY <1>1
<1>6. (Given(query[q].source # "none", << <<"Source", q>> >>) \o NodesOf("Stage", ids))
        \in Seq(Live)
  BY <1>2, <1>4, ConcatProperties
<1>7. (Given(query[q].source # "none", << <<"Source", q>> >>) \o NodesOf("Stage", ids))
        \o << <<"Output", q>> >> \in Seq(Live)
  BY <1>5, <1>6, ConcatProperties
<1> QED BY <1>7 DEF QueryChildren

(* What hangs below a node is allocated. *)
LEMMA ChildrenType ==
  ASSUME HeapOK, NEW n \in Live
  PROVE  Children(n) \in Seq(Live)
<1>0. << >> \in Seq(Live)
  OBVIOUS
<1>1. CASE n \in QueryKinds \X DOMAIN query
  <2> DEFINE q == n[2]
  <2>1. q \in DOMAIN query /\ n[1] \in QueryKinds
    BY <1>1
  <2>2. Pipeline(q) \in Seq(StageId) /\ \A i \in DOMAIN Pipeline(q) : Pipeline(q)[i] \in DOMAIN stage
    <3>1. query[q] \in QueryRecord
      BY <2>1, HeapDomains
    <3> QED BY <2>1, <3>1 DEF Pipeline, HeapOK, QueryRecord
  <2>3. /\ <<"Matcher", q>> \in Live /\ <<"Range", q>> \in Live /\ <<"Window", q>> \in Live
    BY <2>1, LiveParts DEF QueryKinds
  <2>4. CASE n[1] = "Query"
    <3>1. Children(n) = QueryChildren(q, Pipeline(q))
      BY <2>4 DEF Children, Pipeline
    <3> QED BY <2>1, <2>2, <3>1, QueryChildrenType
  <2>5. CASE n[1] = "Source"
    <3>1. Children(n) = Given(query[q].source # "name", << <<"Matcher", q>> >>)
      BY <2>5 DEF Children
    <3> QED BY <2>3, <3>1, GivenType
  <2>6. CASE n[1] = "Output"
    <3>1. Children(n) = Given(query[q].pinned > 0, << <<"Range", q>> >>)
                              \o Given(HasWindow(q), << <<"Window", q>> >>)
      BY <2>6 DEF Children
    <3>2. /\ Given(query[q].pinned > 0, << <<"Range", q>> >>) \in Seq(Live)
          /\ Given(HasWindow(q), << <<"Window", q>> >>) \in Seq(Live)
      BY <2>3, GivenType
    <3> QED BY <3>1, <3>2, ConcatProperties
  <2>7. CASE n[1] \in {"Matcher", "Range", "Window"}
    BY <1>0, <2>7 DEF Children
  <2> QED BY <2>1, <2>4, <2>5, <2>6, <2>7 DEF QueryKinds
<1>2. CASE n \in StageKinds \X DOMAIN stage
  <2> DEFINE s == n[2]
  <2>1. s \in DOMAIN stage /\ n[1] \in StageKinds
    BY <1>2
  <2>2. stage[s].args \in Seq(QueryId) /\ \A i \in DOMAIN stage[s].args : stage[s].args[i] \in DOMAIN query
    <3>1. stage[s] \in StageRecord
      BY <2>1, HeapDomains
    <3> QED BY <2>1, <3>1 DEF HeapOK, StageRecord
  <2>3. <<"Predicate", s>> \in Live /\ <<"Argument", s>> \in Live
    BY <2>1, LiveParts DEF StageKinds
  <2>4. CASE n[1] = "Stage"
    <3>1. Children(n) = StageChildren(s)
      BY <2>4 DEF Children
    <3>2. << <<"Predicate", s>> >> \in Seq(Live) /\ << <<"Argument", s>> >> \in Seq(Live)
      BY <2>3
    <3>3. NodesOf("Query", stage[s].args) \in Seq(Live)
      <4>1. \A i \in DOMAIN stage[s].args : <<"Query", stage[s].args[i]>> \in Live
        BY <2>2, LiveParts DEF QueryKinds
      <4> QED BY <2>2, <4>1, NodesOfType
    <3> QED BY <3>1, <3>2, <3>3 DEF StageChildren
  <2>5. CASE n[1] \in {"Predicate", "Argument"}
    BY <1>0, <2>5 DEF Children
  <2> QED BY <2>1, <2>4, <2>5 DEF StageKinds
<1> QED BY <1>1, <1>2 DEF Live

(* Sorting a pipeline keeps it a sequence of stages the resolver allocated. *)
LEMMA ReorderedType ==
  ASSUME NEW ids \in Seq(StageId), NEW S, \A i \in DOMAIN ids : ids[i] \in S
  PROVE  /\ Reordered(ids, def) \in Seq(StageId) /\ Len(Reordered(ids, def)) = Len(ids)
         /\ DOMAIN Reordered(ids, def) = DOMAIN ids
         /\ \A i \in DOMAIN ids : Reordered(ids, def)[i] \in S
<1>1. PICK p \in [DOMAIN ids -> DOMAIN ids] :
         Reordered(ids, def) = [k \in DOMAIN ids |-> ids[p[k]]]
  BY SortKeepsStages
<1>2. DOMAIN ids = 1..Len(ids) /\ Len(ids) \in Nat /\ \A i \in DOMAIN ids : ids[i] \in StageId
  OBVIOUS
<1>3. \A k \in DOMAIN ids : ids[p[k]] \in StageId /\ ids[p[k]] \in S
  BY <1>2
<1>4. [k \in 1..Len(ids) |-> ids[p[k]]] \in Seq(StageId)
  BY <1>2, <1>3, IsASeq
<1> QED BY <1>1, <1>2, <1>3, <1>4

-----------------------------------------------------------------------------
(* The verdicts. *)

Grounds ==
    [PARTIAL |-> {"absent data", "stage order", "regex dialect", "bool", "other axis"},
     UNSUPPORTED |-> {"subquery", "no samples", "offset without range", "no log body",
                      "no function", "no aggregation", "join", "arithmetic", "no window"}]

(* A verdict given with its reason's flag is a judgement. *)
LEMMA RaiseType ==
  ASSUME NEW c, NEW n \in Node, NEW f, NEW why,
         \/ f = PARTIAL /\ why \in Grounds.PARTIAL
         \/ f = UNSUPPORTED /\ why \in Grounds.UNSUPPORTED
  PROVE  /\ Verdict(n, f, why) \in Judgement
         /\ Raise(c, n, f, why) \subseteq Judgement
         /\ \A v \in Raise(c, n, f, why) : v.node = n
<1>1. why \in Reasons /\ f \in Flags /\ f = Severity(why)
  BY DEF Grounds, Reasons, Flags, Severity
<1>2. Verdict(n, f, why) \in VerdictRecord
  BY <1>1 DEF Verdict, VerdictRecord
<1>3. /\ Verdict(n, f, why).node = n /\ Verdict(n, f, why).flag = f
      /\ Verdict(n, f, why).reason = why /\ Verdict(n, f, why).path = "walked"
  BY DEF Verdict
<1>4. Verdict(n, f, why) \in Judgement
  BY <1>1, <1>2, <1>3 DEF Judgement
<1>5. \A v \in Raise(c, n, f, why) : v = Verdict(n, f, why)
  BY DEF Raise
<1> QED BY <1>3, <1>4, <1>5

(* Only what the sort is found to have done is listed under a bare path. *)
LEMMA BarePathType ==
  ASSUME NEW v \in Judgement, v.reason = "stage order"
  PROVE  AtBarePath(v) \in Judgement /\ AtBarePath(v).node = v.node
<1>1. v \in VerdictRecord /\ v.flag = Severity(v.reason)
  BY DEF Judgement
<1>2. AtBarePath(v) \in VerdictRecord
  BY <1>1 DEF AtBarePath, VerdictRecord
<1>3. /\ AtBarePath(v).flag = v.flag /\ AtBarePath(v).reason = v.reason
      /\ AtBarePath(v).node = v.node
  BY <1>1 DEF AtBarePath, VerdictRecord
<1> QED BY <1>1, <1>2, <1>3 DEF Judgement

(* The checks on a query and its pipeline. *)
LEMMA QueryChecksType ==
  ASSUME HeapOK, NEW q \in DOMAIN query, NEW ids \in Seq(StageId),
         \A i \in DOMAIN ids : ids[i] \in DOMAIN stage
  PROVE  /\ checkSentinelSemantics(q) \subseteq Judgement
         /\ checkPipelineOrder(ids) \subseteq Judgement
         /\ {AtBarePath(v) : v \in checkPipelineOrder(ids)} \subseteq Judgement
         /\ \A v \in checkPipelineOrder(ids) : AtBarePath(v).node = v.node
         /\ checkSubquery(q) \subseteq Judgement
         /\ checkAggregationOperand(q, ids) \subseteq Judgement
         /\ checkOffset(q, ids) \subseteq Judgement
<1>1. /\ QueryNode(q) \in Node /\ <<"Output", q>> \in Node /\ <<"Window", q>> \in Node
      /\ \A i \in DOMAIN ids : StageNode(ids[i]) \in Node
  BY HeapDomains DEF Node, QueryNode, StageNode
<1>2. checkSentinelSemantics(q) \subseteq Judgement
  BY <1>1, RaiseType DEF checkSentinelSemantics, Grounds
<1>3. checkPipelineOrder(ids) \subseteq Judgement
      /\ \A v \in checkPipelineOrder(ids) : v.reason = "stage order"
  <2>1. \A i \in DOMAIN ids :
           Raise(def.pipelineOrdered, StageNode(ids[i]), PARTIAL, "stage order") \subseteq Judgement
    BY <1>1, RaiseType DEF Grounds
  <2>2. \A n, c : \A v \in Raise(c, n, PARTIAL, "stage order") : v.reason = "stage order"
    <3>1. \A n, c : \A v \in Raise(c, n, PARTIAL, "stage order") :
             v = Verdict(n, PARTIAL, "stage order")
      BY DEF Raise
    <3>2. \A n : Verdict(n, PARTIAL, "stage order").reason = "stage order"
      BY DEF Verdict
    <3> QED BY <3>1, <3>2
  <2>3. \A v \in checkPipelineOrder(ids) : \E i \in DOMAIN ids :
           v \in Raise(def.pipelineOrdered, StageNode(ids[i]), PARTIAL, "stage order")
    BY DEF checkPipelineOrder
  <2>4. checkPipelineOrder(ids) \subseteq Judgement
    BY <2>1, <2>3
  <2>5. \A v \in checkPipelineOrder(ids) : v.reason = "stage order"
    BY <2>2, <2>3
  <2> QED BY <2>4, <2>5
<1>4. /\ {AtBarePath(v) : v \in checkPipelineOrder(ids)} \subseteq Judgement
      /\ \A v \in checkPipelineOrder(ids) : AtBarePath(v).node = v.node
  <2>1. ASSUME NEW v \in checkPipelineOrder(ids)
        PROVE  AtBarePath(v) \in Judgement /\ AtBarePath(v).node = v.node
    <3>1. v \in Judgement /\ v.reason = "stage order"
      BY <1>3, <2>1
    <3> QED BY <3>1, BarePathType
  <2> QED BY <2>1
<1>5. checkSubquery(q) \subseteq Judgement
  <2>1. \A n \in {<<"Output", q>>, QueryNode(q)} :
           Raise(IsSubquery(q) /\ ~def.subqueries, n, UNSUPPORTED, "subquery") \subseteq Judgement
    BY <1>1, RaiseType DEF Grounds
  <2> QED BY <2>1 DEF checkSubquery
<1>6. checkAggregationOperand(q, ids) \subseteq Judgement
  <2>1. \A i \in DOMAIN ids :
           Raise(/\ def.groupAggregationNeedsSamples
                 /\ query[q].signal = "METRIC" => ~SupportsSignal(def, "METRIC"),
                 StageNode(ids[i]), UNSUPPORTED, "no samples") \subseteq Judgement
    BY <1>1, RaiseType DEF Grounds
  <2>2. GroupWithoutSamples(ids) \subseteq DOMAIN ids
    BY DEF GroupWithoutSamples
  <2> QED BY <2>1, <2>2 DEF checkAggregationOperand
<1>7. checkOffset(q, ids) \subseteq Judgement
  BY <1>1, RaiseType DEF checkOffset, Grounds
<1> QED BY <1>2, <1>3, <1>4, <1>5, <1>6, <1>7

(* The checks on a matcher and on a window. *)
LEMMA LeafChecksType ==
  ASSUME NEW n \in Node, NEW field, NEW op
  PROVE  checkMatcher(n, field, op) \subseteq Judgement /\ checkWindow(n) \subseteq Judgement
<1>1. /\ Verdict(n, UNSUPPORTED, "no log body") \in Judgement
      /\ Raise(Source # Target /\ op = "regex", n, PARTIAL, "regex dialect") \subseteq Judgement
  BY RaiseType DEF Grounds
<1>2. checkMatcher(n, field, op) \subseteq Judgement
  BY <1>1 DEF checkMatcher
<1>3. checkWindow(n) \subseteq Judgement
  BY RaiseType DEF checkWindow, Grounds
<1> QED BY <1>2, <1>3

(* The checks on a stage. *)
LEMMA StageChecksType ==
  ASSUME HeapOK, NEW s \in DOMAIN stage
  PROVE  checkStage(s) \subseteq Judgement
<1> DEFINE m == StageNode(s)
           st == stage[s]
<1>1. m \in Node /\ st \in StageRecord
  BY HeapDomains DEF Node, StageNode
<1> HIDE DEF m, st
<1>2. checkFilter(m, st) \subseteq Judgement
  BY <1>1, RaiseType DEF checkFilter, Grounds
<1>3. checkFunction(m, st) \subseteq Judgement
  BY <1>1, RaiseType DEF checkFunction, Grounds
<1>4. checkAggregation(m, st) \subseteq Judgement
  <2>1. \A c : /\ Raise(c, m, PARTIAL, "other axis") \subseteq Judgement
               /\ Raise(c, m, UNSUPPORTED, "no aggregation") \subseteq Judgement
    BY <1>1, RaiseType DEF Grounds
  <2> QED BY <2>1 DEF checkAggregation
<1>5. checkJoin(m) \subseteq Judgement
  BY <1>1, RaiseType DEF checkJoin, Grounds
<1>6. checkArithmetic(m) \subseteq Judgement
  BY <1>1, RaiseType DEF checkArithmetic, Grounds
<1>7. st.type \in {"Filter", "Function", "Aggregation", "Join", "BinaryOp", "UnaryOp"}
  BY <1>1 DEF StageRecord
<1> QED BY <1>2, <1>3, <1>4, <1>5, <1>6, <1>7 DEF checkStage, IsOperator, m, st

-----------------------------------------------------------------------------
(* The walk. *)

(* The walk goes on among what is allocated. *)
LEMMA DescendType ==
  ASSUME toVisit \in Seq(Live), toVisit # << >>, NEW children \in Seq(Live), Descend(children)
  PROVE  toVisit' \in Seq(Live)
<1>1. Tail(toVisit) \in Seq(Live)
  OBVIOUS
<1> QED BY <1>1, ConcatProperties DEF Descend

(* The next node to visit. *)
LEMMA NextNode ==
  ASSUME HeapOK, toVisit \in Seq(Live), toVisit # << >>
  PROVE  /\ Head(toVisit) \in Live /\ Head(toVisit) \in Node
         /\ Head(toVisit)[1] \in QueryKinds => Head(toVisit)[2] \in DOMAIN query
         /\ Head(toVisit)[1] \in StageKinds => Head(toVisit)[2] \in DOMAIN stage
<1>1. Head(toVisit) \in Live
  OBVIOUS
<1>2. QueryKinds \cap StageKinds = {}
  BY DEF QueryKinds, StageKinds
<1> QED BY <1>1, <1>2, LiveNodes DEF Live

(* A query's pipeline as the resolver and the sort leave it. *)
LEMMA PipelineType ==
  ASSUME HeapOK, NEW q \in DOMAIN query
  PROVE  /\ query[q] \in QueryRecord /\ Pipeline(q) \in Seq(StageId)
         /\ \A i \in DOMAIN Pipeline(q) : Pipeline(q)[i] \in DOMAIN stage
         /\ LET r == [query[q] EXCEPT !.pipeline = Reordered(Pipeline(q), def)]
            IN  r \in QueryRecord /\ r.pipeline = Reordered(Pipeline(q), def)
<1> DEFINE ids == Reordered(Pipeline(q), def)
<1>1. query[q] \in QueryRecord
  BY HeapDomains
<1>2. Pipeline(q) \in Seq(StageId) /\ \A i \in DOMAIN Pipeline(q) : Pipeline(q)[i] \in DOMAIN stage
  BY <1>1 DEF Pipeline, HeapOK, QueryRecord
<1>3. ids \in Seq(StageId)
  BY <1>2, ReorderedType
<1> HIDE DEF ids
<1>4. [query[q] EXCEPT !.pipeline = ids] \in QueryRecord
      /\ [query[q] EXCEPT !.pipeline = ids].pipeline = ids
  BY <1>1, <1>3 DEF QueryRecord
<1> QED BY <1>1, <1>2, <1>4 DEF ids

(* Sorting the pipeline of one query keeps the heap well formed. *)
LEMMA SortedHeap ==
  ASSUME HeapOK, NEW q \in DOMAIN query, stage' = stage, NEW r \in QueryRecord,
         r.pipeline = Reordered(Pipeline(q), def), query' = [query EXCEPT ![q] = r]
  PROVE  /\ HeapOK' /\ DOMAIN query' = DOMAIN query
         /\ \A p \in DOMAIN query : query'[p] = IF p = q THEN r ELSE query[p]
<1>1. \A i \in DOMAIN r.pipeline : r.pipeline[i] \in DOMAIN stage
  BY PipelineType, ReorderedType
<1>2. /\ query' \in Seq(QueryRecord) /\ Len(query') = Len(query)
      /\ \A p \in 1..Len(query) : query'[p] = IF p = q THEN r ELSE query[p]
  BY ExceptSeq, HeapDomains DEF HeapOK
<1>3. DOMAIN query' = 1..Len(query) /\ DOMAIN query = 1..Len(query)
  BY <1>2, HeapDomains
<1>4. \A p \in DOMAIN query' : \A i \in DOMAIN query'[p].pipeline :
         query'[p].pipeline[i] \in DOMAIN stage
  BY <1>1, <1>2, <1>3 DEF HeapOK, Pipeline
<1>5. HeapOK'
  BY <1>2, <1>3, <1>4 DEF HeapOK, Pipeline
<1> QED BY <1>2, <1>3, <1>5

(* Visiting a query sorts its pipeline and changes nothing else of the heap. *)
LEMMA VisitQueryHeap ==
  ASSUME HeapOK, NEW q \in DOMAIN query, stage' = stage,
         query' = [query EXCEPT ![q].pipeline = Reordered(Pipeline(q), def)]
  PROVE  /\ HeapOK' /\ DOMAIN query' = DOMAIN query
         /\ query'[q].pipeline = Reordered(Pipeline(q), def)
         /\ \A p \in DOMAIN query : p # q => query'[p] = query[p]
<1> DEFINE r == [query[q] EXCEPT !.pipeline = Reordered(Pipeline(q), def)]
<1>1. query' = [query EXCEPT ![q] = r]
  OBVIOUS
<1>2. r \in QueryRecord /\ r.pipeline = Reordered(Pipeline(q), def)
  BY PipelineType
<1> HIDE DEF r
<1>3. /\ HeapOK' /\ DOMAIN query' = DOMAIN query
      /\ \A p \in DOMAIN query : query'[p] = IF p = q THEN r ELSE query[p]
  BY <1>1, <1>2, SortedHeap
<1> QED BY <1>2, <1>3, Zenon

(* A verdict that is recorded. *)
LEMMA ReportType ==
  ASSUME WalkOK, HeapOK, Report
  PROVE  WalkOK'
<1>1. PICK v \in verdicts :
         /\ flag' = [flag EXCEPT ![v.node] = IF v.flag > @ THEN v.flag ELSE @]
         /\ reason' = [reason EXCEPT ![v.node] = IF v.flag > flag[v.node] THEN v.reason ELSE @]
         /\ issues' = issues \cup {v}
         /\ verdicts' = verdicts \ {v}
         /\ UNCHANGED <<heap, toVisit, mismatch>>
  BY DEF Report
<1>2. v \in Judgement /\ v \in VerdictRecord
  BY <1>1 DEF WalkOK, Judgement
<1>3. v.node \in Node /\ v.flag \in Flags /\ v.reason \in Reasons
  BY <1>2 DEF VerdictRecord
<1>4. flag' \in [Node -> Flags] /\ reason' \in [Node -> Reasons]
  BY <1>1, <1>3 DEF WalkOK
<1>5. toVisit' \in Seq(Live') /\ mismatch' \in BOOLEAN
  BY <1>1 DEF WalkOK, Live, heap
<1> QED BY <1>1, <1>2, <1>4, <1>5 DEF WalkOK

(* The walk keeps the types. *)
LEMMA ValidatorTypes ==
  ASSUME HeapOK, WalkOK, ValidatorNext
  PROVE  HeapOK' /\ WalkOK' /\ DOMAIN query' = DOMAIN query
<1>0. ASSUME toVisit' \in Seq(Live), DOMAIN query' = DOMAIN query, stage' = stage,
             verdicts' \subseteq Judgement, UNCHANGED <<flag, reason, issues, mismatch>>
      PROVE  WalkOK'
  BY <1>0 DEF WalkOK, Live
<1>1. ASSUME UNCHANGED heap PROVE HeapOK' /\ DOMAIN query' = DOMAIN query /\ stage' = stage
  BY <1>1 DEF HeapOK, heap, Pipeline
<1>2. ASSUME NEW kinds, AtNode(kinds)
      PROVE  /\ toVisit \in Seq(Live) /\ toVisit # << >> /\ verdicts = {}
             /\ Head(toVisit)[1] \in kinds
             /\ Head(toVisit) \in Live /\ Head(toVisit) \in Node
             /\ Children(Head(toVisit)) \in Seq(Live)
             /\ Head(toVisit)[1] \in QueryKinds => Head(toVisit)[2] \in DOMAIN query
             /\ Head(toVisit)[1] \in StageKinds => Head(toVisit)[2] \in DOMAIN stage
  <2>1. toVisit \in Seq(Live) /\ toVisit # << >> /\ verdicts = {} /\ Head(toVisit)[1] \in kinds
    BY <1>2 DEF AtNode, WalkOK
  <2> QED BY <2>1, NextNode, ChildrenType
<1>3. CASE VisitQuery
  <2> DEFINE q == Head(toVisit)[2]
             ids == Pipeline(q)
             ordered == Reordered(ids, def)
  <2>1. /\ AtNode({"Query"}) /\ UNCHANGED stage /\ UNCHANGED <<flag, reason, issues, mismatch>>
        /\ query' = [query EXCEPT ![q].pipeline = ordered]
        /\ verdicts' = {AtBarePath(v) : v \in checkPipelineOrder(ids)}
                         \cup checkSubquery(q)
                         \cup checkAggregationOperand(q, ordered)
                         \cup checkOffset(q, ordered)
        /\ Descend(QueryChildren(q, ordered))
    BY <1>3 DEF VisitQuery
  <2>2. q \in DOMAIN query /\ toVisit \in Seq(Live) /\ toVisit # << >>
    BY <1>2, <2>1 DEF QueryKinds
  <2>3. /\ HeapOK' /\ DOMAIN query' = DOMAIN query /\ ids \in Seq(StageId)
        /\ \A i \in DOMAIN ids : ids[i] \in DOMAIN stage
    BY <2>1, <2>2, VisitQueryHeap, PipelineType
  <2>4. ordered \in Seq(StageId) /\ \A i \in DOMAIN ordered : ordered[i] \in DOMAIN stage
    BY <2>3, ReorderedType
  <2> HIDE DEF q, ids, ordered
  <2>5. verdicts' \subseteq Judgement
    BY <2>1, <2>2, <2>3, <2>4, QueryChecksType
  <2>6. toVisit' \in Seq(Live)
    BY <2>1, <2>2, <2>4, QueryChildrenType, DescendType
  <2> QED BY <1>0, <2>1, <2>3, <2>5, <2>6
<1>4. CASE VisitStage
  <2>1. /\ AtNode({"Stage"}) /\ verdicts' = checkStage(Head(toVisit)[2])
        /\ UNCHANGED heap /\ Descend(Children(Head(toVisit)))
        /\ UNCHANGED <<flag, reason, issues, mismatch>>
    BY <1>4 DEF VisitStage
  <2>2. Head(toVisit)[2] \in DOMAIN stage
    BY <1>2, <2>1 DEF StageKinds
  <2>3. verdicts' \subseteq Judgement
    BY <1>2, <2>1, <2>2, StageChecksType
  <2>4. toVisit' \in Seq(Live)
    BY <1>2, <2>1, DescendType
  <2> QED BY <1>0, <1>1, <2>1, <2>3, <2>4
<1>5. CASE VisitMatcher
  <2>1. /\ AtNode({"Matcher", "Predicate"}) /\ UNCHANGED heap
        /\ Descend(Children(Head(toVisit))) /\ UNCHANGED <<flag, reason, issues, mismatch>>
        /\ \E field, op : verdicts' = checkMatcher(Head(toVisit), field, op)
    BY <1>5 DEF VisitMatcher
  <2>3. verdicts' \subseteq Judgement
    <3>1. Head(toVisit) \in Node
      BY <1>2, <2>1
    <3> QED BY <2>1, <3>1, LeafChecksType
  <2>4. toVisit' \in Seq(Live)
    BY <1>2, <2>1, DescendType
  <2> QED BY <1>0, <1>1, <2>1, <2>3, <2>4
<1>6. CASE VisitWindow
  <2>1. /\ AtNode({"Window"}) /\ verdicts' = checkWindow(Head(toVisit))
        /\ UNCHANGED heap /\ Descend(Children(Head(toVisit)))
        /\ UNCHANGED <<flag, reason, issues, mismatch>>
    BY <1>6 DEF VisitWindow
  <2>3. verdicts' \subseteq Judgement
    <3>1. Head(toVisit) \in Node
      BY <1>2, <2>1
    <3> QED BY <2>1, <3>1, LeafChecksType
  <2>4. toVisit' \in Seq(Live)
    BY <1>2, <2>1, DescendType
  <2> QED BY <1>0, <1>1, <2>1, <2>3, <2>4
<1>7. CASE VisitOther
  <2>1. /\ AtNode({"Source", "Argument", "Output", "Range"})
        /\ UNCHANGED heap /\ Descend(Children(Head(toVisit)))
        /\ UNCHANGED <<verdicts, flag, reason, issues, mismatch>>
    BY <1>7 DEF VisitOther
  <2>4. toVisit' \in Seq(Live)
    BY <1>2, <2>1, DescendType
  <2>5. verdicts' \subseteq Judgement
    BY <2>1 DEF WalkOK
  <2> QED BY <1>0, <1>1, <2>1, <2>4, <2>5
<1>8. CASE Report
  <2>1. UNCHANGED heap
    BY <1>8 DEF Report
  <2> QED BY <1>1, <1>8, <2>1, ReportType
<1> QED BY <1>3, <1>4, <1>5, <1>6, <1>7, <1>8 DEF ValidatorNext

-----------------------------------------------------------------------------
(* Emission. *)

(* A call of emitQuery begins. *)
LEMMA FrameType ==
  ASSUME HeapOK, NEW q \in DOMAIN query
  PROVE  /\ Frame(q) \in FrameRecord /\ Placed(Frame(q), FALSE)
         /\ EntryNotes(q) \subseteq Node
         /\ <<"Window", q>> \in Node
<1>1. q \in Nat /\ q \in QueryId
  BY HeapDomains DEF QueryId
<1>2. {QueryNode(q), <<"Source", q>>, <<"Output", q>>, <<"Range", q>>, <<"Window", q>>} \subseteq Node
  BY <1>1 DEF Node, QueryNode
<1>3. << >> \in Seq(Nat) /\ DOMAIN << >> = {} /\ 1 \in Nat /\ {} \in SUBSET Node
  OBVIOUS
<1>4. (IF query[q].source = "none" THEN {} ELSE {<<"Source", q>>}) \in SUBSET Node
  BY <1>2
<1>5. (query[q].source # "none") \in BOOLEAN
  OBVIOUS
<1>6. Frame(q) \in FrameRecord
  BY <1>1, <1>3, <1>4, <1>5 DEF Frame, FrameRecord
<1>7. Placed(Frame(q), FALSE)
  BY <1>3 DEF Frame, Placed
<1>8. EntryNotes(q) \subseteq Node
  BY <1>2 DEF EntryNotes
<1> QED BY <1>2, <1>6, <1>7, <1>8

(* The innermost call and those that wait for it. *)
LEMMA FramesSplit ==
  ASSUME FramesOK, frames # << >>
  PROVE  /\ Len(frames) \in Nat \ {0} /\ DOMAIN frames = 1..Len(frames)
         /\ Frame1 \in FrameRecord /\ Placed(Frame1, FALSE)
         /\ Outer \in Seq(FrameRecord) /\ Len(Outer) = Len(frames) - 1
         /\ \A i \in DOMAIN Outer : Placed(Outer[i], TRUE)
<1>1. /\ Len(frames) \in Nat \ {0} /\ DOMAIN frames = 1..Len(frames)
      /\ frames \in Seq(FrameRecord)
      /\ \A i \in 1..Len(frames) : frames[i] \in FrameRecord
  BY DEF FramesOK
<1>2. Frame1 \in FrameRecord
  BY <1>1 DEF Frame1
<1>3. Placed(Frame1, FALSE)
  <2>1. Placed(frames[Len(frames)], Len(frames) < Len(frames))
    BY <1>1 DEF FramesOK
  <2> QED BY <2>1 DEF Frame1, Placed
<1>4. /\ Outer \in Seq(FrameRecord) /\ Len(Outer) = Len(frames) - 1
      /\ \A i \in 1..(Len(frames) - 1) : Outer[i] = frames[i]
  <2>1. 1 \in Int /\ Len(frames) - 1 \in Int
        /\ \A i \in 1..(Len(frames) - 1) : frames[i] \in FrameRecord
    BY <1>1
  <2>2. /\ SubSeq(frames, 1, Len(frames) - 1) \in Seq(FrameRecord)
        /\ Len(SubSeq(frames, 1, Len(frames) - 1)) =
               IF 1 <= Len(frames) - 1 THEN (Len(frames) - 1) - 1 + 1 ELSE 0
        /\ \A i \in 1..((Len(frames) - 1) - 1 + 1) :
               SubSeq(frames, 1, Len(frames) - 1)[i] = frames[1 + i - 1]
    BY <2>1, SubSeqProperties
  <2> QED BY <1>1, <2>2 DEF Outer
<1>5. ASSUME NEW i \in DOMAIN Outer PROVE Placed(Outer[i], TRUE)
  <2>1. i \in 1..(Len(frames) - 1) /\ i \in DOMAIN frames /\ i < Len(frames)
    BY <1>1, <1>4
  <2>2. Placed(frames[i], i < Len(frames))
    BY <2>1 DEF FramesOK
  <2> QED BY <1>4, <2>1, <2>2 DEF Placed
<1> QED BY <1>1, <1>2, <1>3, <1>4, <1>5

(* A call on top of calls that wait. *)
LEMMA FramesJoined ==
  ASSUME NEW outer \in Seq(FrameRecord), \A i \in DOMAIN outer : Placed(outer[i], TRUE),
         NEW f \in FrameRecord, Placed(f, FALSE), NEW fs, fs = Append(outer, f)
  PROVE  /\ fs \in Seq(FrameRecord)
         /\ \A i \in DOMAIN fs : Placed(fs[i], i < Len(fs))
<1>1. /\ fs \in Seq(FrameRecord) /\ Len(fs) = Len(outer) + 1 /\ Len(outer) \in Nat
      /\ \A i \in 1..Len(outer) : fs[i] = outer[i]
      /\ fs[Len(outer) + 1] = f
  BY AppendProperties
<1>2. ASSUME NEW i \in DOMAIN fs PROVE Placed(fs[i], i < Len(fs))
  <2>1. i \in 1..(Len(outer) + 1)
    BY <1>1
  <2>2. CASE i = Len(outer) + 1
    BY <1>1, <2>2 DEF Placed
  <2>3. CASE i # Len(outer) + 1
    <3>1. i \in DOMAIN outer /\ i \in 1..Len(outer) /\ i < Len(fs)
      BY <1>1, <2>1, <2>3
    <3> QED BY <1>1, <3>1 DEF Placed
  <2> QED BY <2>2, <2>3
<1> QED BY <1>1, <1>2

(* Another call that waits, inside those that wait. *)
LEMMA WaitingJoined ==
  ASSUME NEW outer \in Seq(FrameRecord), \A i \in DOMAIN outer : Placed(outer[i], TRUE),
         NEW f \in FrameRecord, Placed(f, TRUE)
  PROVE  /\ Append(outer, f) \in Seq(FrameRecord)
         /\ \A i \in DOMAIN Append(outer, f) : Placed(Append(outer, f)[i], TRUE)
<1> DEFINE fs == Append(outer, f)
<1>1. /\ fs \in Seq(FrameRecord) /\ Len(fs) = Len(outer) + 1 /\ Len(outer) \in Nat
      /\ \A i \in 1..Len(outer) : fs[i] = outer[i]
      /\ fs[Len(outer) + 1] = f
  BY AppendProperties
<1> HIDE DEF fs
<1>2. ASSUME NEW i \in DOMAIN fs PROVE Placed(fs[i], TRUE)
  <2>1. i \in 1..(Len(outer) + 1)
    BY <1>1
  <2>2. CASE i = Len(outer) + 1
    BY <1>1, <2>2
  <2>3. CASE i # Len(outer) + 1
    <3>1. i \in DOMAIN outer /\ i \in 1..Len(outer)
      BY <1>1, <2>1, <2>3
    <3>2. fs[i] = outer[i]
      BY <1>1, <3>1
    <3> QED BY <3>1, <3>2
  <2> QED BY <2>2, <2>3
<1> QED BY <1>1, <1>2 DEF fs

(* The types of the frames, once the innermost call has gone on. *)
LEMMA FramesAfter ==
  ASSUME NEW outer \in Seq(FrameRecord), \A i \in DOMAIN outer : Placed(outer[i], TRUE),
         NEW f \in FrameRecord, Placed(f, FALSE), frames' = Append(outer, f),
         query' = query, notes' \subseteq Node, written' \subseteq Node, offsetWritten' \in BOOLEAN
  PROVE  FramesOK'
<1>1. /\ frames' \in Seq(FrameRecord)
      /\ \A i \in DOMAIN frames' : Placed(frames'[i], i < Len(frames'))
  BY FramesJoined
<1> QED BY <1>1 DEF FramesOK, Placed, Pipeline

(* The stage the innermost call has come to. *)
LEMMA HereType ==
  ASSUME HeapOK, FramesOK, AtStage
  PROVE  /\ frames # << >> /\ Here \in DOMAIN stage /\ StageNode(Here) \in Node
         /\ Frame1.q \in DOMAIN query /\ Frame1.at \in DOMAIN Pipeline(Frame1.q)
         /\ <<"Window", Frame1.q>> \in Node /\ <<"Predicate", Here>> \in Node
<1>1. frames # << >> /\ Frame1.at <= Len(Pipeline(Frame1.q))
  BY DEF AtStage
<1>2. Frame1.q \in DOMAIN query /\ Frame1.at >= 1 /\ Frame1.at \in Nat
  BY <1>1, FramesSplit DEF Placed, FrameRecord
<1>3. Pipeline(Frame1.q) \in Seq(StageId)
  BY <1>2, PipelineType
<1>4. Frame1.at \in DOMAIN Pipeline(Frame1.q)
  BY <1>1, <1>2, <1>3
<1>5. Here \in DOMAIN stage /\ Here \in StageId
  BY <1>2, <1>4, HeapDomains DEF HeapOK, Here
<1> QED BY <1>1, <1>2, <1>4, <1>5, FrameType DEF StageNode, Node

(* The expression after a stage. *)
LEMMA RenderType ==
  ASSUME HeapOK, FramesOK, frames # << >>, query' = query, NEW text \in SUBSET Node,
         NEW logPhase \in BOOLEAN, Render(text, logPhase),
         notes' \subseteq Node, written' \subseteq Node, offsetWritten' \in BOOLEAN
  PROVE  FramesOK'
<1> DEFINE f == [Frame1 EXCEPT !.text = text, !.logPhase = logPhase, !.at = @ + 1]
<1>1. /\ Frame1 \in FrameRecord /\ Placed(Frame1, FALSE) /\ Outer \in Seq(FrameRecord)
      /\ \A i \in DOMAIN Outer : Placed(Outer[i], TRUE)
  BY FramesSplit
<1>2. Frame1.at + 1 \in Nat /\ Frame1.at >= 1
  BY <1>1 DEF FrameRecord, Placed
<1>3. f \in FrameRecord
  BY <1>1, <1>2 DEF FrameRecord
<1>4. f.q = Frame1.q /\ f.at = Frame1.at + 1 /\ f.operands = Frame1.operands
  BY <1>1 DEF FrameRecord
<1>5. frames' = Append(Outer, f)
  BY DEF Render
<1> HIDE DEF f
<1>6. Placed(f, FALSE)
  BY <1>1, <1>2, <1>4 DEF Placed, FrameRecord
<1> QED BY <1>1, <1>3, <1>5, <1>6, FramesAfter

(* A stage is written, dropped, or closes the range. *)
LEMMA WritingType ==
  ASSUME HeapOK, FramesOK, AtStage, query' = query, NEW logPhase \in BOOLEAN,
         Append1(logPhase) \/ Drop \/ CloseRange
  PROVE  FramesOK'
<1>1. /\ frames # << >> /\ StageNode(Here) \in Node /\ <<"Window", Frame1.q>> \in Node
  BY HereType
<1>2. Frame1.text \in SUBSET Node /\ Frame1.logPhase \in BOOLEAN
  BY <1>1, FramesSplit DEF FrameRecord
<1>3. notes \subseteq Node /\ written \subseteq Node /\ offsetWritten \in BOOLEAN
  BY DEF FramesOK
<1>4. CASE Append1(logPhase)
  <2>1. Frame1.text \cup {StageNode(Here)} \in SUBSET Node
    BY <1>1, <1>2
  <2> QED BY <1>1, <1>3, <1>4, <2>1, RenderType DEF Append1
<1>5. CASE Drop
  BY <1>1, <1>2, <1>3, <1>5, RenderType DEF Drop
<1>6. CASE CloseRange
  <2> DEFINE window == <<"Window", Frame1.q>>
             offset == query[Frame1.q].offset > 0
             text == Frame1.text \cup {StageNode(Here)} \cup {n \in {window} : offset}
  <2>1. text \in SUBSET Node
    BY <1>1, <1>2
  <2>2. Render(text, FALSE) /\ offsetWritten' = (offsetWritten \/ offset)
        /\ UNCHANGED <<notes, written>>
    BY <1>6 DEF CloseRange
  <2> HIDE DEF text
  <2> QED BY <1>1, <1>3, <2>1, <2>2, RenderType
<1> QED BY <1>4, <1>5, <1>6

(* applyStage. *)
LEMMA ApplyStageType ==
  ASSUME HeapOK, FramesOK, query' = query,
         SkipFlagged \/ ApplyAggregation \/ ApplyFunction \/ ApplyFilter \/ ApplyBareOperator
  PROVE  FramesOK'
<1>0. AtStage
  BY DEF SkipFlagged, ApplyAggregation, ApplyFunction, ApplyFilter, ApplyBareOperator, Applicable
<1>1. /\ frames # << >> /\ StageNode(Here) \in Node
      /\ Frame1.text \in SUBSET Node /\ Frame1.logPhase \in BOOLEAN
      /\ notes \subseteq Node /\ written \subseteq Node /\ offsetWritten \in BOOLEAN
  BY <1>0, HereType, FramesSplit DEF FrameRecord, FramesOK
<1>2. ASSUME \E logPhase \in BOOLEAN : Append1(logPhase) \/ Drop \/ CloseRange PROVE FramesOK'
  BY <1>0, <1>2, WritingType
<1>3. ASSUME NEW text \in SUBSET Node, NEW logPhase \in BOOLEAN, Render(text, logPhase),
             UNCHANGED <<offsetWritten, notes, written>>
      PROVE  FramesOK'
  BY <1>1, <1>3, RenderType
<1>4. CASE SkipFlagged
  BY <1>2, <1>4 DEF SkipFlagged
<1>5. CASE ApplyAggregation
  BY <1>2, <1>5 DEF ApplyAggregation
<1>6. CASE ApplyFunction
  <2>1. CASE Render({StageNode(Here)}, FALSE) /\ UNCHANGED <<offsetWritten, notes, written>>
    BY <1>1, <1>3, <2>1
  <2>2. \/ Render({StageNode(Here)}, FALSE) /\ UNCHANGED <<offsetWritten, notes, written>>
        \/ \E logPhase \in BOOLEAN : Append1(logPhase) \/ Drop \/ CloseRange
    BY <1>1, <1>6 DEF ApplyFunction
  <2> QED BY <1>2, <2>1, <2>2
<1>7. CASE ApplyFilter
  <2>1. CASE Append1(TRUE) \/ Drop
    BY <1>2, <2>1
  <2>2. CASE WriteComparison
    <3>1. Frame1.text \cup {StageNode(Here)} \in SUBSET Node
      BY <1>1
    <3>2. notes' \subseteq Node /\ written' \subseteq Node /\ offsetWritten' \in BOOLEAN
      BY <1>0, <1>1, <2>2, HereType DEF WriteComparison
    <3> QED BY <1>1, <2>2, <3>1, <3>2, RenderType DEF WriteComparison
  <2> QED BY <1>7, <2>1, <2>2 DEF ApplyFilter
<1>8. CASE ApplyBareOperator
  BY <1>1, <1>3, <1>8 DEF ApplyBareOperator
<1> QED BY <1>4, <1>5, <1>6, <1>7, <1>8

(* An operator's first operand is begun. *)
LEMMA ApplyOperatorType ==
  ASSUME HeapOK, FramesOK, query' = query, ApplyOperator
  PROVE  FramesOK'
<1> DEFINE operands == stage[Here].args
           f == [Frame1 EXCEPT !.operands = Tail(operands)]
           outer == Append(Outer, f)
<1>1. /\ AtStage /\ operands # << >>
      /\ frames' = Append(outer, Frame(Head(operands)))
      /\ notes' = notes \cup EntryNotes(Head(operands))
      /\ UNCHANGED <<offsetWritten, written>>
  BY DEF ApplyOperator, HasOperands
<1>2. /\ frames # << >> /\ Here \in DOMAIN stage
      /\ Frame1.q \in DOMAIN query /\ Frame1.at \in DOMAIN Pipeline(Frame1.q)
  BY <1>1, HereType
<1>3. /\ Frame1 \in FrameRecord /\ Placed(Frame1, FALSE) /\ Outer \in Seq(FrameRecord)
      /\ \A i \in DOMAIN Outer : Placed(Outer[i], TRUE)
  BY <1>2, FramesSplit
<1>4. operands \in Seq(QueryId) /\ \A i \in DOMAIN operands : operands[i] \in DOMAIN query
  BY <1>2, HeapDomains DEF StageRecord, HeapOK
<1>5. /\ Head(operands) \in DOMAIN query /\ Tail(operands) \in Seq(Nat)
      /\ \A i \in DOMAIN Tail(operands) : Tail(operands)[i] \in DOMAIN query
  <2> HIDE DEF operands
  <2>1. Head(operands) = operands[1] /\ 1 \in DOMAIN operands
    BY <1>1, <1>4
  <2>2. /\ Tail(operands) \in Seq(QueryId) /\ Len(Tail(operands)) = Len(operands) - 1
        /\ \A i \in 1..Len(Tail(operands)) : Tail(operands)[i] = operands[i + 1]
    BY <1>1, <1>4, HeadTailProperties
  <2>3. Tail(operands) \in Seq(Nat)
    BY <2>2 DEF QueryId
  <2>4. \A i \in DOMAIN Tail(operands) : i + 1 \in DOMAIN operands
    BY <1>4, <2>2
  <2> QED BY <1>4, <2>1, <2>2, <2>3, <2>4
<1> HIDE DEF operands
<1>6. f \in FrameRecord /\ f.q = Frame1.q /\ f.at = Frame1.at /\ f.operands = Tail(operands)
  BY <1>3, <1>5 DEF FrameRecord
<1>7. Placed(f, TRUE)
  <2>1. Pipeline(Frame1.q) \in Seq(StageId)
    BY <1>2, PipelineType
  <2>2. Frame1.at <= Len(Pipeline(Frame1.q))
    BY <1>2, <2>1
  <2> HIDE DEF f
  <2> QED BY <1>3, <1>5, <1>6, <2>2 DEF Placed
<1> HIDE DEF f
<1>8. outer \in Seq(FrameRecord) /\ \A i \in DOMAIN outer : Placed(outer[i], TRUE)
  BY <1>3, <1>6, <1>7, WaitingJoined
<1> HIDE DEF outer
<1>9. /\ Frame(Head(operands)) \in FrameRecord /\ Placed(Frame(Head(operands)), FALSE)
      /\ EntryNotes(Head(operands)) \subseteq Node
  BY <1>5, FrameType
<1>10. notes' \subseteq Node /\ written' \subseteq Node /\ offsetWritten' \in BOOLEAN
  BY <1>1, <1>9 DEF FramesOK
<1> QED BY <1>1, <1>8, <1>9, <1>10, FramesAfter

(* The outermost call returns. *)
LEMMA FinishType ==
  ASSUME HeapOK, FramesOK, query' = query, FinishEmission
  PROVE  FramesOK'
<1>1. frames # << >>
  BY DEF FinishEmission
<1>2. Frame1 \in FrameRecord /\ Frame1.q \in DOMAIN query
  BY <1>1, FramesSplit DEF Placed
<1>3. Frame1.text \subseteq Node /\ <<"Window", Frame1.q>> \in Node
  BY <1>2, FrameType DEF FrameRecord
<1>4. notes' \subseteq Node /\ written' \subseteq Node /\ offsetWritten' \in BOOLEAN
      /\ frames' = << >>
  BY <1>3 DEF FinishEmission, FramesOK
<1>5. << >> \in Seq(FrameRecord) /\ DOMAIN << >> = {}
  OBVIOUS
<1> QED BY <1>4, <1>5 DEF FramesOK

(* An operand is done: the next one is begun, or its operator is. *)
LEMMA ReturnOperandType ==
  ASSUME HeapOK, FramesOK, query' = query, ReturnOperand
  PROVE  FramesOK'
<1> DEFINE caller == Outer[Len(Outer)]
           text == caller.operandText \cup Frame1.text
           below == SubSeq(Outer, 1, Len(Outer) - 1)
           operator == StageNode(Pipeline(caller.q)[caller.at])
           droppedOffset == {n \in {<<"Window", Frame1.q>>} :
                                ~offsetWritten /\ query[Frame1.q].offset > 0}
           next == Head(caller.operands)
           waiting == [caller EXCEPT !.operands = Tail(@), !.operandText = text]
           gone == [caller EXCEPT !.text = text \cup {operator}, !.logPhase = FALSE,
                                  !.operandText = {}, !.at = @ + 1]
<1>1. /\ Len(frames) > 1 /\ UNCHANGED <<offsetWritten, written>>
      /\ \/ /\ caller.operands # << >>
            /\ frames' = below \o <<waiting, Frame(next)>>
            /\ notes' = notes \cup droppedOffset \cup EntryNotes(next)
         \/ /\ caller.operands = << >>
            /\ frames' = Append(below, gone)
            /\ notes' = notes \cup droppedOffset
  BY DEF ReturnOperand
<1>2. frames # << >> /\ Len(frames) > 1
  BY <1>1
<1>3. /\ Frame1 \in FrameRecord /\ Placed(Frame1, FALSE) /\ Outer \in Seq(FrameRecord)
      /\ \A i \in DOMAIN Outer : Placed(Outer[i], TRUE)
      /\ Len(Outer) = Len(frames) - 1 /\ Len(frames) \in Nat
  BY <1>2, FramesSplit
<1>4. /\ caller \in FrameRecord /\ Placed(caller, TRUE)
      /\ below \in Seq(FrameRecord) /\ \A i \in DOMAIN below : Placed(below[i], TRUE)
  <2>0. Len(frames) > 1 /\ Len(frames) \in Nat /\ Len(Outer) = Len(frames) - 1
    BY <1>2, <1>3
  <2>1. Len(Outer) \in DOMAIN Outer /\ DOMAIN Outer = 1..Len(Outer) /\ Len(Outer) \in Nat \ {0}
    <3>1. Outer \in Seq(FrameRecord)
      BY <1>3
    <3>2. DOMAIN Outer = 1..Len(Outer) /\ Len(Outer) \in Nat
      BY <3>1
    <3>3. Len(Outer) >= 1
      BY <2>0
    <3> QED BY <3>2, <3>3
  <2>2. 1 \in Int /\ Len(Outer) - 1 \in Int
        /\ \A i \in 1..(Len(Outer) - 1) : Outer[i] \in FrameRecord
    BY <1>3, <2>1
  <2>3. /\ SubSeq(Outer, 1, Len(Outer) - 1) \in Seq(FrameRecord)
        /\ Len(SubSeq(Outer, 1, Len(Outer) - 1)) =
               IF 1 <= Len(Outer) - 1 THEN (Len(Outer) - 1) - 1 + 1 ELSE 0
        /\ \A i \in 1..((Len(Outer) - 1) - 1 + 1) :
               SubSeq(Outer, 1, Len(Outer) - 1)[i] = Outer[1 + i - 1]
    BY <1>3, <2>2, SubSeqProperties
  <2>4. \A i \in DOMAIN below : i \in DOMAIN Outer /\ below[i] = Outer[i]
    BY <2>1, <2>3
  <2>5. below \in Seq(FrameRecord)
    BY <2>3, Zenon
  <2>6. Placed(caller, TRUE)
    BY <1>3, <2>1, Zenon
  <2>7. caller \in FrameRecord
    BY <1>3, <2>1
  <2> HIDE DEF caller, below
  <2>8. \A i \in DOMAIN below : Placed(below[i], TRUE)
    BY <1>3, <2>4, Zenon
  <2> QED BY <2>5, <2>6, <2>7, <2>8
<1> HIDE DEF caller, below
<1>5. /\ caller.q \in DOMAIN query /\ caller.at \in Nat /\ caller.at >= 1
      /\ caller.at <= Len(Pipeline(caller.q))
      /\ caller.operands \in Seq(Nat)
      /\ \A i \in DOMAIN caller.operands : caller.operands[i] \in DOMAIN query
      /\ Frame1.q \in DOMAIN query
  BY <1>3, <1>4 DEF Placed, FrameRecord
<1>6. text \in SUBSET Node /\ droppedOffset \subseteq Node
  BY <1>3, <1>4, <1>5, FrameType DEF FrameRecord
<1>7. operator \in Node
  <2>1. /\ Pipeline(caller.q) \in Seq(StageId)
        /\ \A i \in DOMAIN Pipeline(caller.q) : Pipeline(caller.q)[i] \in DOMAIN stage
    BY <1>5, PipelineType
  <2>2. caller.at \in DOMAIN Pipeline(caller.q)
    BY <1>5, <2>1
  <2> QED BY <2>1, <2>2 DEF StageNode, Node
<1> HIDE DEF text, operator, droppedOffset
<1>8. ASSUME caller.operands # << >>, frames' = below \o <<waiting, Frame(next)>>,
             notes' = notes \cup droppedOffset \cup EntryNotes(next)
      PROVE  FramesOK'
  <2>1. /\ next \in DOMAIN query /\ Tail(caller.operands) \in Seq(Nat)
        /\ \A i \in DOMAIN Tail(caller.operands) : Tail(caller.operands)[i] \in DOMAIN query
    <3>1. next = caller.operands[1] /\ 1 \in DOMAIN caller.operands
      BY <1>5, <1>8
    <3>2. /\ Tail(caller.operands) \in Seq(Nat)
          /\ Len(Tail(caller.operands)) = Len(caller.operands) - 1
          /\ \A i \in 1..Len(Tail(caller.operands)) :
                Tail(caller.operands)[i] = caller.operands[i + 1]
      BY <1>5, <1>8, HeadTailProperties
    <3>3. \A i \in DOMAIN Tail(caller.operands) : i + 1 \in DOMAIN caller.operands
      BY <1>5, <3>2
    <3> QED BY <1>5, <3>1, <3>2, <3>3
  <2>2. /\ waiting \in FrameRecord /\ waiting.q = caller.q /\ waiting.at = caller.at
        /\ waiting.operands = Tail(caller.operands)
    BY <1>4, <1>6, <2>1 DEF FrameRecord
  <2> HIDE DEF waiting, next
  <2>3. Placed(waiting, TRUE)
    BY <1>5, <2>1, <2>2 DEF Placed
  <2>4. /\ Append(below, waiting) \in Seq(FrameRecord)
        /\ \A i \in DOMAIN Append(below, waiting) : Placed(Append(below, waiting)[i], TRUE)
    BY <1>4, <2>2, <2>3, WaitingJoined
  <2>5. /\ Frame(next) \in FrameRecord /\ Placed(Frame(next), FALSE)
        /\ EntryNotes(next) \subseteq Node
    BY <2>1, FrameType
  <2>6. frames' = Append(Append(below, waiting), Frame(next))
    BY <1>4, <1>8, <2>2, <2>5
  <2>7. notes' \subseteq Node /\ written' \subseteq Node /\ offsetWritten' \in BOOLEAN
    BY <1>1, <1>6, <1>8, <2>5 DEF FramesOK
  <2> QED BY <2>4, <2>5, <2>6, <2>7, FramesAfter
<1>9. ASSUME frames' = Append(below, gone), notes' = notes \cup droppedOffset
      PROVE  FramesOK'
  <2>1. text \cup {operator} \in SUBSET Node /\ caller.at + 1 \in Nat /\ {} \in SUBSET Node
    BY <1>5, <1>6, <1>7
  <2>2. /\ gone \in FrameRecord /\ gone.q = caller.q /\ gone.at = caller.at + 1
        /\ gone.operands = caller.operands
    BY <1>4, <2>1 DEF FrameRecord
  <2> HIDE DEF gone
  <2>3. Placed(gone, FALSE)
    BY <1>5, <2>2 DEF Placed
  <2>4. notes' \subseteq Node /\ written' \subseteq Node /\ offsetWritten' \in BOOLEAN
    BY <1>1, <1>6, <1>9 DEF FramesOK
  <2> QED BY <1>4, <1>9, <2>2, <2>3, <2>4, FramesAfter
<1> QED BY <1>1, <1>8, <1>9

(* Emission keeps the types. *)
LEMMA EmitterTypes ==
  ASSUME HeapOK, FramesOK, query' = query, EmitterNext
  PROVE  FramesOK'
  BY ApplyStageType, ApplyOperatorType, ReturnOperandType, FinishType DEF EmitterNext

(* The first call. *)
LEMMA StartEmissionType ==
  ASSUME HeapOK, FramesOK, NEW q \in DOMAIN query, query' = query, StartEmission(q)
  PROVE  FramesOK'
<1>1. << >> \in Seq(FrameRecord) /\ DOMAIN << >> = {}
  OBVIOUS
<1>2. /\ Frame(q) \in FrameRecord /\ Placed(Frame(q), FALSE) /\ EntryNotes(q) \subseteq Node
  BY FrameType
<1>3. frames' = Append(<< >>, Frame(q))
  BY DEF StartEmission
<1>4. notes' \subseteq Node /\ written' \subseteq Node /\ offsetWritten' \in BOOLEAN
  BY <1>2 DEF StartEmission, FramesOK
<1> QED BY <1>1, <1>2, <1>3, <1>4, FramesAfter

-----------------------------------------------------------------------------
(* The report. *)

(* The tree is finite, and so are the parts of it a flag is on. *)
LEMMA NodesFinite ==
  IsFiniteSet(Node)
<1>1. IsFiniteSet(QueryId) /\ IsFiniteSet(StageId)
  BY FS_Interval DEF QueryId, StageId
<1>2. IsFiniteSet({"Query", "Source", "Matcher", "Output", "Range", "Window"})
  <2>1. /\ IsFiniteSet({}) /\ IsFiniteSet({"Query"}) /\ IsFiniteSet({"Source"})
        /\ IsFiniteSet({"Matcher"}) /\ IsFiniteSet({"Output"}) /\ IsFiniteSet({"Range"})
        /\ IsFiniteSet({"Window"})
    BY FS_EmptySet, FS_Singleton
  <2>2. IsFiniteSet({"Query"} \cup {"Source"}) /\ IsFiniteSet({"Matcher"} \cup {"Output"})
        /\ IsFiniteSet({"Range"} \cup {"Window"})
    BY <2>1, FS_Union
  <2>3. IsFiniteSet((({"Query"} \cup {"Source"}) \cup ({"Matcher"} \cup {"Output"}))
                      \cup ({"Range"} \cup {"Window"}))
    BY <2>2, FS_Union
  <2>4. {"Query", "Source", "Matcher", "Output", "Range", "Window"}
          = (({"Query"} \cup {"Source"}) \cup ({"Matcher"} \cup {"Output"}))
              \cup ({"Range"} \cup {"Window"})
    OBVIOUS
  <2> QED BY <2>3, <2>4
<1>3. IsFiniteSet({"Stage", "Predicate", "Argument"})
  <2>1. IsFiniteSet({"Stage"}) /\ IsFiniteSet({"Predicate"}) /\ IsFiniteSet({"Argument"})
    BY FS_Singleton
  <2>2. IsFiniteSet(({"Stage"} \cup {"Predicate"}) \cup {"Argument"})
    BY <2>1, FS_Union
  <2>3. {"Stage", "Predicate", "Argument"} = ({"Stage"} \cup {"Predicate"}) \cup {"Argument"}
    OBVIOUS
  <2> QED BY <2>2, <2>3
<1> QED BY <1>1, <1>2, <1>3, FS_Product, FS_Union DEF Node

(* What is below a node of the tree is a node of it. *)
LEMMA PresentNodes ==
  ASSUME HeapOK
  PROVE  Present \subseteq Node
<1>1. ASSUME NEW nodes, nodes \subseteq Live PROVE ChildNodes(nodes) \subseteq Live
  <2>1. \A n \in nodes : Children(n) \in Seq(Live)
    BY <1>1, ChildrenType
  <2>2. \A n \in nodes : \A i \in DOMAIN Children(n) : Children(n)[i] \in Live
    BY <2>1
  <2> QED BY <2>2 DEF ChildNodes
<1> DEFINE allocated == {QueryNode(q) : q \in DOMAIN query} \cup {StageNode(s) : s \in DOMAIN stage}
           below == ChildNodes(allocated)
<1>2. allocated \subseteq Live
  BY LiveParts DEF QueryKinds, StageKinds, QueryNode, StageNode
<1>3. Present = allocated \cup below \cup ChildNodes(below \ allocated)
  BY DEF Present
<1> HIDE DEF allocated
<1>4. below \subseteq Live /\ below \ allocated \subseteq Live
  BY <1>1, <1>2
<1> HIDE DEF below
<1>5. ChildNodes(below \ allocated) \subseteq Live
  BY <1>1, <1>4
<1> QED BY <1>2, <1>3, <1>4, <1>5, LiveNodes

(* The report's rows are verdicts and its counts are numbers. *)
LEMMA ReportingType ==
  ASSUME HeapOK, WalkOK, GenerateWithIssues
  PROVE  ReportOK'
<1>1. \A f : CarriedBy(f) \subseteq Node /\ IsFiniteSet(CarriedBy(f))
  <2>1. \A f : CarriedBy(f) \subseteq Node
    BY PresentNodes DEF CarriedBy
  <2> QED BY <2>1, NodesFinite, FS_Subset
<1>2. /\ Cardinality(CarriedBy(PARTIAL)) \in Nat
      /\ Cardinality(CarriedBy(UNSUPPORTED)) \in Nat
  BY <1>1, FS_CardinalityType
<1>3. FlagRows \subseteq VerdictRecord
  <2>1. \A n \in Node : flag[n] \in Flags /\ reason[n] \in Reasons
    BY DEF WalkOK
  <2>2. \A n \in Node : Verdict(n, flag[n], reason[n]) \in VerdictRecord
    BY <2>1 DEF Verdict, VerdictRecord
  <2> QED BY <1>1, <2>2 DEF FlagRows
<1>4. IssueRows \subseteq VerdictRecord
  BY DEF IssueRows, WalkOK, Judgement
<1>5. report' = [rows |-> FlagRows \cup IssueRows,
                 partial |-> Cardinality(CarriedBy(PARTIAL)),
                 unsupported |-> Cardinality(CarriedBy(UNSUPPORTED))]
  BY DEF GenerateWithIssues
<1> DEFINE rows == FlagRows \cup IssueRows
           p == Cardinality(CarriedBy(PARTIAL))
           u == Cardinality(CarriedBy(UNSUPPORTED))
<1>6. rows \subseteq VerdictRecord /\ p \in Nat /\ u \in Nat
  BY <1>2, <1>3, <1>4
<1> HIDE DEF rows, p, u
<1>7. report' = [rows |-> rows, partial |-> p, unsupported |-> u]
  BY <1>5 DEF rows, p, u
<1> QED BY <1>6, <1>7 DEF ReportOK

-----------------------------------------------------------------------------
(* A translation. *)

(* The empty sequences a translation begins with. *)
LEMMA NothingYet ==
  ASSUME query = << >>, stage = << >>, stack = << >>, authored = << >>
  PROVE  HeapOK /\ StackOK /\ AuthoredOK
<1>1. DOMAIN << >> = {} /\ Len(<< >>) = 0
  OBVIOUS
<1>2. << >> \in Seq(QueryRecord) /\ << >> \in Seq(StageRecord)
  OBVIOUS
<1>3. << >> \in Seq(Pending) /\ << >> \in Seq(Modifier)
  OBVIOUS
<1>4. HeapOK
  BY <1>1, <1>2 DEF HeapOK
<1> QED BY <1>1, <1>3, <1>4 DEF StackOK, AuthoredOK

(* Resolving. *)
LEMMA ResolveTypes ==
  ASSUME Typed, Resolve
  PROVE  Typed'
<1>1. /\ pc = "resolving" /\ ResolverNext
      /\ UNCHANGED <<validatorVars, emitterVars, pc, report>>
  BY DEF Resolve
<1>2. HeapOK' /\ StackOK' /\ AuthoredOK'
  BY <1>1, ResolverTypes DEF Typed
<1>3. toVisit = << >> /\ verdicts = {} /\ frames = << >>
  BY <1>1 DEF Typed, PhaseOK
<1>4. WalkOK'
  <2>1. toVisit' = << >> /\ << >> \in Seq(Live')
    BY <1>1, <1>3 DEF validatorVars
  <2>2. /\ verdicts' \subseteq Judgement /\ issues' \subseteq Judgement /\ mismatch' \in BOOLEAN
        /\ flag' \in [Node -> Flags] /\ reason' \in [Node -> Reasons]
    BY <1>1 DEF validatorVars, Typed, WalkOK
  <2> QED BY <2>1, <2>2 DEF WalkOK
<1>5. FramesOK'
  <2>1. frames' = << >> /\ << >> \in Seq(FrameRecord) /\ DOMAIN << >> = {}
    BY <1>1, <1>3 DEF emitterVars
  <2>2. offsetWritten' \in BOOLEAN /\ notes' \subseteq Node /\ written' \subseteq Node
    BY <1>1 DEF emitterVars, Typed, FramesOK
  <2> QED BY <2>1, <2>2 DEF FramesOK
<1>6. PhaseOK' /\ ReportOK'
  BY <1>1, <1>3 DEF Typed, PhaseOK, ReportOK, validatorVars, emitterVars
<1> QED BY <1>2, <1>4, <1>5, <1>6 DEF Typed

(* Giving up. *)
LEMMA FailTypes ==
  ASSUME Typed, Fail
  PROVE  Typed'
<1>1. /\ pc = "resolving" /\ pc' = "failed"
      /\ query' = << >> /\ stage' = << >> /\ stack' = << >> /\ authored' = << >>
      /\ UNCHANGED <<validatorVars, emitterVars, report>>
  BY DEF Fail
<1>2. HeapOK' /\ StackOK' /\ AuthoredOK'
  <2>1. DOMAIN << >> = {} /\ Len(<< >>) = 0
    OBVIOUS
  <2>2. /\ << >> \in Seq(QueryRecord) /\ << >> \in Seq(StageRecord)
        /\ << >> \in Seq(Pending) /\ << >> \in Seq(Modifier)
    OBVIOUS
  <2>3. HeapOK'
    BY <1>1, <2>1, <2>2 DEF HeapOK
  <2> QED BY <1>1, <2>1, <2>2, <2>3 DEF StackOK, AuthoredOK
<1>3. toVisit = << >> /\ verdicts = {} /\ frames = << >>
  BY <1>1 DEF Typed, PhaseOK
<1>4. WalkOK'
  <2>1. toVisit' = << >> /\ << >> \in Seq(Live')
    BY <1>1, <1>3 DEF validatorVars
  <2>2. /\ verdicts' \subseteq Judgement /\ issues' \subseteq Judgement /\ mismatch' \in BOOLEAN
        /\ flag' \in [Node -> Flags] /\ reason' \in [Node -> Reasons]
    BY <1>1 DEF validatorVars, Typed, WalkOK
  <2> QED BY <2>1, <2>2 DEF WalkOK
<1>5. FramesOK'
  <2>1. frames' = << >> /\ << >> \in Seq(FrameRecord) /\ DOMAIN << >> = {}
    BY <1>1, <1>3 DEF emitterVars
  <2>2. offsetWritten' \in BOOLEAN /\ notes' \subseteq Node /\ written' \subseteq Node
    BY <1>1 DEF emitterVars, Typed, FramesOK
  <2> QED BY <2>1, <2>2 DEF FramesOK
<1>6. PhaseOK' /\ ReportOK'
  BY <1>1, <1>3 DEF Typed, PhaseOK, ReportOK, validatorVars, emitterVars, Phases
<1> QED BY <1>2, <1>4, <1>5, <1>6 DEF Typed

(* The walk begins. *)
LEMMA BeginValidationTypes ==
  ASSUME Typed, BeginValidation
  PROVE  Typed'
<1>1. /\ pc = "resolving" /\ ResolvedRoot /\ pc' = "validating" /\ StartValidation(Root)
      /\ UNCHANGED <<resolverVars, emitterVars, report>>
  BY DEF BeginValidation
<1>2. Root \in DOMAIN query /\ stack # << >>
  <2>1. Len(stack) = 1
    BY <1>1 DEF ResolvedRoot
  <2>2. 1 \in DOMAIN stack /\ stack # << >>
    BY <2>1 DEF Typed, StackOK
  <2> QED BY <2>2 DEF Typed, StackOK, Root
<1>3. frames = << >>
  BY <1>1 DEF Typed, PhaseOK
<1>4. query' = query /\ stage' = stage /\ stack' = stack /\ authored' = authored
  BY <1>1 DEF resolverVars, heap
<1>5. HeapOK' /\ StackOK' /\ AuthoredOK'
  BY <1>4 DEF Typed, HeapOK, StackOK, AuthoredOK, Pipeline
<1>6. QueryNode(Root) \in Live
  BY <1>2, LiveParts DEF QueryKinds, QueryNode
<1>7. checkSentinelSemantics(Root) \subseteq Judgement
  <2>1. << >> \in Seq(StageId) /\ \A i \in DOMAIN << >> : << >>[i] \in DOMAIN stage
    OBVIOUS
  <2> QED BY <1>2, <2>1, QueryChecksType DEF Typed
<1>8. WalkOK'
  <2>1. toVisit' \in Seq(Live)
    BY <1>1, <1>6 DEF StartValidation
  <2>2. Live' = Live
    BY <1>4 DEF Live
  <2> QED BY <1>1, <1>7, <2>1, <2>2 DEF StartValidation, Typed, WalkOK
<1>9. FramesOK'
  BY <1>1, <1>4 DEF emitterVars, Typed, FramesOK, Placed, Pipeline
<1>10. PhaseOK' /\ ReportOK'
  BY <1>1, <1>2, <1>3, <1>4 DEF emitterVars, Typed, PhaseOK, ReportOK, Phases
<1> QED BY <1>5, <1>8, <1>9, <1>10 DEF Typed

(* Validating. *)
LEMMA ValidateTypes ==
  ASSUME Typed, Validate
  PROVE  Typed'
<1>1. /\ pc = "validating" /\ ValidatorNext
      /\ UNCHANGED <<stack, authored, emitterVars, pc, report>>
  BY DEF Validate
<1>2. HeapOK' /\ WalkOK' /\ DOMAIN query' = DOMAIN query
  BY <1>1, ValidatorTypes DEF Typed
<1>3. StackOK' /\ AuthoredOK'
  BY <1>1, <1>2 DEF Typed, StackOK, AuthoredOK
<1>4. frames = << >> /\ stack # << >>
  BY <1>1 DEF Typed, PhaseOK
<1>5. FramesOK'
  <2>1. frames' = << >> /\ << >> \in Seq(FrameRecord) /\ DOMAIN << >> = {}
    BY <1>1, <1>4 DEF emitterVars
  <2>2. offsetWritten' \in BOOLEAN /\ notes' \subseteq Node /\ written' \subseteq Node
    BY <1>1 DEF emitterVars, Typed, FramesOK
  <2> QED BY <2>1, <2>2 DEF FramesOK
<1>6. PhaseOK' /\ ReportOK'
  BY <1>1, <1>4 DEF Typed, PhaseOK, ReportOK, emitterVars
<1> QED BY <1>2, <1>3, <1>5, <1>6 DEF Typed

(* Emission begins and goes on. *)
LEMMA EmissionTypes ==
  ASSUME Typed, BeginEmission \/ Emit
  PROVE  Typed'
<1>1. /\ UNCHANGED <<resolverVars, validatorVars, report>>
      /\ pc \in {"validating", "emitting"} /\ pc' \in {"emitting", "reporting"}
      /\ pc = "validating" => Validated
      /\ frames' # << >> => pc' = "emitting"
      /\ StartEmission(Root) \/ EmitterNext
  <2>1. CASE BeginEmission
    BY <2>1 DEF BeginEmission
  <2>2. CASE Emit
    BY <2>2 DEF Emit
  <2> QED BY <2>1, <2>2
<1>2. query' = query /\ stage' = stage /\ stack' = stack /\ authored' = authored
  BY <1>1 DEF resolverVars, heap
<1>3. toVisit' = << >> /\ verdicts' = {} /\ stack # << >>
  BY <1>1 DEF validatorVars, Typed, PhaseOK, Validated
<1>4. HeapOK' /\ StackOK' /\ AuthoredOK'
  BY <1>2 DEF Typed, HeapOK, StackOK, AuthoredOK, Pipeline
<1>5. WalkOK'
  BY <1>1, <1>2 DEF validatorVars, Typed, WalkOK, Live
<1>6. FramesOK'
  <2>1. Root \in DOMAIN query
    BY <1>3 DEF Root, Typed, StackOK
  <2> QED BY <1>1, <1>2, <2>1, StartEmissionType, EmitterTypes DEF Typed
<1>7. PhaseOK' /\ ReportOK'
  BY <1>1, <1>2, <1>3 DEF Typed, PhaseOK, ReportOK, Phases
<1> QED BY <1>4, <1>5, <1>6, <1>7 DEF Typed

(* Nothing changes but the phase and the report. *)
LEMMA ReportTypes ==
  ASSUME Typed, UNCHANGED <<resolverVars, validatorVars, emitterVars>>,
         GenerateReport \/ UNCHANGED <<pc, report>>
  PROVE  Typed'
<1>1. /\ query' = query /\ stage' = stage /\ stack' = stack /\ authored' = authored
      /\ UNCHANGED <<toVisit, verdicts, flag, reason, issues, mismatch>>
      /\ UNCHANGED <<frames, offsetWritten, notes, written>>
  BY DEF resolverVars, heap, validatorVars, emitterVars
<1>2. HeapOK' /\ StackOK' /\ AuthoredOK'
  BY <1>1 DEF Typed, HeapOK, StackOK, AuthoredOK, Pipeline
<1>3. WalkOK'
  BY <1>1 DEF Typed, WalkOK, Live
<1>4. FramesOK'
  BY <1>1 DEF Typed, FramesOK, Placed, Pipeline
<1>5. CASE GenerateReport
  <2>1. pc = "reporting" /\ pc' = "done" /\ GenerateWithIssues
    BY <1>5 DEF GenerateReport
  <2>2. ReportOK'
    BY <2>1, ReportingType DEF Typed
  <2>3. PhaseOK'
    BY <1>1, <2>1 DEF Typed, PhaseOK, Phases
  <2> QED BY <1>2, <1>3, <1>4, <2>2, <2>3 DEF Typed
<1>6. CASE UNCHANGED <<pc, report>>
  <2>1. PhaseOK' /\ ReportOK'
    BY <1>1, <1>6 DEF Typed, PhaseOK, ReportOK
  <2> QED BY <1>2, <1>3, <1>4, <2>1 DEF Typed
<1> QED BY <1>5, <1>6

(* The types hold throughout. *)
LEMMA InitTyped ==
  Init => Typed
<1> SUFFICES ASSUME Init PROVE Typed
  OBVIOUS
<1>1. HeapOK /\ StackOK /\ AuthoredOK
  BY NothingYet DEF Init, ResolverInit
<1>2. WalkOK
  <2>1. FULL \in Flags /\ "" \in Reasons
    BY DEF Flags, Reasons
  <2>2. toVisit = << >> /\ verdicts = {} /\ issues = {} /\ mismatch = FALSE
        /\ flag = [n \in Node |-> FULL] /\ reason = [n \in Node |-> ""]
    BY DEF Init, ValidatorInit
  <2>3. << >> \in Seq(Live)
    OBVIOUS
  <2> QED BY <2>1, <2>2, <2>3 DEF WalkOK
<1>3. FramesOK
  <2>1. << >> \in Seq(FrameRecord) /\ DOMAIN << >> = {}
    OBVIOUS
  <2> QED BY <2>1 DEF FramesOK, Init, EmitterInit
<1>4. PhaseOK
  BY DEF PhaseOK, Phases, Init, ValidatorInit, EmitterInit
<1>5. ReportOK
  <2>1. report.rows = {} /\ report.partial = 0 /\ report.unsupported = 0
    BY DEF Init, NoReport
  <2> QED BY <2>1 DEF ReportOK
<1> QED BY <1>1, <1>2, <1>3, <1>4, <1>5 DEF Typed

(* Every step keeps them. *)
LEMMA NextTyped ==
  Typed /\ [Next]_vars => Typed'
<1> SUFFICES ASSUME Typed, [Next]_vars PROVE Typed'
  OBVIOUS
<1>1. CASE GenerateReport
  BY <1>1, ReportTypes DEF GenerateReport
<1>2. CASE Returned \/ UNCHANGED vars
  BY <1>2, ReportTypes DEF Returned, vars
<1>3. CASE Resolve \/ Fail \/ BeginValidation \/ Validate \/ BeginEmission \/ Emit
  BY <1>3, ResolveTypes, FailTypes, BeginValidationTypes, ValidateTypes, EmissionTypes
<1> QED BY <1>1, <1>2, <1>3 DEF Next, Proceed

(* Typed says more than the type invariant. *)
LEMMA TypedIsEnough ==
  Typed => TypeOK
<1> SUFFICES ASSUME Typed PROVE TypeOK
  OBVIOUS
<1>1. toVisit \in Seq(Node)
  <2>1. toVisit \in Seq(Live) /\ Live \subseteq Node
    BY LiveNodes DEF Typed, WalkOK
  <2> QED BY <2>1
<1>2. verdicts \subseteq VerdictRecord /\ issues \subseteq VerdictRecord
  BY DEF Typed, WalkOK, Judgement
<1> QED BY <1>1, <1>2 DEF Typed, TypeOK, HeapOK, StackOK, WalkOK, FramesOK, PhaseOK, ReportOK

(* In every translation the types hold: a pipeline, a stage, the worklist,   *)
(* the emitter's calls and the report refer to nothing the resolver has not   *)
(* allocated, however the sort and the operands nest                          *)
(* (compiler.go translate over ir.Query).                                     *)
THEOREM TranslationTyped ==
  Spec => []Typed
<1>1. Init => Typed
  BY InitTyped
<1>2. Typed /\ [Next]_vars => Typed'
  BY NextTyped
<1> QED BY <1>1, <1>2, PTL DEF Spec

(* The type invariant the runs check. *)
THEOREM CompilerTypeCorrect ==
  Spec => []TypeOK
<1>1. Spec => []Typed
  BY TranslationTyped
<1>2. Typed => TypeOK
  BY TypedIsEnough
<1> QED BY <1>1, <1>2, PTL

-----------------------------------------------------------------------------
(* What is recorded and reported. *)

(* A verdict recorded leaves every node with its worst one. *)
LEMMA ReportKeepsWorst ==
  ASSUME WalkOK, FlagIsWorstVerdict, Report
  PROVE  FlagIsWorstVerdict'
<1>1. PICK v \in verdicts :
         /\ flag' = [flag EXCEPT ![v.node] = IF v.flag > @ THEN v.flag ELSE @]
         /\ reason' = [reason EXCEPT ![v.node] = IF v.flag > flag[v.node] THEN v.reason ELSE @]
         /\ issues' = issues \cup {v}
  BY DEF Report
<1>2. \A w \in issues \cup {v} : w \in VerdictRecord /\ w.node \in Node /\ w.flag \in Flags
  BY <1>1 DEF WalkOK, Judgement, VerdictRecord
<1>3. \A n \in Node : flag[n] \in Flags
  BY DEF WalkOK
<1>4. \A n \in Node : /\ flag'[n] = IF n = v.node /\ v.flag > flag[n] THEN v.flag ELSE flag[n]
                      /\ reason'[n] = IF n = v.node /\ v.flag > flag[n] THEN v.reason ELSE reason[n]
  BY <1>1, <1>2 DEF WalkOK
<1>5. ASSUME NEW w \in issues' PROVE w.flag <= flag'[w.node]
  <2>0. w \in issues \cup {v} /\ w.node \in Node /\ w.flag \in Flags
    BY <1>1, <1>2
  <2>1. CASE w \in issues
    <3>1. w.flag <= flag[w.node]
      BY <2>1 DEF FlagIsWorstVerdict
    <3> QED BY <1>2, <1>3, <1>4, <2>0, <3>1 DEF Flags, FULL, PARTIAL, UNSUPPORTED
  <2>2. CASE w = v
    BY <1>2, <1>3, <1>4, <2>2 DEF Flags, FULL, PARTIAL, UNSUPPORTED
  <2> QED BY <2>0, <2>1, <2>2
<1>6. ASSUME NEW n \in Node, flag'[n] # FULL
      PROVE  \E w \in issues' : w.node = n /\ w.flag = flag'[n] /\ w.reason = reason'[n]
  <2>1. CASE n = v.node /\ v.flag > flag[n]
    BY <1>1, <1>4, <2>1
  <2>2. CASE ~(n = v.node /\ v.flag > flag[n])
    <3>1. flag'[n] = flag[n] /\ reason'[n] = reason[n]
      BY <1>4, <2>2
    <3>2. \E w \in issues : w.node = n /\ w.flag = flag[n] /\ w.reason = reason[n]
      BY <1>6, <3>1 DEF FlagIsWorstVerdict
    <3> QED BY <1>1, <3>1, <3>2
  <2> QED BY <2>1, <2>2
<1> QED BY <1>5, <1>6 DEF FlagIsWorstVerdict

(* The report shows the flags, and the issues the flags do not show. *)
LEMMA ReportShowsVerdicts ==
  ASSUME WalkOK, FlagIsWorstVerdict, HeapOK
  PROVE  {<<v.node, v.flag, v.reason>> : v \in FlagRows \cup IssueRows}
           = {<<v.node, v.flag, v.reason>> : v \in issues}
<1> DEFINE facts(v) == <<v.node, v.flag, v.reason>>
<1>1. \A v \in issues : v \in VerdictRecord /\ v.flag = Severity(v.reason)
  BY DEF WalkOK, Judgement
<1>2. ASSUME NEW row \in FlagRows
      PROVE  \E v \in issues : v.node = row.node /\ v.flag = row.flag /\ v.reason = row.reason
  <2>1. PICK n \in CarriedBy(PARTIAL) \cup CarriedBy(UNSUPPORTED) :
           row = Verdict(n, flag[n], reason[n])
    BY DEF FlagRows
  <2>2. n \in Node /\ flag[n] # FULL
    BY <2>1, PresentNodes DEF CarriedBy, FULL, PARTIAL, UNSUPPORTED
  <2>3. \E v \in issues : v.node = n /\ v.flag = flag[n] /\ v.reason = reason[n]
    BY <2>2 DEF FlagIsWorstVerdict
  <2> QED BY <2>1, <2>3 DEF Verdict
<1>3. ASSUME NEW v \in FlagRows \cup IssueRows PROVE facts(v) \in {facts(w) : w \in issues}
  <2>1. CASE v \in FlagRows
    BY <1>2, <2>1
  <2>2. CASE v \in IssueRows
    BY <2>2 DEF IssueRows
  <2> QED BY <2>1, <2>2
<1>4. ASSUME NEW v \in issues PROVE facts(v) \in {facts(w) : w \in FlagRows \cup IssueRows}
  <2>1. CASE \A row \in FlagRows : ~SameRow(row, v)
    BY <2>1 DEF IssueRows
  <2>2. CASE \E row \in FlagRows : SameRow(row, v)
    <3>1. PICK row \in FlagRows : row.node = v.node /\ row.reason = v.reason
      BY <2>2 DEF SameRow
    <3>2. row.flag = v.flag
      BY <1>1, <1>2, <3>1
    <3> QED BY <3>1, <3>2
  <2> QED BY <2>1, <2>2
<1> QED BY <1>3, <1>4

(* No row is there twice, but the sort's. *)
LEMMA RowsAreOnce ==
  ASSUME WalkOK, HeapOK,
         NEW v \in FlagRows \cup IssueRows, NEW w \in FlagRows \cup IssueRows,
         v.node = w.node, v.flag = w.flag, v.reason = w.reason
  PROVE  v = w \/ v.reason = "stage order"
<1>1. \A row \in FlagRows \cup IssueRows :
         row \in VerdictRecord /\ (row.path = "walked" \/ row.reason = "stage order")
  <2>1. ASSUME NEW row \in FlagRows PROVE row \in VerdictRecord /\ row.path = "walked"
    <3>1. PICK n \in CarriedBy(PARTIAL) \cup CarriedBy(UNSUPPORTED) :
             row = Verdict(n, flag[n], reason[n])
      BY <2>1 DEF FlagRows
    <3>2. n \in Node
      BY <3>1, PresentNodes DEF CarriedBy
    <3>3. flag[n] \in Flags /\ reason[n] \in Reasons
      BY <3>2 DEF WalkOK
    <3> QED BY <3>1, <3>2, <3>3 DEF Verdict, VerdictRecord
  <2>2. ASSUME NEW row \in IssueRows
        PROVE  row \in VerdictRecord /\ (row.path = "walked" \/ row.reason = "stage order")
    BY <2>2 DEF IssueRows, WalkOK, Judgement
  <2> QED BY <2>1, <2>2
<1>2. v \in VerdictRecord /\ w \in VerdictRecord
  BY <1>1
<1>3. (v.path = "walked" /\ w.path = "walked") \/ v.reason = "stage order"
  BY <1>1
<1>4. ASSUME v.path = w.path PROVE v = w
  <2>1. \A x \in VerdictRecord :
           x = [node |-> x.node, path |-> x.path, flag |-> x.flag, reason |-> x.reason]
    BY DEF VerdictRecord
  <2> QED BY <1>2, <1>4, <2>1
<1> QED BY <1>3, <1>4

(* The strengthened invariant of the verdicts. *)
Judged == Typed /\ FlagIsWorstVerdict /\ EveryVerdictReported

(* It holds throughout. *)
LEMMA JudgedThroughout ==
  Spec => []Judged
<1>1. Init => Judged
  <2> SUFFICES ASSUME Init PROVE FlagIsWorstVerdict /\ EveryVerdictReported
    BY InitTyped DEF Judged
  <2>1. issues = {} /\ flag = [n \in Node |-> FULL] /\ pc = "resolving"
    BY DEF Init, ValidatorInit
  <2> QED BY <2>1 DEF FlagIsWorstVerdict, EveryVerdictReported, Done
<1>2. Judged /\ [Next]_vars => Judged'
  <2> SUFFICES ASSUME Judged, [Next]_vars PROVE FlagIsWorstVerdict' /\ EveryVerdictReported'
    BY NextTyped DEF Judged
  <2>1. FlagIsWorstVerdict'
    <3>1. CASE Report
      BY <3>1, ReportKeepsWorst DEF Judged, Typed
    <3>2. CASE UNCHANGED <<flag, reason, issues>>
      BY <3>2 DEF Judged, FlagIsWorstVerdict
    <3>3. Report \/ UNCHANGED <<flag, reason, issues>>
      BY DEF Next, Proceed, Resolve, Fail, BeginValidation, StartValidation, Validate, ValidatorNext,
             VisitQuery, VisitStage, VisitMatcher, VisitWindow, VisitOther, BeginEmission, Emit,
             GenerateReport, Returned, validatorVars, vars
    <3> QED BY <3>1, <3>2, <3>3
  <2>2. EveryVerdictReported'
    <3>1. CASE GenerateReport
      <4>1. report'.rows = FlagRows \cup IssueRows /\ issues' = issues
        BY <3>1 DEF GenerateReport, GenerateWithIssues, validatorVars
      <4>2. {<<v.node, v.flag, v.reason>> : v \in FlagRows \cup IssueRows}
               = {<<v.node, v.flag, v.reason>> : v \in issues}
        BY ReportShowsVerdicts DEF Judged, Typed
      <4>3. {<<v.node, v.flag, v.reason>> : v \in report'.rows}
               = {<<v.node, v.flag, v.reason>> : v \in issues'}
        BY <4>1, <4>2
      <4>4. \A v, w \in report'.rows : v.node = w.node /\ v.flag = w.flag /\ v.reason = w.reason
                                         => v = w \/ v.reason = "stage order"
        BY <4>1, RowsAreOnce DEF Judged, Typed
      <4> QED BY <4>3, <4>4 DEF EveryVerdictReported
    <3>2. CASE pc' # "done"
      BY <3>2 DEF EveryVerdictReported, Done
    <3>3. CASE pc' = "done" /\ ~GenerateReport
      <4>1. pc = "done" /\ UNCHANGED <<report, issues>>
        BY <3>3 DEF Next, Proceed, Resolve, Fail, BeginValidation, Validate, BeginEmission, Emit,
                    Returned, vars, validatorVars
      <4> QED BY <4>1 DEF Judged, EveryVerdictReported, Done
    <3> QED BY <3>1, <3>2, <3>3
  <2> QED BY <2>1, <2>2
<1> QED BY <1>1, <1>2, PTL DEF Spec

(* However often a node is judged, and in whatever order the walk and the     *)
(* checks on the whole query come to it, it ends with the worst verdict       *)
(* reached about it and with the reason of that verdict (validator.go report).*)
THEOREM NodesCarryTheWorst ==
  Spec => []FlagIsWorstVerdict
<1>1. Spec => []Judged
  BY JudgedThroughout
<1>2. Judged => FlagIsWorstVerdict
  BY DEF Judged
<1> QED BY <1>1, <1>2, PTL

(* The report of a finished translation states every verdict once reached,    *)
(* also those a worse one masks, and states nothing else, and nothing twice   *)
(* but what it says of the order of stages (reporter.go GenerateWithIssues).  *)
THEOREM ReportIsEveryVerdict ==
  Spec => []EveryVerdictReported
<1>1. Spec => []Judged
  BY JudgedThroughout
<1>2. Judged => EveryVerdictReported
  BY DEF Judged
<1> QED BY <1>1, <1>2, PTL

=============================================================================
