------------------------ MODULE CompilerOrder_proof -------------------------
(***************************************************************************)
(* Proofs about the order of stages in a translation into LogQL: when the   *)
(* walk is over every pipeline is sorted, and whatever the sort carried     *)
(* across a stage that rewrites what it reads has been remarked upon.       *)
(***************************************************************************)
EXTENDS Compiler_proof

-----------------------------------------------------------------------------
(* The order stages are in, before and after the sort. *)

Ascending(ids) == \A k, l \in DOMAIN ids : k < l => ids[k] < ids[l]

(* Stages of one rank stand as they were written. *)
StableIn(ids) ==
    \A k, l \in DOMAIN ids :
       (k < l /\ rankOf(stage[ids[k]], def) = rankOf(stage[ids[l]], def)) => ids[k] < ids[l]

(* Ranks do not fall, and stages of one rank stand as they were written. *)
SortedIn(ids) ==
    \A k, l \in DOMAIN ids :
       k < l => \/ rankOf(stage[ids[k]], def) < rankOf(stage[ids[l]], def)
                \/ /\ rankOf(stage[ids[k]], def) = rankOf(stage[ids[l]], def)
                   /\ ids[k] < ids[l]

(* One of two stages rewrites what the other reads. *)
Conflict(s, t) == ReadsWhat(s) = WritesWhat(t) \/ ReadsWhat(t) = WritesWhat(s)

(* A stage that is flagged, or is about to be. *)
Remarked(s) == flag[StageNode(s)] # FULL \/ \E v \in verdicts : v.node = StageNode(s)

(* Of two stages that were turned around, if one affects the other, one is    *)
(* remarked upon.                                                             *)
RemarkedIn(ids) ==
    \A k, l \in DOMAIN ids :
       (k < l /\ ids[l] < ids[k] /\ Conflict(ids[l], ids[k]))
          => Remarked(ids[l]) \/ Remarked(ids[k])

(* While it is resolved a pipeline is in the order it was written in; after    *)
(* that only the sort moves its stages.                                       *)
OrderOK ==
    /\ pc = "resolving" => \A q \in DOMAIN query : Ascending(Pipeline(q))
    /\ \A q \in DOMAIN query : StableIn(Pipeline(q)) /\ RemarkedIn(Pipeline(q))

-----------------------------------------------------------------------------
(* Resolution. *)

(* A stage allocated goes after those that are there. *)
LEMMA AscendingGrows ==
  ASSUME NEW ids \in Seq(StageId), NEW s \in Nat, \A i \in DOMAIN ids : ids[i] < s, Ascending(ids)
  PROVE  Ascending(ids \o <<s>>) /\ Ascending(ids \o <<s, s + 1>>)
<1>1. Len(ids) \in Nat /\ DOMAIN ids = 1..Len(ids) /\ \A i \in DOMAIN ids : ids[i] \in Nat
  <2>1. Len(ids) \in Nat /\ DOMAIN ids = 1..Len(ids) /\ \A i \in DOMAIN ids : ids[i] \in StageId
    OBVIOUS
  <2> QED BY <2>1 DEF StageId
<1>2. ASSUME NEW more, more = <<s>> \/ more = <<s, s + 1>>
      PROVE  Ascending(ids \o more)
  <2>1. more \in Seq(Nat) /\ Len(more) \in {1, 2} /\ DOMAIN more = 1..Len(more)
        /\ \A j \in DOMAIN more : more[j] = s + j - 1
    <3>1. CASE more = <<s>>
      BY <3>1
    <3>2. CASE more = <<s, s + 1>>
      BY <3>2
    <3> QED BY <1>2, <3>1, <3>2
  <2>2. ids \in Seq(Nat)
    BY <1>1
  <2> DEFINE all == ids \o more
  <2>3. /\ Len(all) = Len(ids) + Len(more) /\ DOMAIN all = 1..(Len(ids) + Len(more))
        /\ \A i \in 1..(Len(ids) + Len(more)) :
              all[i] = IF i <= Len(ids) THEN ids[i] ELSE more[i - Len(ids)]
    BY <2>1, <2>2, ConcatProperties
  <2> HIDE DEF all
  <2>4. ASSUME NEW i \in DOMAIN all, i > Len(ids) PROVE all[i] = s + (i - Len(ids)) - 1
    <3>1. all[i] = more[i - Len(ids)] /\ i - Len(ids) \in DOMAIN more
      BY <1>1, <2>1, <2>3, <2>4
    <3> QED BY <2>1, <3>1
  <2>5. \A i \in DOMAIN all : i <= Len(ids) => i \in DOMAIN ids /\ all[i] = ids[i]
    BY <1>1, <2>1, <2>3
  <2>6. ASSUME NEW k \in DOMAIN all, NEW l \in DOMAIN all, k < l PROVE all[k] < all[l]
    <3>0. k \in Nat /\ l \in Nat
      BY <1>1, <2>1, <2>3
    <3>1. CASE l <= Len(ids)
      BY <1>1, <2>5, <2>6, <3>0, <3>1 DEF Ascending
    <3>2. CASE k <= Len(ids) /\ l > Len(ids)
      <4>1. all[k] = ids[k] /\ ids[k] < s /\ ids[k] \in Nat
        BY <1>1, <2>5, <3>2
      <4>2. all[l] = s + (l - Len(ids)) - 1
        BY <2>4, <3>2
      <4> QED BY <1>1, <3>0, <3>2, <4>1, <4>2
    <3>3. CASE k > Len(ids)
      <4>1. all[k] = s + (k - Len(ids)) - 1 /\ all[l] = s + (l - Len(ids)) - 1
        BY <1>1, <2>4, <2>6, <3>0, <3>3
      <4> QED BY <1>1, <2>6, <3>0, <4>1
    <3> QED BY <1>1, <3>0, <3>1, <3>2, <3>3
  <2> QED BY <2>6 DEF Ascending, all
<1> QED BY <1>2

(* What a step of the resolver does to the pipelines. *)
Grown ==
    LET s == Len(stage) + 1
    IN  /\ DOMAIN query \subseteq DOMAIN query'
        /\ \A q \in DOMAIN query :
              query'[q].pipeline \in {query[q].pipeline, query[q].pipeline \o <<s>>,
                                      query[q].pipeline \o <<s, s + 1>>}
        /\ \A q \in DOMAIN query' \ DOMAIN query : query'[q].pipeline \in {<< >>, <<s>>}

(* Stages are only ever added at the end. *)
LEMMA ResolverGrows ==
  ASSUME HeapOK, StackOK, Moves
  PROVE  Grown
<1> DEFINE s == Len(stage) + 1
<1>0. DOMAIN query = 1..Len(query) /\ Len(query) \in Nat /\ query \in Seq(QueryRecord)
      /\ \A q \in DOMAIN query : query[q] \in QueryRecord
  BY HeapDomains DEF HeapOK
<1>1. ASSUME NEW q, q \in QueryRecord, q.pipeline \in {<< >>, <<s>>}, query' = Append(query, q)
      PROVE  Grown
  <2>1. /\ DOMAIN query' = 1..(Len(query) + 1) /\ query'[Len(query) + 1] = q
        /\ \A p \in 1..Len(query) : query'[p] = query[p]
    BY <1>0, <1>1, AppendProperties
  <2>2. \A p \in DOMAIN query' \ DOMAIN query : p = Len(query) + 1
    BY <1>0, <2>1
  <2> QED BY <1>0, <1>1, <2>1, <2>2 DEF Grown
<1>2. ASSUME NEW q \in DOMAIN query, NEW r, query' = [query EXCEPT ![q] = r],
             r.pipeline \in {query[q].pipeline, query[q].pipeline \o <<s>>,
                             query[q].pipeline \o <<s, s + 1>>}
      PROVE  Grown
  <2>1. DOMAIN query' = DOMAIN query /\ query'[q] = r
        /\ \A p \in DOMAIN query : p # q => query'[p] = query[p]
    BY <1>0, <1>2
  <2>2. ASSUME NEW p \in DOMAIN query
        PROVE  query'[p].pipeline \in {query[p].pipeline, query[p].pipeline \o <<s>>,
                                       query[p].pipeline \o <<s, s + 1>>}
    BY <1>2, <2>1
  <2> QED BY <2>1, <2>2 DEF Grown
<1>3. CASE Fetches
  BY <1>1, <1>3 DEF Fetches, PushQuery
<1>4. CASE Begins
  <2> DEFINE q == [NewQuery(MetricSignal, "none") EXCEPT !.pipeline = <<s>>]
  <2>1. query' = Append(query, q) /\ s \in StageId
    <3>1. Len(stage) + 1 <= MaxStages /\ query' = Append(query, q)
      BY <1>4 DEF Begins, PushStage
    <3> QED BY <3>1, HeapDomains DEF StageId
  <2>2. q \in QueryRecord /\ q.pipeline = <<s>>
    <3>1. <<s>> \in Seq(StageId)
      BY <2>1
    <3> QED BY <3>1, BareQuery
  <2> HIDE DEF q
  <2> QED BY <1>1, <2>1, <2>2
<1>5. CASE Folds
  <2> DEFINE q == Top.q
             r == [query[q] EXCEPT !.pipeline = Append(@, s)]
  <2>1. q \in DOMAIN query /\ query' = [query EXCEPT ![q] = r]
    BY <1>5, TopOfStack DEF Folds, AppendStage
  <2>2. query[q] \in QueryRecord /\ query[q].pipeline \in Seq(StageId)
    BY <1>0, <2>1 DEF QueryRecord
  <2>3. r.pipeline = query[q].pipeline \o <<s>>
    <3>1. r.pipeline = Append(query[q].pipeline, s)
      BY <2>2 DEF QueryRecord
    <3>2. s \in StageId
      <4>1. Len(stage) + 1 <= MaxStages
        BY <1>5 DEF Folds
      <4> QED BY <4>1, HeapDomains DEF StageId
    <3> HIDE DEF r, q, s
    <3> QED BY <2>2, <3>1, <3>2, AppendIsConcat
  <2> HIDE DEF q, r
  <2> QED BY <1>2, <2>1, <2>3
<1>6. CASE ResolveJoin
  <2> DEFINE q == Below.q
             r == [query[q] EXCEPT !.pipeline = @ \o <<s, s + 1>>]
  <2>1. q \in DOMAIN query
    <3>1. Len(stack) >= 2
      BY <1>6 DEF ResolveJoin
    <3>2. stack # << >>
      BY <3>1
    <3> QED BY <3>1, <3>2, TopOfStack
  <2>2. query' = [query EXCEPT ![q] = r]
    BY <1>6, <2>1 DEF ResolveJoin
  <2>3. query[q] \in QueryRecord
    BY <1>0, <2>1
  <2>4. r.pipeline = query[q].pipeline \o <<s, s + 1>>
    BY <2>3 DEF QueryRecord
  <2> HIDE DEF q, r
  <2> QED BY <1>2, <2>1, <2>2, <2>4
<1>7. CASE Modifies
  <2>1. stack # << >>
    BY <1>7 DEF Modifies, Retypes
  <2>2. Top.q \in DOMAIN query
    BY <2>1, TopOfStack
  <2> QED BY <1>2, <1>7, <2>2 DEF Modifies
<1>8. CASE Retypes /\ UNCHANGED heap
  BY <1>8 DEF heap, Grown
<1> QED BY <1>3, <1>4, <1>5, <1>6, <1>7, <1>8 DEF Moves

(* So a pipeline is in the order it was written in while it is resolved. *)
LEMMA ResolverAscends ==
  ASSUME HeapOK, Grown, \A q \in DOMAIN query : Ascending(Pipeline(q))
  PROVE  \A q \in DOMAIN query' : Ascending(query'[q].pipeline)
<1> DEFINE s == Len(stage) + 1
<1>1. s \in Nat /\ DOMAIN stage = 1..Len(stage) /\ Len(stage) \in Nat
  BY HeapDomains
<1>2. ASSUME NEW q \in DOMAIN query PROVE Ascending(query'[q].pipeline)
  <2> DEFINE ids == query[q].pipeline
  <2>1. ids \in Seq(StageId) /\ \A i \in DOMAIN ids : ids[i] \in DOMAIN stage
    BY PipelineType DEF Pipeline
  <2>2. \A i \in DOMAIN ids : ids[i] < s
    BY <1>1, <2>1
  <2>3. Ascending(ids)
    BY DEF Pipeline
  <2> HIDE DEF s, ids
  <2>4. Ascending(ids \o <<s>>) /\ Ascending(ids \o <<s, s + 1>>)
    BY <1>1, <2>1, <2>2, <2>3, AscendingGrows
  <2>5. query'[q].pipeline \in {ids, ids \o <<s>>, ids \o <<s, s + 1>>}
    BY DEF Grown, ids, s
  <2> QED BY <2>3, <2>4, <2>5
<1>3. ASSUME NEW q \in DOMAIN query' \ DOMAIN query PROVE Ascending(query'[q].pipeline)
  <2>1. query'[q].pipeline = << >> \/ query'[q].pipeline = <<s>>
    BY DEF Grown
  <2>2. Ascending(<< >>) /\ Ascending(<<s>>)
    BY <1>1 DEF Ascending
  <2> QED BY <2>1, <2>2
<1> QED BY <1>2, <1>3

-----------------------------------------------------------------------------
(* The sort. *)

(* The target fixes the order of stages. *)
LEMMA TargetOrders ==
  def.pipelineOrdered
  BY EmittedTarget DEF def, Dialect, Logql

(* A rank is a number. *)
LEMMA RankType ==
  ASSUME NEW st
  PROVE  rankOf(st, def) \in Nat
  BY DEF rankOf, rankLineFilter, rankParser, rankLabelFilter, rankFormatter, rankUnwrap,
         rankAggregation, rankValueFilter, rankJoin, rankOther

(* Where the stage at a place of the sorted pipeline was. *)
LEMMA WhereItWas ==
  ASSUME NEW ids \in Seq(StageId), NEW k \in DOMAIN ids
  PROVE  LET ranks == Ranks(ids, def)
             i == OldPosition(ranks, k)
         IN  /\ i \in DOMAIN ids /\ NewPosition(ranks, i) = k
             /\ Reordered(ids, def)[k] = ids[i]
             /\ ranks[i] = rankOf(stage[ids[i]], def)
             /\ DOMAIN Reordered(ids, def) = DOMAIN ids
<1> DEFINE ranks == Ranks(ids, def)
           i == OldPosition(ranks, k)
<1>1. Len(ids) \in Nat /\ DOMAIN ids = 1..Len(ids) /\ ranks \in Ranking(Len(ids))
  BY RanksType
<1>2. i \in DOMAIN ids /\ NewPosition(ranks, i) = k
  BY <1>1, OldPositionInverts
<1>3. Reordered(ids, def) = [m \in DOMAIN ids |-> ids[OldPosition(ranks, m)]]
  BY TargetOrders DEF Reordered
<1>4. ranks[i] = rankOf(stage[ids[i]], def)
  BY <1>2 DEF Ranks
<1> HIDE DEF ranks
<1>5. Reordered(ids, def)[k] = ids[i] /\ DOMAIN Reordered(ids, def) = DOMAIN ids
  BY <1>3
<1> QED BY <1>2, <1>4, <1>5 DEF ranks

(* What is sorted is sorted, and stable. *)
LEMMA SortSorts ==
  ASSUME NEW ids \in Seq(StageId), StableIn(ids)
  PROVE  SortedIn(Reordered(ids, def)) /\ StableIn(Reordered(ids, def))
<1> DEFINE ranks == Ranks(ids, def)
           sorted == Reordered(ids, def)
<1>0. \A k \in DOMAIN ids : ids[k] \in Nat
  <2>1. \A k \in DOMAIN ids : ids[k] \in StageId
    OBVIOUS
  <2> QED BY <2>1 DEF StageId
<1>1. ASSUME NEW k \in DOMAIN sorted, NEW l \in DOMAIN sorted, k < l
      PROVE  \/ rankOf(stage[sorted[k]], def) < rankOf(stage[sorted[l]], def)
             \/ /\ rankOf(stage[sorted[k]], def) = rankOf(stage[sorted[l]], def)
                /\ sorted[k] < sorted[l]
  <2> DEFINE i == OldPosition(ranks, k)
             j == OldPosition(ranks, l)
  <2>0. k \in DOMAIN ids /\ l \in DOMAIN ids
    BY WhereItWas, ReorderedType
  <2>1. /\ i \in DOMAIN ids /\ sorted[k] = ids[i] /\ ranks[i] = rankOf(stage[ids[i]], def)
        /\ j \in DOMAIN ids /\ sorted[l] = ids[j] /\ ranks[j] = rankOf(stage[ids[j]], def)
    BY <2>0, WhereItWas
  <2>2. ranks[i] < ranks[j] \/ (ranks[i] = ranks[j] /\ i < j)
    BY <1>1, <2>0, SortIsStable
  <2> HIDE DEF sorted, ranks, i, j
  <2> QED BY <2>1, <2>2 DEF StableIn
<1>2. SortedIn(sorted)
  BY <1>1 DEF SortedIn
<1>3. StableIn(sorted)
  <2> HIDE DEF sorted
  <2>1. \A s : rankOf(stage[s], def) \in Nat
    BY RankType
  <2> QED BY <1>2, <2>1 DEF SortedIn, StableIn
<1> QED BY <1>2, <1>3

(* What a filter is ranked by. *)
LEMMA FilterRank ==
  ASSUME NEW st, st.type = "Filter"
  PROVE  /\ st.what = FieldBody => rankOf(st, def) = rankLineFilter
         /\ (st.what # FieldBody /\ st.what # FieldValue) => rankOf(st, def) = rankLabelFilter
<1>1. st.what = FieldBody => rankOf(st, def) = rankLineFilter
  BY DEF rankOf, FieldBody, FieldValue
<1>2. (st.what # FieldBody /\ st.what # FieldValue) => rankOf(st, def) = rankLabelFilter
  BY DEF rankOf, FieldBody, FieldValue
<1> QED BY <1>1, <1>2

(* An unwrap has a rank of its own. *)
LEMMA UnwrapRank ==
  ASSUME NEW st, st.type = "Function", st.what = "unwrap"
  PROVE  rankOf(st, def) = rankUnwrap
<1>1. ~ReadsRangeOperand(def, "unwrap")
  BY EmittedTarget DEF ReadsRangeOperand, def, Dialect, Logql, RangeFunctions
<1> QED BY <1>1 DEF rankOf, Parsers, LabelFormatters, LineFormatters

(* A stage that rewrites what another reads affects it. *)
LEMMA ConflictAffects ==
  ASSUME HeapOK, NEW ids \in Seq(StageId), NEW i \in DOMAIN ids, NEW j \in DOMAIN ids,
         ids[i] \in DOMAIN stage, ids[j] \in DOMAIN stage,
         ReadsWhat(ids[i]) = WritesWhat(ids[j])
  PROVE  j \in AffectedBy(ids, Ranks(ids, def), i)
<1> DEFINE s == ids[i]
           t == ids[j]
           ranks == Ranks(ids, def)
<1>1. ranks[i] = rankOf(stage[s], def)
  BY DEF Ranks
<1>2. Shaped(stage[s])
  BY DEF HeapOK
<1> HIDE DEF s, t, ranks
<1>3. \/ WritesWhat(t) = "labels" /\ changesLabels(stage[t])
      \/ WritesWhat(t) = "line" /\ changesLine(stage[t])
      \/ WritesWhat(t) = "no input"
  BY DEF WritesWhat, changesLabels, changesLine, Parsers, LabelFormatters, LineFormatters
<1>4. stage[s].type = "Filter" => stage[s].what # "unwrap"
  BY <1>2 DEF Shaped
<1>5. ReadsWhat(s) = "labels" => ranks[i] \in {rankLabelFilter, rankUnwrap}
  <2>1. CASE stage[s].type = "Filter"
    <3>1. ReadsWhat(s) = "labels" => stage[s].what # FieldBody /\ stage[s].what # FieldValue
      BY <1>4, <2>1 DEF ReadsWhat, FieldBody, FieldValue
    <3> QED BY <1>1, <2>1, <3>1, FilterRank
  <2>2. CASE stage[s].type # "Filter" /\ stage[s].what = "unwrap"
    <3>1. stage[s].type = "Function"
      BY <1>2, <2>2 DEF Shaped
    <3> QED BY <1>1, <2>2, <3>1, UnwrapRank
  <2>3. CASE stage[s].type # "Filter" /\ stage[s].what # "unwrap"
    BY <2>3 DEF ReadsWhat
  <2> QED BY <2>1, <2>2, <2>3
<1>6. ReadsWhat(s) = "line" => ranks[i] = rankLineFilter
  <2>1. CASE stage[s].type = "Filter"
    <3>1. ReadsWhat(s) = "line" => stage[s].what = FieldBody
      BY <1>4, <2>1 DEF ReadsWhat, FieldBody, FieldValue
    <3> QED BY <1>1, <2>1, <3>1, FilterRank
  <2>2. CASE stage[s].type # "Filter"
    BY <2>2 DEF ReadsWhat
  <2> QED BY <2>1, <2>2
<1>7. ReadsWhat(s) # "no input"
  BY <1>4 DEF ReadsWhat, FieldBody, FieldValue
<1>8. ReadsWhat(s) = WritesWhat(t)
  BY DEF s, t
<1>9. \/ changesLabels(stage[t]) /\ ranks[i] \in {rankLabelFilter, rankUnwrap}
      \/ changesLine(stage[t]) /\ ranks[i] = rankLineFilter
  BY <1>3, <1>5, <1>6, <1>7, <1>8
<1>10. rankLineFilter \notin {rankLabelFilter, rankUnwrap}
  BY DEF rankLineFilter, rankLabelFilter, rankUnwrap
<1> QED BY <1>9, <1>10 DEF AffectedBy, t, ranks

(* A stage that moved and crossed another's producer is given a verdict. *)
LEMMA CrossedIsJudged ==
  ASSUME NEW ids \in Seq(StageId),
         NEW m \in DOMAIN ids, NewPosition(Ranks(ids, def), m) # m,
         m \in crossedProducer(ids, Ranks(ids, def))
  PROVE  \E v \in checkPipelineOrder(ids) : v.node = StageNode(ids[m])
<1> DEFINE v == Verdict(StageNode(ids[m]), PARTIAL, "stage order")
<1>1. v \in Raise(def.pipelineOrdered, StageNode(ids[m]), PARTIAL, "stage order")
  BY TargetOrders DEF Raise
<1>2. v.node = StageNode(ids[m])
  BY DEF Verdict
<1> HIDE DEF v
<1>3. v \in checkPipelineOrder(ids)
  BY <1>1 DEF checkPipelineOrder
<1> QED BY <1>2, <1>3

(* Of two stages the sort leaves in another order than they were written in,  *)
(* one is flagged already or is given a verdict, if one affects the other.    *)
LEMMA SortRemarks ==
  ASSUME HeapOK, NEW ids \in Seq(StageId), \A i \in DOMAIN ids : ids[i] \in DOMAIN stage,
         RemarkedIn(ids), verdicts = {},
         NEW k \in DOMAIN ids, NEW l \in DOMAIN ids, k < l,
         Reordered(ids, def)[l] < Reordered(ids, def)[k],
         Conflict(Reordered(ids, def)[l], Reordered(ids, def)[k])
  PROVE  \E s \in {Reordered(ids, def)[k], Reordered(ids, def)[l]} :
            \/ flag[StageNode(s)] # FULL
            \/ \E v \in checkPipelineOrder(ids) : v.node = StageNode(s)
<1> DEFINE ranks == Ranks(ids, def)
           i == OldPosition(ranks, k)
           j == OldPosition(ranks, l)
           sorted == Reordered(ids, def)
<1>1. Len(ids) \in Nat /\ DOMAIN ids = 1..Len(ids) /\ ranks \in Ranking(Len(ids))
  BY RanksType
<1>2. /\ i \in DOMAIN ids /\ NewPosition(ranks, i) = k /\ sorted[k] = ids[i]
      /\ j \in DOMAIN ids /\ NewPosition(ranks, j) = l /\ sorted[l] = ids[j]
  BY WhereItWas
<1>3. ids[j] < ids[i] /\ Conflict(ids[j], ids[i])
  BY <1>2
<1>4. i # j /\ i \in Nat /\ j \in Nat /\ k \in Nat /\ l \in Nat
  BY <1>1, <1>2
<1> SUFFICES \E s \in {ids[i], ids[j]} :
                \/ flag[StageNode(s)] # FULL
                \/ \E v \in checkPipelineOrder(ids) : v.node = StageNode(s)
  BY <1>2
<1> HIDE DEF ranks, i, j, sorted
<1>5. CASE i < j
  <2>1. Remarked(ids[j]) \/ Remarked(ids[i])
    BY <1>2, <1>3, <1>5 DEF RemarkedIn
  <2> QED BY <2>1 DEF Remarked
<1>6. CASE j < i
  <2>1. ~Precedes(ranks, j, i)
    <3> SUFFICES ASSUME Precedes(ranks, j, i) PROVE FALSE
      OBVIOUS
    <3>1. l < k
      BY <1>1, <1>2, NewPositionOrders
    <3> QED BY <1>4, <3>1
  <2>2. Precedes(ranks, i, j)
    BY <1>1, <1>2, <1>4, <2>1, PrecedesOrders
  <2>3. Swapped(ranks, j, i)
    BY <1>6, <2>2 DEF Swapped
  <2>4. i \in AffectedBy(ids, ranks, j) \/ j \in AffectedBy(ids, ranks, i)
    BY <1>2, <1>3, ConflictAffects DEF Conflict, ranks
  <2>5. {j, i} \cap {m \in DOMAIN ids : NewPosition(ranks, m) # m}
               \cap crossedProducer(ids, ranks) # {}
    BY <1>2, <1>6, <2>3, <2>4, ExchangedPairReported DEF ranks
  <2>6. PICK m \in {j, i} : NewPosition(ranks, m) # m /\ m \in crossedProducer(ids, ranks)
    BY <2>5
  <2>7. \E v \in checkPipelineOrder(ids) : v.node = StageNode(ids[m])
    BY <1>2, <2>6, CrossedIsJudged DEF ranks
  <2> QED BY <2>6, <2>7
<1> QED BY <1>4, <1>5, <1>6
-----------------------------------------------------------------------------
(* OrderOK is kept. *)

(* A remark about a stage stays while nothing but flags and verdicts change. *)
LEMMA RemarksStay ==
  ASSUME WalkOK, NEW s, StageNode(s) \in Node, Remarked(s),
         \/ flag' = flag /\ (verdicts = {} \/ verdicts \subseteq verdicts')
         \/ Report
  PROVE  Remarked(s)'
<1>1. CASE flag' = flag /\ (verdicts = {} \/ verdicts \subseteq verdicts')
  BY <1>1 DEF Remarked
<1>2. CASE Report
  <2>1. PICK v \in verdicts :
           /\ flag' = [flag EXCEPT ![v.node] = IF v.flag > @ THEN v.flag ELSE @]
           /\ verdicts' = verdicts \ {v}
    BY <1>2 DEF Report
  <2>2. v \in VerdictRecord /\ v.flag = Severity(v.reason) /\ v.node \in Node
    BY <2>1 DEF WalkOK, Judgement, VerdictRecord
  <2>3. v.flag \in {PARTIAL, UNSUPPORTED} /\ \A n \in Node : flag[n] \in Flags
    BY <2>2 DEF Severity, WalkOK
  <2>4. \A n \in Node : flag'[n] = IF n = v.node /\ v.flag > flag[n] THEN v.flag ELSE flag[n]
    BY <2>1, <2>2 DEF WalkOK
  <2>5. \A n \in Node : flag[n] # FULL => flag'[n] # FULL
    BY <2>3, <2>4 DEF Flags, FULL, PARTIAL, UNSUPPORTED
  <2>6. flag'[v.node] # FULL
    <3>1. v.flag > FULL /\ flag[v.node] \in Flags
      BY <2>2, <2>3 DEF FULL, PARTIAL, UNSUPPORTED
    <3> QED BY <2>2, <2>3, <2>4, <3>1 DEF Flags, FULL, PARTIAL, UNSUPPORTED
  <2>7. CASE flag[StageNode(s)] # FULL
    BY <2>5, <2>7 DEF Remarked
  <2>8. CASE \E w \in verdicts : w.node = StageNode(s)
    BY <2>1, <2>6, <2>8 DEF Remarked
  <2> QED BY <2>7, <2>8 DEF Remarked
<1> QED BY <1>1, <1>2

(* A step that leaves the heap alone. *)
LEMMA OrderKept ==
  ASSUME HeapOK, WalkOK, OrderOK, UNCHANGED heap, pc' = "resolving" => pc = "resolving",
         \/ flag' = flag /\ (verdicts = {} \/ verdicts \subseteq verdicts')
         \/ Report
  PROVE  OrderOK'
<1>1. query' = query /\ stage' = stage
  BY DEF heap
<1>2. ASSUME NEW q \in DOMAIN query PROVE StableIn(Pipeline(q))' /\ RemarkedIn(Pipeline(q))'
  <2>1. StableIn(Pipeline(q)) /\ RemarkedIn(Pipeline(q)) /\ Pipeline(q)' = Pipeline(q)
    BY <1>1, <1>2 DEF OrderOK, Pipeline
  <2>2. \A i \in DOMAIN Pipeline(q) : StageNode(Pipeline(q)[i]) \in Node
    <3>1. \A i \in DOMAIN Pipeline(q) : Pipeline(q)[i] \in StageId
      BY PipelineType, HeapDomains
    <3> QED BY <3>1 DEF StageNode, Node
  <2>3. ASSUME NEW s, StageNode(s) \in Node, Remarked(s) PROVE Remarked(s)'
    BY <2>3, RemarksStay
  <2>4. StableIn(Pipeline(q))'
    BY <1>1, <2>1 DEF StableIn, def
  <2>5. \A s, t : Conflict(s, t)' = Conflict(s, t)
    BY <1>1 DEF Conflict, ReadsWhat, WritesWhat
  <2>6. ASSUME NEW ids, RemarkedIn(ids), \A i \in DOMAIN ids : StageNode(ids[i]) \in Node
        PROVE  RemarkedIn(ids)'
    <3>1. ASSUME NEW k \in DOMAIN ids, NEW l \in DOMAIN ids, k < l, ids[l] < ids[k],
                 Conflict(ids[l], ids[k])'
          PROVE  Remarked(ids[l])' \/ Remarked(ids[k])'
      <4>1. Conflict(ids[l], ids[k])
        BY <2>5, <3>1
      <4>2. Remarked(ids[l]) \/ Remarked(ids[k])
        BY <2>6, <3>1, <4>1 DEF RemarkedIn
      <4> QED BY <2>3, <2>6, <4>2
    <3> QED BY <3>1 DEF RemarkedIn
  <2>7. RemarkedIn(Pipeline(q))'
    BY <2>1, <2>2, <2>6
  <2> QED BY <2>4, <2>7
<1>3. pc' = "resolving" => \A q \in DOMAIN query' : Ascending(Pipeline(q))'
  BY <1>1 DEF OrderOK, Ascending, Pipeline
<1> QED BY <1>1, <1>2, <1>3 DEF OrderOK
(* What a visit of a query does to the pipelines. *)
LEMMA VisitSorts ==
  ASSUME HeapOK, WalkOK, VisitQuery
  PROVE  LET q == Head(toVisit)[2]
         IN  /\ q \in DOMAIN query /\ Head(toVisit) = QueryNode(q) /\ verdicts = {}
             /\ UNCHANGED <<stage, flag>> /\ DOMAIN query' = DOMAIN query
             /\ query'[q].pipeline = Reordered(Pipeline(q), def)
             /\ \A p \in DOMAIN query : p # q => query'[p] = query[p]
             /\ {AtBarePath(v) : v \in checkPipelineOrder(Pipeline(q))} \subseteq verdicts'
             /\ toVisit \in Seq(Live) /\ toVisit # << >>
             /\ Descend(QueryChildren(q, Reordered(Pipeline(q), def)))
<1> DEFINE q == Head(toVisit)[2]
           ids == Pipeline(q)
           ordered == Reordered(ids, def)
<1>1. /\ AtNode({"Query"}) /\ UNCHANGED stage /\ UNCHANGED <<flag, reason, issues, mismatch>>
      /\ query' = [query EXCEPT ![q].pipeline = ordered]
      /\ {AtBarePath(v) : v \in checkPipelineOrder(ids)} \subseteq verdicts'
      /\ Descend(QueryChildren(q, ordered))
  BY DEF VisitQuery
<1>2. verdicts = {} /\ toVisit \in Seq(Live) /\ toVisit # << >> /\ Head(toVisit)[1] = "Query"
  BY <1>1 DEF AtNode, WalkOK
<1>3. q \in DOMAIN query /\ Head(toVisit) \in Live
  BY <1>2, NextNode DEF QueryKinds
<1>4. Head(toVisit) = QueryNode(q)
  <2>1. \E kind, id : Head(toVisit) = <<kind, id>>
    BY <1>3 DEF Live
  <2> QED BY <1>2, <2>1 DEF QueryNode
<1>5. /\ DOMAIN query' = DOMAIN query /\ query'[q].pipeline = ordered
      /\ \A p \in DOMAIN query : p # q => query'[p] = query[p]
  BY <1>1, <1>3, VisitQueryHeap
<1> HIDE DEF ordered
<1> QED BY <1>1, <1>2, <1>3, <1>4, <1>5 DEF ordered

(* The sort keeps stages of a rank as they were written, and has verdicts     *)
(* reached about what it turns around.                                        *)
LEMMA OrderVisits ==
  ASSUME HeapOK, WalkOK, OrderOK, VisitQuery, pc = "validating", pc' = pc
  PROVE  OrderOK'
<1> DEFINE q == Head(toVisit)[2]
           ids == Pipeline(q)
           sorted == Reordered(ids, def)
<1>1. /\ q \in DOMAIN query /\ verdicts = {}
      /\ stage' = stage /\ flag' = flag /\ DOMAIN query' = DOMAIN query
      /\ query'[q].pipeline = sorted
      /\ \A p \in DOMAIN query : p # q => query'[p] = query[p]
      /\ {AtBarePath(v) : v \in checkPipelineOrder(ids)} \subseteq verdicts'
  BY VisitSorts
<1>2. ids \in Seq(StageId) /\ \A i \in DOMAIN ids : ids[i] \in DOMAIN stage
  BY <1>1, PipelineType
<1>3. StableIn(ids) /\ RemarkedIn(ids)
  BY <1>1 DEF OrderOK
<1> HIDE DEF ids, q
<1>4. StableIn(sorted)
  BY <1>2, <1>3, SortSorts
<1>5. \A v \in checkPipelineOrder(ids) : AtBarePath(v).node = v.node
  BY <1>1, <1>2, QueryChecksType
<1>6. ASSUME NEW k \in DOMAIN sorted, NEW l \in DOMAIN sorted, k < l, sorted[l] < sorted[k],
             Conflict(sorted[l], sorted[k])
      PROVE  \E s \in {sorted[k], sorted[l]} :
                flag'[StageNode(s)] # FULL \/ \E v \in verdicts' : v.node = StageNode(s)
  <2>1. k \in DOMAIN ids /\ l \in DOMAIN ids
    BY <1>2, <1>6, ReorderedType
  <2>2. PICK s \in {sorted[k], sorted[l]} :
           \/ flag[StageNode(s)] # FULL
           \/ \E v \in checkPipelineOrder(ids) : v.node = StageNode(s)
    BY <1>1, <1>2, <1>3, <1>6, <2>1, SortRemarks
  <2> HIDE DEF sorted
  <2>3. flag'[StageNode(s)] # FULL \/ \E v \in verdicts' : v.node = StageNode(s)
    <3>1. CASE flag[StageNode(s)] # FULL
      BY <1>1, <3>1
    <3>2. CASE \E v \in checkPipelineOrder(ids) : v.node = StageNode(s)
      BY <1>1, <1>5, <3>2
    <3> QED BY <2>2, <3>1, <3>2
  <2> QED BY <2>2, <2>3
<1> HIDE DEF sorted
<1>7. \A s, t : Conflict(s, t)' = Conflict(s, t)
  BY <1>1 DEF Conflict, ReadsWhat, WritesWhat
<1>8. ASSUME NEW more, more = sorted PROVE StableIn(more)' /\ RemarkedIn(more)'
  <2>1. StableIn(more)'
    BY <1>1, <1>4, <1>8 DEF StableIn, def
  <2>2. ASSUME NEW k \in DOMAIN more, NEW l \in DOMAIN more, k < l, more[l] < more[k],
               Conflict(more[l], more[k])'
        PROVE  Remarked(more[l])' \/ Remarked(more[k])'
    <3>1. Conflict(more[l], more[k])
      BY <1>7, <2>2
    <3>2. PICK s \in {more[k], more[l]} :
             flag'[StageNode(s)] # FULL \/ \E v \in verdicts' : v.node = StageNode(s)
      BY <1>6, <1>8, <2>2, <3>1
    <3>3. Remarked(s)'
      BY <3>2 DEF Remarked, StageNode
    <3> QED BY <3>2, <3>3
  <2>3. RemarkedIn(more)'
    BY <2>2 DEF RemarkedIn
  <2> QED BY <2>1, <2>3
<1>9. ASSUME NEW more, StableIn(more), RemarkedIn(more) PROVE StableIn(more)' /\ RemarkedIn(more)'
  <2>1. \A s : Remarked(s) => Remarked(s)'
    BY <1>1 DEF Remarked
  <2>2. StableIn(more)'
    BY <1>1, <1>9 DEF StableIn, def
  <2>3. ASSUME NEW k \in DOMAIN more, NEW l \in DOMAIN more, k < l, more[l] < more[k],
               Conflict(more[l], more[k])'
        PROVE  Remarked(more[l])' \/ Remarked(more[k])'
    <3>1. Conflict(more[l], more[k])
      BY <1>7, <2>3
    <3>2. Remarked(more[l]) \/ Remarked(more[k])
      BY <1>9, <2>3, <3>1 DEF RemarkedIn
    <3> QED BY <2>1, <3>2
  <2>4. RemarkedIn(more)'
    BY <2>3 DEF RemarkedIn
  <2> QED BY <2>2, <2>4
<1>10. ASSUME NEW p \in DOMAIN query' PROVE StableIn(Pipeline(p))' /\ RemarkedIn(Pipeline(p))'
  <2>1. CASE p = q
    <3>1. Pipeline(p)' = sorted
      BY <1>1, <2>1 DEF Pipeline
    <3> QED BY <1>8, <3>1
  <2>2. CASE p # q
    <3>1. Pipeline(p)' = Pipeline(p) /\ p \in DOMAIN query
      BY <1>1, <2>2 DEF Pipeline
    <3>2. StableIn(Pipeline(p)) /\ RemarkedIn(Pipeline(p))
      BY <3>1 DEF OrderOK
    <3> QED BY <1>9, <3>1, <3>2
  <2> QED BY <2>1, <2>2
<1> QED BY <1>10 DEF OrderOK

(* The resolver keeps the order of writing. *)
LEMMA OrderResolves ==
  ASSUME HeapOK, StackOK, AuthoredOK, OrderOK, pc = "resolving", ResolverNext
  PROVE  OrderOK'
<1>1. HeapOK' /\ Grown
  BY ResolverTypes, ResolverMoves, ResolverGrows
<1>2. \A q \in DOMAIN query' : Ascending(query'[q].pipeline)
  BY <1>1, ResolverAscends DEF OrderOK
<1>3. ASSUME NEW q \in DOMAIN query', NEW ids, ids = query'[q].pipeline
      PROVE  StableIn(ids)' /\ RemarkedIn(ids)'
  <2>1. \A i \in DOMAIN ids : ids[i] \in Nat
    <3>1. \A i \in DOMAIN ids : ids[i] \in DOMAIN stage'
      BY <1>1, <1>3 DEF HeapOK, Pipeline
    <3>2. DOMAIN stage' \subseteq Nat
      <4>1. stage' \in Seq(StageRecord)
        BY <1>1 DEF HeapOK
      <4> QED BY <4>1
    <3> QED BY <3>1, <3>2
  <2>2. \A k, l \in DOMAIN ids : k < l => ids[k] < ids[l] /\ ~(ids[l] < ids[k])
    BY <1>2, <1>3, <2>1 DEF Ascending
  <2> QED BY <2>2 DEF StableIn, RemarkedIn
<1> QED BY <1>2, <1>3 DEF OrderOK, Pipeline, Ascending
(* Every step keeps OrderOK. *)
LEMMA OrderSteps ==
  Typed /\ OrderOK /\ [Next]_vars => OrderOK'
<1> SUFFICES ASSUME Typed, OrderOK, [Next]_vars PROVE OrderOK'
  OBVIOUS
<1>0. HeapOK /\ StackOK /\ AuthoredOK /\ WalkOK /\ PhaseOK
  BY DEF Typed
<1>1. CASE Resolve
  BY <1>0, <1>1, OrderResolves DEF Resolve
<1>2. CASE Fail
  <2>1. DOMAIN query' = {}
    BY <1>2 DEF Fail
  <2> QED BY <2>1 DEF OrderOK
<1>3. CASE BeginValidation
  <2>1. /\ UNCHANGED heap /\ flag' = flag /\ pc = "resolving" /\ pc' = "validating"
    BY <1>3 DEF BeginValidation, StartValidation, resolverVars
  <2>2. verdicts = {}
    BY <1>0, <2>1 DEF PhaseOK
  <2> QED BY <1>0, <2>1, <2>2, OrderKept
<1>4. CASE Validate /\ VisitQuery
  BY <1>0, <1>4, OrderVisits DEF Validate
<1>5. CASE Validate /\ Report
  BY <1>0, <1>5, OrderKept DEF Validate, Report
<1>6. CASE Validate /\ (VisitStage \/ VisitMatcher \/ VisitWindow \/ VisitOther)
  <2>1. /\ UNCHANGED heap /\ flag' = flag /\ (verdicts = {} \/ verdicts \subseteq verdicts')
    BY <1>6 DEF VisitStage, VisitMatcher, VisitWindow, VisitOther, AtNode
  <2> QED BY <1>0, <1>6, <2>1, OrderKept DEF Validate
<1>7. CASE BeginEmission \/ Emit \/ GenerateReport \/ Returned \/ UNCHANGED vars
  <2>1. /\ UNCHANGED heap /\ flag' = flag /\ verdicts' = verdicts
        /\ pc' = "resolving" => pc = "resolving"
    BY <1>7 DEF BeginEmission, Emit, GenerateReport, Returned, vars, resolverVars, validatorVars
  <2> QED BY <1>0, <2>1, OrderKept
<1> QED BY <1>1, <1>2, <1>3, <1>4, <1>5, <1>6, <1>7 DEF Next, Proceed, Validate, ValidatorNext

-----------------------------------------------------------------------------
(* The walk reaches every query.  Whatever is closed under operands and holds *)
(* the operands on the stack holds every query allocated.                     *)

(* A set of queries no stage of which reaches outside it. *)
Closed(S) ==
    \A q \in S : \A i \in DOMAIN Pipeline(q) :
       LET args == stage[Pipeline(q)[i]].args IN \A j \in DOMAIN args : args[j] \in S

Stacked(S) == \A i \in DOMAIN stack : stack[i].q \in S

Rooted == \A S \in SUBSET DOMAIN query : (Closed(S) /\ Stacked(S)) => S = DOMAIN query
(* What the resolver allocates it adds to what is there. *)
Extended ==
    /\ DOMAIN query \subseteq DOMAIN query'
    /\ \A s \in DOMAIN stage : stage'[s] = stage[s]
    /\ \A q \in DOMAIN query : \A i \in DOMAIN Pipeline(q) :
          i \in DOMAIN query'[q].pipeline /\ query'[q].pipeline[i] = Pipeline(q)[i]

(* No move of the resolver takes anything away. *)
LEMMA MovesExtend ==
  ASSUME HeapOK, StackOK, Moves
  PROVE  Extended
<1>1. Grown
  BY ResolverGrows
<1>2. \A s \in DOMAIN stage : stage'[s] = stage[s]
  <2>1. stage \in Seq(StageRecord) /\ DOMAIN stage = 1..Len(stage) /\ Len(stage) \in Nat
    BY HeapDomains DEF HeapOK
  <2>2. ASSUME NEW st \in StageRecord, stage' = Append(stage, st)
        PROVE  \A s \in DOMAIN stage : stage'[s] = stage[s]
    <3>1. \A i \in 1..Len(stage) : Append(stage, st)[i] = stage[i]
      BY <2>1, AppendProperties
    <3> QED BY <2>1, <2>2, <3>1
  <2>3. CASE Begins \/ Folds
    BY <2>2, <2>3 DEF Begins, Folds, PushStage, AppendStage
  <2>4. CASE ResolveJoin
    <3>1. Len(stack) >= 2
      BY <2>4 DEF ResolveJoin
    <3>2. stack # << >>
      BY <3>1
    <3>3. /\ Join(Top.q) \in StageRecord /\ BinaryOp(None, None) \in StageRecord
      BY <3>2, TopOfStack, OperatorsMade
    <3>4. stage' = stage \o <<Join(Top.q), BinaryOp(None, None)>>
      BY <2>4 DEF ResolveJoin
    <3> DEFINE a == Join(Top.q)
               b == BinaryOp(None, None)
    <3>5. a \in StageRecord /\ b \in StageRecord /\ stage' = stage \o <<a, b>>
      BY <3>3, <3>4
    <3> HIDE DEF a, b
    <3>6. <<a, b>> \in Seq(StageRecord) /\ Len(<<a, b>>) = 2
      BY <3>5
    <3> QED BY <2>1, <3>5, <3>6, ConcatProperties
  <2>5. CASE Fetches \/ Modifies \/ (Retypes /\ UNCHANGED heap)
    BY <2>5 DEF Fetches, PushQuery, Modifies, heap
  <2> QED BY <2>3, <2>4, <2>5 DEF Moves
<1>3. ASSUME NEW q \in DOMAIN query, NEW i \in DOMAIN Pipeline(q)
      PROVE  i \in DOMAIN query'[q].pipeline /\ query'[q].pipeline[i] = Pipeline(q)[i]
  <2> DEFINE ids == Pipeline(q)
             s == Len(stage) + 1
  <2>1. ids \in Seq(StageId) /\ s \in Nat
    <3>1. ids \in Seq(StageId)
      BY PipelineType
    <3>2. s \in Nat
      BY HeapDomains
    <3> QED BY <3>1, <3>2
  <2>2. ids \in Seq(Nat) /\ <<s>> \in Seq(Nat) /\ <<s, s + 1>> \in Seq(Nat)
    <3>1. ids \in Seq(Nat)
      <4>1. StageId \subseteq Nat
        BY DEF StageId
      <4> HIDE DEF ids
      <4> QED BY <2>1, <4>1, SeqMonotonic
    <3> QED BY <2>1, <3>1
  <2>3. query'[q].pipeline \in {ids, ids \o <<s>>, ids \o <<s, s + 1>>}
    BY <1>1 DEF Grown, Pipeline
  <2> HIDE DEF ids, s
  <2>4. i \in 1..Len(ids) /\ DOMAIN ids = 1..Len(ids) /\ Len(ids) \in Nat
    BY <2>1 DEF ids
  <2>5. ASSUME NEW more \in Seq(Nat) PROVE i \in DOMAIN (ids \o more) /\ (ids \o more)[i] = ids[i]
    <3>1. /\ ids \o more \in Seq(Nat) /\ Len(ids \o more) = Len(ids) + Len(more)
          /\ \A j \in 1..(Len(ids) + Len(more)) :
                (ids \o more)[j] = IF j <= Len(ids) THEN ids[j] ELSE more[j - Len(ids)]
      BY <2>2, ConcatProperties
    <3>2. Len(more) \in Nat /\ i \in 1..(Len(ids) + Len(more)) /\ i <= Len(ids)
      BY <2>4
    <3> QED BY <3>1, <3>2
  <2>6. i \in DOMAIN query'[q].pipeline /\ query'[q].pipeline[i] = ids[i]
    BY <2>2, <2>3, <2>4, <2>5
  <2> QED BY <2>6 DEF ids
<1> QED BY <1>1, <1>2, <1>3 DEF Extended, Grown

(* What is allocated hangs below an operand that is still on the stack.       *)
LEMMA RootedExtends ==
  ASSUME HeapOK, StackOK, Rooted, Extended,
         \A S \in SUBSET DOMAIN query' : (Closed(S)' /\ Stacked(S)')
            => Stacked(S) /\ DOMAIN query' \ DOMAIN query \subseteq S
  PROVE  Rooted'
<1> SUFFICES ASSUME NEW S \in SUBSET DOMAIN query', Closed(S)', Stacked(S)'
             PROVE  S = DOMAIN query'
  BY DEF Rooted
<1> DEFINE old == S \cap DOMAIN query
<1>1. Stacked(S) /\ DOMAIN query' \ DOMAIN query \subseteq S
  OBVIOUS
<1>2. ASSUME NEW q \in old, NEW i \in DOMAIN Pipeline(q),
             NEW j \in DOMAIN stage[Pipeline(q)[i]].args
      PROVE  stage[Pipeline(q)[i]].args[j] \in old
  <2> DEFINE s == Pipeline(q)[i]
  <2>1. q \in S /\ q \in DOMAIN query /\ s \in DOMAIN stage
    BY <1>2, PipelineType
  <2>2. stage'[s] = stage[s] /\ i \in DOMAIN query'[q].pipeline /\ query'[q].pipeline[i] = s
    BY <2>1 DEF Extended
  <2>3. stage[s].args[j] \in DOMAIN query
    BY <2>1 DEF HeapOK
  <2>4. stage'[s].args[j] \in S
    <3> HIDE DEF s
    <3> QED BY <2>1, <2>2, <1>2 DEF Closed, Pipeline, s
  <2> QED BY <2>2, <2>3, <2>4
<1>3. Closed(old)
  BY <1>2 DEF Closed
<1>4. Stacked(old)
  <2>1. \A i \in DOMAIN stack : stack[i].q \in DOMAIN query
    BY DEF StackOK
  <2> QED BY <1>1, <2>1 DEF Stacked
<1>5. old = DOMAIN query
  BY <1>3, <1>4 DEF Rooted
<1> QED BY <1>1, <1>5 DEF Extended
(* The operands left when some are taken off the stack. *)
LEMMA PopKeeps ==
  ASSUME StackOK, NEW n \in 0..Len(stack)
  PROVE  /\ Pop(n) \in Seq(Pending) /\ Len(Pop(n)) = Len(stack) - n
         /\ \A i \in 1..(Len(stack) - n) : Pop(n)[i] = stack[i]
<1> DEFINE m == Len(stack) - n
<1>1. Len(stack) \in Nat /\ DOMAIN stack = 1..Len(stack)
      /\ \A i \in 1..Len(stack) : stack[i] \in Pending
  BY DEF StackOK
<1>2. m \in Nat /\ 1 \in Int /\ m \in Int /\ \A i \in 1..m : stack[i] \in Pending
  BY <1>1
<1> HIDE DEF m
<1>3. /\ SubSeq(stack, 1, m) \in Seq(Pending)
      /\ Len(SubSeq(stack, 1, m)) = IF 1 <= m THEN m - 1 + 1 ELSE 0
      /\ \A i \in 1..(m - 1 + 1) : SubSeq(stack, 1, m)[i] = stack[1 + i - 1]
  BY <1>2, SubSeqProperties
<1>4. Len(SubSeq(stack, 1, m)) = m
  BY <1>2, <1>3
<1>5. \A i \in 1..m : SubSeq(stack, 1, m)[i] = stack[i]
  BY <1>2, <1>3
<1> QED BY <1>3, <1>4, <1>5 DEF Pop, m

(* A change of an operand's type leaves the operands. *)
LEMMA RetypeKeeps ==
  ASSUME StackOK, Retypes
  PROVE  DOMAIN stack' = DOMAIN stack /\ \A i \in DOMAIN stack : stack'[i].q = stack[i].q
<1>1. PICK type \in OperandTypes :
         stack # << >> /\ stack' = [stack EXCEPT ![Len(stack)].is = type]
  BY DEF Retypes
<1> DEFINE n == Len(stack)
           e == [stack[n] EXCEPT !.is = type]
<1>2. n \in DOMAIN stack /\ stack[n] \in Pending /\ DOMAIN stack = 1..Len(stack)
  BY <1>1 DEF StackOK
<1>3. e \in Pending /\ e.q = stack[n].q
  BY <1>2 DEF Pending
<1>4. stack' = [stack EXCEPT ![n] = e]
  BY <1>1
<1> HIDE DEF e, n
<1>5. DOMAIN stack' = DOMAIN stack /\ \A i \in DOMAIN stack : stack'[i] = IF i = n THEN e ELSE stack[i]
  BY <1>4 DEF StackOK
<1> QED BY <1>3, <1>5

(* A query that begins with operands holds them. *)
LEMMA BeginHolds ==
  ASSUME HeapOK, StackOK, Begins, NEW S \in SUBSET DOMAIN query', Closed(S)', Stacked(S)'
  PROVE  Stacked(S) /\ DOMAIN query' \ DOMAIN query \subseteq S
<1>1. PICK st \in StageRecord, n \in 0..2, type \in OperandTypes :
         /\ n <= Len(stack) /\ Len(query) + 1 <= MaxQueries /\ Len(stage) + 1 <= MaxStages
         /\ Shaped(st) /\ DOMAIN st.args = 1..n
         /\ \A i \in 1..n : st.args[i] = stack[Len(stack) - n + i].q
         /\ PushStage(st, n, type)
  BY DEF Begins
<1> DEFINE s == Len(stage) + 1
           new == Len(query) + 1
           q == [NewQuery(MetricSignal, "none") EXCEPT !.pipeline = <<s>>]
           x == [q |-> new, is |-> type]
<1>2. /\ stage' = Append(stage, st) /\ query' = Append(query, q) /\ stack' = Append(Pop(n), x)
  BY <1>1 DEF PushStage
<1>3. stage'[s] = st /\ s \in StageId
  <2>1. stage'[s] = st /\ s \in StageId
    BY <1>1, <1>2, NewStage
  <2> QED BY <2>1
<1>4. q \in QueryRecord /\ q.pipeline = <<s>>
  <2>1. <<s>> \in Seq(StageId)
    BY <1>3
  <2> QED BY <2>1, BareQuery
<1>5. /\ query \in Seq(QueryRecord) /\ DOMAIN query = 1..Len(query) /\ Len(query) \in Nat
      /\ Len(stack) \in Nat /\ DOMAIN stack = 1..Len(stack)
  BY HeapDomains DEF HeapOK, StackOK
<1> HIDE DEF q
<1>6. DOMAIN query' = 1..new /\ query'[new] = q
  BY <1>2, <1>4, <1>5, AppendProperties
<1>7. x \in Pending /\ x.q = new
  BY <1>5 DEF Pending
<1> HIDE DEF x, new, s
<1>8. Pop(n) \in Seq(Pending) /\ Len(Pop(n)) = Len(stack) - n
      /\ \A i \in 1..(Len(stack) - n) : Pop(n)[i] = stack[i]
  <2>1. n \in 0..Len(stack)
    BY <1>1, <1>5
  <2> QED BY <2>1, PopKeeps
<1>9. /\ DOMAIN stack' = 1..(Len(stack) - n + 1) /\ stack'[Len(stack) - n + 1] = x
      /\ \A i \in 1..(Len(stack) - n) : stack'[i] = stack[i]
  <2>1. /\ Append(Pop(n), x) \in Seq(Pending) /\ Len(Append(Pop(n), x)) = Len(Pop(n)) + 1
        /\ \A i \in 1..Len(Pop(n)) : Append(Pop(n), x)[i] = Pop(n)[i]
        /\ Append(Pop(n), x)[Len(Pop(n)) + 1] = x
    BY <1>7, <1>8, AppendProperties
  <2> QED BY <1>2, <1>8, <2>1
<1>10. new \in S
  <2>1. Len(stack) - n + 1 \in DOMAIN stack'
    BY <1>1, <1>5, <1>9
  <2> QED BY <1>7, <1>9, <2>1 DEF Stacked
<1>11. \A j \in 1..n : stack[Len(stack) - n + j].q \in S
  <2>1. 1 \in DOMAIN query'[new].pipeline /\ query'[new].pipeline[1] = s
    BY <1>4, <1>6
  <2>2. \A j \in DOMAIN stage'[s].args : stage'[s].args[j] \in S
    BY <1>10, <2>1 DEF Closed, Pipeline
  <2> QED BY <1>1, <1>3, <2>2
<1>12. ASSUME NEW i \in DOMAIN stack PROVE stack[i].q \in S
  <2>1. CASE i <= Len(stack) - n
    BY <1>1, <1>5, <1>9, <2>1 DEF Stacked
  <2>2. CASE i > Len(stack) - n
    <3>1. i - (Len(stack) - n) \in 1..n /\ Len(stack) - n + (i - (Len(stack) - n)) = i
      BY <1>1, <1>5, <2>2
    <3> QED BY <1>11, <3>1
  <2> QED BY <1>1, <1>5, <2>1, <2>2
<1>13. DOMAIN query' \ DOMAIN query = {new}
  BY <1>5, <1>6 DEF new
<1> QED BY <1>10, <1>12, <1>13 DEF Stacked

(* A join's left side holds its right. *)
LEMMA JoinHolds ==
  ASSUME HeapOK, StackOK, ResolveJoin, NEW S \in SUBSET DOMAIN query', Closed(S)', Stacked(S)'
  PROVE  Stacked(S)
<1> DEFINE s == Len(stage) + 1
           a == Join(Top.q)
           b == BinaryOp(None, None)
           q == Below.q
<1>1. Len(stack) >= 2 /\ stack' = Pop(1) /\ stage' = stage \o <<a, b>>
  BY DEF ResolveJoin
<1>2. Len(stack) \in Nat /\ DOMAIN stack = 1..Len(stack) /\ stack # << >>
  BY <1>1 DEF StackOK
<1>3. /\ Top.q \in QueryId /\ q \in DOMAIN query
      /\ a \in StageRecord /\ a.args = <<Top.q>> /\ b \in StageRecord
  <2>1. Top.q \in QueryId /\ q \in DOMAIN query
    BY <1>1, <1>2, TopOfStack
  <2> QED BY <2>1, OperatorsMade
<1>4. DOMAIN stack' = 1..(Len(stack) - 1) /\ \A i \in 1..(Len(stack) - 1) : stack'[i] = stack[i]
  <2>1. 1 \in 0..Len(stack)
    BY <1>1, <1>2
  <2>2. /\ Pop(1) \in Seq(Pending) /\ Len(Pop(1)) = Len(stack) - 1
        /\ \A i \in 1..(Len(stack) - 1) : Pop(1)[i] = stack[i]
    BY <2>1, PopKeeps
  <2> QED BY <1>1, <2>2
<1>5. q \in S
  <2>1. Len(stack) - 1 \in DOMAIN stack' /\ stack'[Len(stack) - 1] = Below
    BY <1>1, <1>2, <1>4 DEF Below
  <2> QED BY <2>1 DEF Stacked
<1> HIDE DEF a, b
<1>6. stage'[s] = a
  <2>1. stage \in Seq(StageRecord) /\ Len(stage) \in Nat /\ <<a, b>> \in Seq(StageRecord)
    BY <1>3, HeapDomains DEF HeapOK
  <2>2. \A i \in 1..(Len(stage) + 2) :
           stage'[i] = IF i <= Len(stage) THEN stage[i] ELSE <<a, b>>[i - Len(stage)]
    BY <1>1, <2>1, ConcatProperties
  <2> QED BY <2>1, <2>2
<1> HIDE DEF q
<1>7. \E i \in DOMAIN query'[q].pipeline : query'[q].pipeline[i] = s
  <2> DEFINE ids == Pipeline(q)
  <2>1. ids \in Seq(StageId) /\ \A i \in DOMAIN ids : ids[i] \in DOMAIN stage
    BY <1>3, PipelineType
  <2>2. query'[q].pipeline = ids \o <<s, s + 1>>
    <3>1. query' = [query EXCEPT ![q].pipeline = @ \o <<s, s + 1>>]
      BY DEF ResolveJoin, q
    <3> HIDE DEF s
    <3>2. query[q] \in QueryRecord
      BY <1>3, PipelineType
    <3> QED BY <1>3, <3>1, <3>2 DEF QueryRecord, Pipeline
  <2>3. ids \in Seq(Nat) /\ s \in Nat
    <3>1. StageId \subseteq Nat
      BY DEF StageId
    <3>2. s \in Nat
      BY HeapDomains
    <3> HIDE DEF ids
    <3> QED BY <2>1, <3>1, <3>2, SeqMonotonic
  <2> HIDE DEF ids, s
  <2>4. <<s, s + 1>> \in Seq(Nat) /\ Len(<<s, s + 1>>) = 2 /\ Len(ids) \in Nat
    BY <2>3
  <2>5. /\ Len(ids \o <<s, s + 1>>) = Len(ids) + 2 /\ ids \o <<s, s + 1>> \in Seq(Nat)
        /\ \A i \in 1..(Len(ids) + 2) :
              (ids \o <<s, s + 1>>)[i] = IF i <= Len(ids) THEN ids[i] ELSE <<s, s + 1>>[i - Len(ids)]
    BY <2>3, <2>4, ConcatProperties
  <2>6. (ids \o <<s, s + 1>>)[Len(ids) + 1] = s /\ Len(ids) + 1 \in DOMAIN (ids \o <<s, s + 1>>)
    BY <2>4, <2>5
  <2> QED BY <2>2, <2>6
<1>8. Top.q \in S
  <2> HIDE DEF s
  <2>1. \A j \in DOMAIN stage'[s].args : stage'[s].args[j] \in S
    BY <1>5, <1>7 DEF Closed, Pipeline
  <2> QED BY <1>3, <1>6, <2>1
<1> QED BY <1>2, <1>4, <1>8 DEF Stacked, Top
(* The resolver leaves no query without one that holds it. *)
LEMMA RootedResolves ==
  ASSUME HeapOK, StackOK, AuthoredOK, Rooted, ResolverNext
  PROVE  Rooted'
<1>0. Moves /\ Extended
  BY ResolverMoves, MovesExtend
<1>1. CASE Fetches
  <2>1. PICK q \in QueryRecord, type \in OperandTypes : PushQuery(q, type)
    BY <1>1 DEF Fetches
  <2> DEFINE new == Len(query) + 1
             x == [q |-> new, is |-> type]
  <2>2. /\ query \in Seq(QueryRecord) /\ stack \in Seq(Pending)
        /\ DOMAIN query = 1..Len(query) /\ Len(query) \in Nat
        /\ Len(stack) \in Nat /\ DOMAIN stack = 1..Len(stack)
    BY HeapDomains DEF HeapOK, StackOK
  <2>3. x \in Pending /\ x.q = new
    BY <2>2 DEF Pending
  <2>4. query' = Append(query, q) /\ stack' = Append(stack, x)
    BY <2>1 DEF PushQuery
  <2> HIDE DEF x
  <2>5. /\ DOMAIN query' = 1..new /\ DOMAIN stack' = 1..(Len(stack) + 1)
        /\ stack'[Len(stack) + 1] = x /\ \A i \in 1..Len(stack) : stack'[i] = stack[i]
    BY <2>2, <2>3, <2>4, AppendProperties
  <2>6. DOMAIN query' \ DOMAIN query = {new}
    BY <2>2, <2>5
  <2>7. ASSUME NEW S \in SUBSET DOMAIN query', Stacked(S)'
        PROVE  Stacked(S) /\ DOMAIN query' \ DOMAIN query \subseteq S
    <3>1. \A i \in 1..(Len(stack) + 1) : stack'[i].q \in S
      BY <2>5, <2>7 DEF Stacked
    <3>2. Len(stack) + 1 \in 1..(Len(stack) + 1) /\ \A i \in DOMAIN stack : i \in 1..(Len(stack) + 1)
      BY <2>2
    <3> QED BY <2>2, <2>3, <2>5, <2>6, <3>1, <3>2 DEF Stacked
  <2> QED BY <1>0, <2>7, RootedExtends
<1>2. CASE Begins
  BY <1>0, <1>2, BeginHolds, RootedExtends
<1>3. CASE ResolveJoin
  <2>1. DOMAIN query' = DOMAIN query
    BY <1>3, JoinOK
  <2> QED BY <1>0, <1>3, <2>1, JoinHolds, RootedExtends
<1>4. CASE (Folds \/ Modifies \/ (Retypes /\ UNCHANGED heap))
  <2>1. Retypes
    BY <1>4 DEF Folds, AppendStage, Modifies, Retypes
  <2>2. DOMAIN query' = DOMAIN query
    BY <1>4 DEF Folds, AppendStage, Modifies, heap
  <2>3. ASSUME NEW S, Stacked(S)' PROVE Stacked(S)
    BY <2>1, <2>3, RetypeKeeps DEF Stacked
  <2> QED BY <1>0, <2>2, <2>3, RootedExtends
<1> QED BY <1>0, <1>1, <1>2, <1>3, <1>4 DEF Moves

(* A stage of a pipeline is a stage of the sorted one. *)
LEMMA SortLosesNone ==
  ASSUME NEW ids \in Seq(StageId)
  PROVE  \A i \in DOMAIN ids :
            \E k \in DOMAIN Reordered(ids, def) : Reordered(ids, def)[k] = ids[i]
<1> DEFINE ranks == Ranks(ids, def)
<1>1. Len(ids) \in Nat /\ DOMAIN ids = 1..Len(ids) /\ ranks \in Ranking(Len(ids))
  BY RanksType
<1>2. ASSUME NEW i \in DOMAIN ids
      PROVE  \E k \in DOMAIN Reordered(ids, def) : Reordered(ids, def)[k] = ids[i]
  <2> DEFINE k == NewPosition(ranks, i)
             j == OldPosition(ranks, k)
  <2>1. k \in DOMAIN ids
    BY <1>1, NewPositionType
  <2>2. /\ j \in DOMAIN ids /\ NewPosition(ranks, j) = k /\ Reordered(ids, def)[k] = ids[j]
        /\ DOMAIN Reordered(ids, def) = DOMAIN ids
    BY <2>1, WhereItWas
  <2> HIDE DEF ranks, j
  <2>3. i = j
    BY <1>1, <2>2, NewPositionIsPermutation
  <2> QED BY <2>1, <2>2, <2>3
<1> QED BY <1>2

(* Every step keeps Rooted: sorting a pipeline takes no stage out of it. *)
LEMMA RootedSteps ==
  Typed /\ Rooted /\ [Next]_vars => Rooted'
<1> SUFFICES ASSUME Typed, Rooted, [Next]_vars PROVE Rooted'
  OBVIOUS
<1>0. HeapOK /\ StackOK /\ AuthoredOK /\ WalkOK /\ PhaseOK
  BY DEF Typed
<1>1. CASE Resolve
  BY <1>0, <1>1, RootedResolves DEF Resolve
<1>2. CASE Fail
  <2>1. DOMAIN query' = {}
    BY <1>2 DEF Fail
  <2> QED BY <2>1 DEF Rooted
<1>3. CASE Validate /\ VisitQuery
  <2> DEFINE q == Head(toVisit)[2]
             ids == Pipeline(q)
             sorted == Reordered(ids, def)
  <2>1. /\ q \in DOMAIN query /\ stage' = stage /\ stack' = stack /\ DOMAIN query' = DOMAIN query
        /\ query'[q].pipeline = sorted
        /\ \A p \in DOMAIN query : p # q => query'[p] = query[p]
    BY <1>0, <1>3, VisitSorts DEF Validate
  <2>2. \A i \in DOMAIN ids : \E k \in DOMAIN sorted : sorted[k] = ids[i]
    <3>1. ids \in Seq(StageId)
      BY <1>0, <2>1, PipelineType
    <3> QED BY <3>1, SortLosesNone
  <2> HIDE DEF sorted, ids, q
  <2>3. ASSUME NEW S, S \in SUBSET DOMAIN query, Closed(S)' PROVE Closed(S)
    <3>1. ASSUME NEW p \in S, NEW i \in DOMAIN Pipeline(p),
                 NEW j \in DOMAIN stage[Pipeline(p)[i]].args
          PROVE  stage[Pipeline(p)[i]].args[j] \in S
      <4> DEFINE s == Pipeline(p)[i]
      <4>1. \E k \in DOMAIN query'[p].pipeline : query'[p].pipeline[k] = s
        <5>1. CASE p = q
          BY <2>1, <2>2, <5>1 DEF ids
        <5>2. CASE p # q
          <6>1. query'[p].pipeline = Pipeline(p)
            BY <2>1, <2>3, <5>2 DEF Pipeline
          <6> QED BY <6>1
        <5> QED BY <5>1, <5>2
      <4>2. j \in DOMAIN stage'[s].args /\ stage'[s].args[j] = stage[s].args[j]
        BY <2>1
      <4> HIDE DEF s
      <4>3. stage'[s].args[j] \in S
        BY <2>3, <4>1, <4>2 DEF Closed, Pipeline
      <4> QED BY <4>2, <4>3 DEF s
    <3> QED BY <3>1 DEF Closed
  <2> QED BY <2>1, <2>3 DEF Rooted, Stacked
<1>4. CASE UNCHANGED resolverVars
  <2>1. query' = query /\ stage' = stage /\ stack' = stack
    BY <1>4 DEF resolverVars, heap
  <2> QED BY <2>1 DEF Rooted, Closed, Stacked, Pipeline
<1>5. Resolve \/ Fail \/ (Validate /\ VisitQuery) \/ UNCHANGED resolverVars
  BY DEF Next, Proceed, BeginValidation, Validate, ValidatorNext, VisitStage, VisitMatcher,
         VisitWindow, VisitOther, Report, BeginEmission, Emit, GenerateReport, Returned, vars,
         resolverVars
<1> QED BY <1>1, <1>2, <1>3, <1>4, <1>5
-----------------------------------------------------------------------------
(* The walk, which sorts the pipelines it reaches, misses none. *)

Ahead(n) == \E i \in DOMAIN toVisit : toVisit[i] = n

(* What a stage holds has been visited, or is still to be. *)
Reaches(s, V) ==
    \A j \in DOMAIN stage[s].args :
       stage[s].args[j] \in V \/ Ahead(QueryNode(stage[s].args[j]))

(* The queries visited so far. *)
Visited(V) ==
    /\ V \subseteq DOMAIN query
    /\ \A q \in V : SortedIn(Pipeline(q))
    /\ Root \in V \/ Ahead(QueryNode(Root))
    /\ \A q \in V : \A i \in DOMAIN Pipeline(q) :
          Ahead(StageNode(Pipeline(q)[i])) \/ Reaches(Pipeline(q)[i], V)

SortOK ==
    /\ pc \notin {"resolving", "failed"} => Len(stack) = 1
    /\ pc = "validating" => \E V \in SUBSET DOMAIN query : Visited(V)
    /\ PastValidation => \A q \in DOMAIN query : SortedIn(Pipeline(q))

(* The children of the node visited are next, the others stay. *)
LEMMA DescendKeeps ==
  ASSUME toVisit \in Seq(Live), toVisit # << >>, NEW children \in Seq(Live), Descend(children)
  PROVE  /\ \A n : Ahead(n) => n = Head(toVisit) \/ Ahead(n)'
         /\ \A i \in DOMAIN children : \E j \in DOMAIN toVisit' : toVisit'[j] = children[i]
<1> DEFINE rest == Tail(toVisit)
<1>1. /\ rest \in Seq(Live) /\ Len(rest) = Len(toVisit) - 1
      /\ \A i \in 1..Len(rest) : rest[i] = toVisit[i + 1]
  BY HeadTailProperties
<1>2. /\ DOMAIN toVisit = 1..Len(toVisit) /\ Len(toVisit) \in Nat /\ Head(toVisit) = toVisit[1]
      /\ DOMAIN children = 1..Len(children) /\ Len(children) \in Nat
  OBVIOUS
<1>3. toVisit' = children \o rest
  BY DEF Descend
<1> HIDE DEF rest
<1>4. /\ DOMAIN toVisit' = 1..(Len(children) + Len(rest)) /\ Len(rest) \in Nat
      /\ \A i \in 1..(Len(children) + Len(rest)) :
            toVisit'[i] = IF i <= Len(children) THEN children[i] ELSE rest[i - Len(children)]
  <2>1. /\ children \o rest \in Seq(Live)
        /\ Len(children \o rest) = Len(children) + Len(rest)
        /\ \A i \in 1..(Len(children) + Len(rest)) :
              (children \o rest)[i] = IF i <= Len(children) THEN children[i]
                                      ELSE rest[i - Len(children)]
    BY <1>1, ConcatProperties
  <2>2. Len(rest) \in Nat
    BY <1>1
  <2> QED BY <1>3, <2>1, <2>2
<1>5. ASSUME NEW i \in DOMAIN children PROVE \E j \in DOMAIN toVisit' : toVisit'[j] = children[i]
  <2>1. i \in DOMAIN toVisit' /\ toVisit'[i] = children[i]
    BY <1>2, <1>4
  <2> QED BY <2>1
<1>6. ASSUME NEW i \in DOMAIN toVisit, toVisit[i] # Head(toVisit)
      PROVE  \E j \in DOMAIN toVisit' : toVisit'[j] = toVisit[i]
  <2>1. i - 1 \in 1..Len(rest) /\ rest[i - 1] = toVisit[i]
    BY <1>1, <1>2, <1>6
  <2> DEFINE j == Len(children) + (i - 1)
  <2>2. /\ j \in 1..(Len(children) + Len(rest)) /\ ~(j <= Len(children))
        /\ j - Len(children) = i - 1
    BY <1>2, <1>4, <2>1
  <2> HIDE DEF j
  <2>3. toVisit'[j] = rest[j - Len(children)]
    BY <1>4, <2>2
  <2> QED BY <1>4, <2>1, <2>2, <2>3
<1> QED BY <1>5, <1>6 DEF Ahead

(* What the nodes ahead say stays true while they stay ahead. *)
LEMMA VisitedKept ==
  ASSUME UNCHANGED <<query, stage, stack>>, NEW V, Visited(V),
         \A q : Ahead(QueryNode(q)) => Ahead(QueryNode(q))',
         \A s : Ahead(StageNode(s)) => Ahead(StageNode(s))' \/ Reaches(s, V)'
  PROVE  Visited(V)'
<1>1. ASSUME NEW s, Reaches(s, V) PROVE Reaches(s, V)'
  BY <1>1 DEF Reaches, QueryNode
<1>2. ASSUME NEW q \in V, NEW i \in DOMAIN Pipeline(q), NEW s, s = Pipeline(q)[i]
      PROVE  Ahead(StageNode(s))' \/ Reaches(s, V)'
  BY <1>1, <1>2 DEF Visited
<1>3. \A ids : SortedIn(ids) => SortedIn(ids)'
  BY DEF SortedIn, def
<1>4. \A q \in V : SortedIn(Pipeline(q))'
  <2>1. \A q : Pipeline(q)' = Pipeline(q)
    BY DEF Pipeline
  <2> QED BY <1>3, <2>1 DEF Visited
<1>5. (Root \in V \/ Ahead(QueryNode(Root)))'
  <2>1. Root' = Root
    BY DEF Root
  <2>2. CASE Root \in V
    BY <2>1, <2>2
  <2>3. CASE Ahead(QueryNode(Root))
    <3>1. ASSUME NEW r, r = Root PROVE Ahead(QueryNode(r))'
      BY <2>3, <3>1
    <3> QED BY <2>1, <3>1
  <2> QED BY <2>2, <2>3 DEF Visited
<1>6. ASSUME NEW q \in V, NEW i \in DOMAIN Pipeline(q)'
      PROVE  (Ahead(StageNode(Pipeline(q)[i])) \/ Reaches(Pipeline(q)[i], V))'
  <2>1. Pipeline(q)' = Pipeline(q)
    BY DEF Pipeline
  <2>2. ASSUME NEW s, s = Pipeline(q)'[i] PROVE Ahead(StageNode(s))' \/ Reaches(s, V)'
    BY <1>2, <1>6, <2>1, <2>2
  <2> QED BY <2>2
<1>7. V \subseteq DOMAIN query'
  BY DEF Visited
<1> QED BY <1>4, <1>5, <1>6, <1>7 DEF Visited
(* Visiting a stage puts what it holds ahead. *)
LEMMA StageVisited ==
  ASSUME HeapOK, WalkOK, VisitStage, stack' = stack, NEW V, Visited(V)
  PROVE  Visited(V)'
<1> DEFINE t == Head(toVisit)[2]
<1>1. /\ UNCHANGED <<query, stage, stack>> /\ Descend(Children(Head(toVisit)))
      /\ toVisit # << >> /\ Head(toVisit)[1] = "Stage" /\ toVisit \in Seq(Live)
  BY DEF VisitStage, AtNode, heap, WalkOK
<1>2. Head(toVisit) \in Live /\ t \in DOMAIN stage
  BY <1>1, NextNode DEF StageKinds
<1>3. Head(toVisit) = StageNode(t)
  <2>1. \E kind, id : Head(toVisit) = <<kind, id>>
    BY <1>2 DEF Live
  <2> QED BY <1>1, <2>1 DEF StageNode
<1>4. Children(Head(toVisit)) \in Seq(Live) /\ Children(Head(toVisit)) = StageChildren(t)
  BY <1>1, <1>2, ChildrenType DEF Children
<1> DEFINE children == Children(Head(toVisit))
<1>5. /\ \A n : Ahead(n) => n = StageNode(t) \/ Ahead(n)'
      /\ \A i \in DOMAIN children : \E j \in DOMAIN toVisit' : toVisit'[j] = children[i]
  BY <1>1, <1>3, <1>4, DescendKeeps
<1>6. ASSUME NEW j \in DOMAIN stage[t].args PROVE j \in DOMAIN children /\ children[j] = QueryNode(stage[t].args[j])
  <2>1. Shaped(stage[t])
    BY <1>2 DEF HeapOK
  <2>2. stage[t].type # "Filter" /\ stage[t].what # "literal"
    BY <1>6, <2>1 DEF Shaped
  <2>3. children = NodesOf("Query", stage[t].args)
    BY <1>4, <2>2 DEF StageChildren
  <2> QED BY <1>6, <2>3 DEF NodesOf, QueryNode
<1> HIDE DEF children, t
<1>7. ASSUME NEW j \in DOMAIN stage[t].args PROVE \E k \in DOMAIN toVisit' : toVisit'[k] = QueryNode(stage[t].args[j])
  BY <1>5, <1>6
<1>8. ASSUME NEW s, Ahead(StageNode(s)) PROVE Ahead(StageNode(s))' \/ Reaches(s, V)'
  <2>1. CASE s = t
    <3>1. ASSUME NEW a, \E k \in DOMAIN toVisit' : toVisit'[k] = QueryNode(a) PROVE Ahead(QueryNode(a))'
      BY <3>1 DEF Ahead, QueryNode
    <3>2. ASSUME NEW j \in DOMAIN stage'[s].args, NEW a, a = stage'[s].args[j]
          PROVE  Ahead(QueryNode(a))'
      BY <1>1, <1>7, <2>1, <3>1, <3>2
    <3> QED BY <3>2 DEF Reaches
  <2>2. CASE s # t
    <3>1. StageNode(s) # StageNode(t)
      BY <2>2 DEF StageNode
    <3> QED BY <1>5, <1>8, <3>1 DEF StageNode
  <2> QED BY <2>1, <2>2
<1>9. ASSUME NEW q, Ahead(QueryNode(q)) PROVE Ahead(QueryNode(q))'
  <2>1. QueryNode(q) # StageNode(t)
    BY DEF QueryNode, StageNode
  <2> QED BY <1>5, <1>9, <2>1 DEF QueryNode
<1> QED BY <1>1, <1>8, <1>9, VisitedKept

(* Visiting any other node leaves queries and stages ahead. *)
LEMMA LeafVisited ==
  ASSUME HeapOK, WalkOK, VisitMatcher \/ VisitWindow \/ VisitOther, stack' = stack,
         NEW V, Visited(V)
  PROVE  Visited(V)'
<1>1. /\ UNCHANGED <<query, stage, stack>> /\ Descend(Children(Head(toVisit)))
      /\ toVisit # << >> /\ toVisit \in Seq(Live)
      /\ Head(toVisit)[1] \notin {"Query", "Stage"}
  BY DEF VisitMatcher, VisitWindow, VisitOther, AtNode, heap, WalkOK
<1>2. Children(Head(toVisit)) \in Seq(Live)
  BY <1>1, NextNode, ChildrenType
<1>3. \A n : Ahead(n) => n = Head(toVisit) \/ Ahead(n)'
  BY <1>1, <1>2, DescendKeeps
<1>4. ASSUME NEW s, Ahead(StageNode(s)) PROVE Ahead(StageNode(s))'
  <2>1. StageNode(s) # Head(toVisit)
    BY <1>1 DEF StageNode
  <2> QED BY <1>3, <1>4, <2>1 DEF StageNode
<1>5. ASSUME NEW q, Ahead(QueryNode(q)) PROVE Ahead(QueryNode(q))'
  <2>1. QueryNode(q) # Head(toVisit)
    BY <1>1 DEF QueryNode
  <2> QED BY <1>3, <1>5, <2>1 DEF QueryNode
<1> QED BY <1>1, <1>4, <1>5, VisitedKept

(* Visiting a query puts its stages ahead. *)
LEMMA StagesAhead ==
  ASSUME HeapOK, WalkOK, VisitQuery, NEW q, q = Head(toVisit)[2]
  PROVE  \A i \in DOMAIN Reordered(Pipeline(q), def) :
            \E j \in DOMAIN toVisit' : toVisit'[j] = StageNode(Reordered(Pipeline(q), def)[i])
<1> DEFINE ids == Pipeline(q)
           sorted == Reordered(ids, def)
           children == QueryChildren(q, sorted)
<1>1. /\ q \in DOMAIN query /\ toVisit \in Seq(Live) /\ toVisit # << >> /\ Descend(children)
  BY VisitSorts
<1>2. ids \in Seq(StageId) /\ (\A i \in DOMAIN ids : ids[i] \in DOMAIN stage)
  BY <1>1, PipelineType
<1> HIDE DEF ids
<1>3. sorted \in Seq(StageId) /\ (\A i \in DOMAIN sorted : sorted[i] \in DOMAIN stage)
  BY <1>2, ReorderedType
<1> HIDE DEF sorted
<1>4. children \in Seq(Live)
  BY <1>1, <1>3, QueryChildrenType
<1>5. \A i \in DOMAIN children : \E j \in DOMAIN toVisit' : toVisit'[j] = children[i]
  BY <1>1, <1>4, DescendKeeps
<1>6. ASSUME NEW i \in DOMAIN sorted
      PROVE  \E k \in DOMAIN children : children[k] = StageNode(sorted[i])
  <2> DEFINE before == Given(query[q].source # "none", << <<"Source", q>> >>)
             stages == NodesOf("Stage", sorted)
             after == << <<"Output", q>> >>
  <2>1. before \in Seq(Live) /\ stages \in Seq(Live) /\ after \in Seq(Live)
    <3>1. <<"Source", q>> \in Live /\ <<"Output", q>> \in Live
      BY <1>1, LiveParts DEF QueryKinds
    <3>2. \A k \in DOMAIN sorted : <<"Stage", sorted[k]>> \in Live
      BY <1>3, LiveParts DEF StageKinds
    <3> QED BY <1>3, <3>1, <3>2, GivenType, NodesOfType
  <2>2. i \in 1..Len(stages) /\ stages[i] = StageNode(sorted[i]) /\ Len(stages) \in Nat
    <3>1. DOMAIN stages = DOMAIN sorted /\ stages[i] = <<"Stage", sorted[i]>>
      BY DEF NodesOf
    <3>2. DOMAIN stages = 1..Len(stages) /\ Len(stages) \in Nat
      BY <2>1
    <3> QED BY <3>1, <3>2 DEF StageNode
  <2>3. children = before \o stages \o after
    BY DEF QueryChildren
  <2> HIDE DEF before, stages, after, children
  <2> DEFINE front == before \o stages
             k == Len(before) + i
  <2>4. /\ front \in Seq(Live) /\ Len(front) = Len(before) + Len(stages)
        /\ \A j \in 1..(Len(before) + Len(stages)) :
              front[j] = IF j <= Len(before) THEN before[j] ELSE stages[j - Len(before)]
    BY <2>1, ConcatProperties
  <2>5. Len(before) \in Nat
    BY <2>1
  <2>6. front[k] = stages[i] /\ k \in 1..Len(front)
    BY <2>2, <2>4, <2>5
  <2> HIDE DEF front, k
  <2>6a. front \in Seq(Live) /\ after \in Seq(Live)
    BY <2>1, <2>4
  <2>7. /\ front \o after \in Seq(Live) /\ Len(front \o after) = Len(front) + Len(after)
        /\ \A j \in 1..(Len(front) + Len(after)) :
              (front \o after)[j] = IF j <= Len(front) THEN front[j] ELSE after[j - Len(front)]
    BY <2>6a, ConcatProperties
  <2>8. Len(front) \in Nat /\ Len(after) \in Nat
    BY <2>1, <2>4
  <2>9. (front \o after)[k] = front[k] /\ k \in DOMAIN (front \o after)
    BY <2>6, <2>7, <2>8
  <2>10. children = front \o after
    BY <2>3 DEF front
  <2> QED BY <2>2, <2>6, <2>9, <2>10
<1> HIDE DEF children
<1>7. \A i \in DOMAIN sorted : \E j \in DOMAIN toVisit' : toVisit'[j] = StageNode(sorted[i])
  BY <1>5, <1>6
<1> QED BY <1>7 DEF sorted, ids

(* Visiting a query sorts it and puts its stages ahead. *)
LEMMA QueryVisited ==
  ASSUME HeapOK, WalkOK, OrderOK, VisitQuery, stack' = stack, NEW V, Visited(V),
         NEW W, W = V \cup {Head(toVisit)[2]}
  PROVE  Visited(W)'
<1> DEFINE q == Head(toVisit)[2]
           ids == Pipeline(q)
           sorted == Reordered(ids, def)
           children == QueryChildren(q, sorted)
<1>1. /\ q \in DOMAIN query /\ Head(toVisit) = QueryNode(q)
      /\ stage' = stage /\ DOMAIN query' = DOMAIN query
      /\ query'[q].pipeline = sorted
      /\ \A p \in DOMAIN query : p # q => query'[p] = query[p]
      /\ toVisit \in Seq(Live) /\ toVisit # << >> /\ Descend(children)
  BY VisitSorts
<1>2. ids \in Seq(StageId) /\ (\A i \in DOMAIN ids : ids[i] \in DOMAIN stage) /\ StableIn(ids)
  <2>1. ids \in Seq(StageId) /\ \A i \in DOMAIN ids : ids[i] \in DOMAIN stage
    BY <1>1, PipelineType
  <2> QED BY <1>1, <2>1 DEF OrderOK
<1> HIDE DEF ids
<1>3. /\ sorted \in Seq(StageId) /\ (\A i \in DOMAIN sorted : sorted[i] \in DOMAIN stage)
      /\ SortedIn(sorted)
  BY <1>2, ReorderedType, SortSorts
<1> HIDE DEF sorted, q
<1>4. children \in Seq(Live)
  BY <1>1, <1>3, QueryChildrenType
<1>5. /\ \A n : Ahead(n) => n = QueryNode(q) \/ Ahead(n)'
      /\ \A i \in DOMAIN children : \E j \in DOMAIN toVisit' : toVisit'[j] = children[i]
  BY <1>1, <1>4, DescendKeeps
<1>6. \A i \in DOMAIN sorted : \E j \in DOMAIN toVisit' : toVisit'[j] = StageNode(sorted[i])
  BY StagesAhead DEF sorted, ids, q
<1> HIDE DEF children
<1>7. ASSUME NEW s, \E i \in DOMAIN sorted : sorted[i] = s PROVE Ahead(StageNode(s))'
  <2>1. \E k \in DOMAIN toVisit' : toVisit'[k] = StageNode(s)
    BY <1>6, <1>7
  <2> QED BY <2>1 DEF Ahead, StageNode
<1>8. \A s : Ahead(StageNode(s)) => Ahead(StageNode(s))'
  <2>1. \A s : StageNode(s) # QueryNode(q)
    BY DEF StageNode, QueryNode
  <2> QED BY <1>5, <2>1 DEF StageNode
<1>0. W = V \cup {q}
  BY DEF q
<1>9. \A a : (a \in V \/ Ahead(QueryNode(a))) => a \in W \/ Ahead(QueryNode(a))'
  <2> SUFFICES ASSUME NEW a, a # q, Ahead(QueryNode(a)) PROVE Ahead(QueryNode(a))'
    BY <1>0
  <2>1. QueryNode(a) # QueryNode(q)
    BY DEF QueryNode
  <2> QED BY <1>5, <2>1 DEF QueryNode
<1>10. ASSUME NEW s, Reaches(s, V) PROVE Reaches(s, W)'
  <2>1. ASSUME NEW j \in DOMAIN stage'[s].args, NEW a, a = stage'[s].args[j]
        PROVE  a \in W \/ Ahead(QueryNode(a))'
    BY <1>1, <1>9, <1>10, <2>1 DEF Reaches
  <2> QED BY <2>1 DEF Reaches
<1>11. \A more : SortedIn(more) => SortedIn(more)'
  BY <1>1 DEF SortedIn, def
<1>12. W \subseteq DOMAIN query'
  BY <1>0, <1>1 DEF Visited
<1>13. ASSUME NEW p \in W, NEW more, more = query'[p].pipeline
      PROVE  /\ SortedIn(more)'
             /\ \A i \in DOMAIN more : Ahead(StageNode(more[i]))' \/ Reaches(more[i], W)'
  <2>1. CASE p = q
    <3>1. more = sorted
      BY <1>1, <1>13, <2>1
    <3>2. SortedIn(more)
      BY <1>3, <3>1
    <3>3. \A i \in DOMAIN more : Ahead(StageNode(more[i]))'
      BY <1>7, <3>1
    <3> QED BY <1>11, <3>2, <3>3
  <2>2. CASE p # q
    <3>1. p \in V /\ more = Pipeline(p)
      BY <1>0, <1>1, <1>13, <2>2 DEF Visited, Pipeline
    <3>2. SortedIn(more) /\ \A i \in DOMAIN more : Ahead(StageNode(more[i])) \/ Reaches(more[i], V)
      BY <3>1 DEF Visited
    <3> QED BY <1>8, <1>10, <1>11, <3>2
  <2> QED BY <2>1, <2>2
<1>14. ASSUME NEW p \in W
      PROVE  /\ SortedIn(Pipeline(p))'
             /\ \A i \in DOMAIN Pipeline(p)' :
                   (Ahead(StageNode(Pipeline(p)[i])) \/ Reaches(Pipeline(p)[i], W))'
  BY <1>13 DEF Pipeline
<1>15. (Root \in W \/ Ahead(QueryNode(Root)))'
  <2>1. Root' = Root
    BY DEF Root
  <2>2. ASSUME NEW r, r = Root PROVE r \in W \/ Ahead(QueryNode(r))'
    BY <1>9, <2>2 DEF Visited
  <2> QED BY <2>1, <2>2
<1> QED BY <1>12, <1>14, <1>15 DEF Visited
(* The walk begins at the root. *)
LEMMA WalkBegins ==
  ASSUME Typed, BeginValidation
  PROVE  SortOK'
<1>1. /\ Len(stack) = 1 /\ pc' = "validating" /\ toVisit' = <<QueryNode(Root)>>
      /\ UNCHANGED <<query, stage, stack>>
  BY DEF BeginValidation, ResolvedRoot, StartValidation, resolverVars, heap
<1>2. Ahead(QueryNode(Root))'
  <2>1. 1 \in DOMAIN toVisit' /\ toVisit'[1] = QueryNode(Root)
    BY <1>1
  <2>2. QueryNode(Root)' = QueryNode(Root)
    BY <1>1 DEF Root, QueryNode
  <2> QED BY <2>1, <2>2 DEF Ahead
<1>3. Visited({})'
  BY <1>2 DEF Visited
<1> QED BY <1>1, <1>3 DEF SortOK, PastValidation

(* When nothing is ahead every query has been visited. *)
LEMMA WalkEnds ==
  ASSUME Typed, Rooted, SortOK, pc = "validating", toVisit = << >>
  PROVE  \A q \in DOMAIN query : SortedIn(Pipeline(q))
<1>1. PICK V \in SUBSET DOMAIN query : Visited(V)
  BY DEF SortOK
<1>2. \A n : ~Ahead(n)
  BY DEF Ahead
<1>3. Closed(V)
  BY <1>1, <1>2 DEF Visited, Reaches, Closed
<1>4. Stacked(V)
  <2>1. DOMAIN stack = {1}
    <3>1. Len(stack) = 1 /\ stack \in Seq(Pending)
      BY DEF SortOK, Typed, StackOK
    <3> QED BY <3>1
  <2>2. Root \in V
    BY <1>1, <1>2 DEF Visited
  <2> QED BY <2>1, <2>2 DEF Stacked, Root
<1>5. V = DOMAIN query
  BY <1>1, <1>3, <1>4 DEF Rooted
<1> QED BY <1>1, <1>5 DEF Visited

(* Every step keeps SortOK. *)
LEMMA SortSteps ==
  Typed /\ OrderOK /\ Rooted /\ SortOK /\ [Next]_vars => SortOK'
<1> SUFFICES ASSUME Typed, OrderOK, Rooted, SortOK, [Next]_vars PROVE SortOK'
  OBVIOUS
<1>0. HeapOK /\ WalkOK
  BY DEF Typed
<1>1. CASE Resolve \/ Fail
  BY <1>1 DEF Resolve, Fail, SortOK, PastValidation
<1>2. CASE BeginValidation
  BY <1>2, WalkBegins
<1>3. CASE Validate
  <2>1. pc = "validating" /\ pc' = pc /\ stack' = stack /\ ValidatorNext
    BY <1>3 DEF Validate
  <2>2. PICK V \in SUBSET DOMAIN query : Visited(V)
    BY <2>1 DEF SortOK
  <2>3. ASSUME NEW W, Visited(W)' PROVE SortOK'
    <3>1. W \in SUBSET DOMAIN query'
      BY <2>3 DEF Visited
    <3> QED BY <2>1, <2>3, <3>1 DEF SortOK, PastValidation
  <2>4. CASE VisitQuery
    <3> DEFINE W == V \cup {Head(toVisit)[2]}
    <3>1. ASSUME NEW U, U = W PROVE Visited(U)'
      BY <1>0, <2>1, <2>2, <2>4, <3>1, QueryVisited
    <3>2. \E U : U = W
      OBVIOUS
    <3> HIDE DEF W
    <3> QED BY <2>3, <3>1, <3>2
  <2>5. CASE VisitStage
    BY <1>0, <2>1, <2>2, <2>3, <2>5, StageVisited
  <2>6. CASE VisitMatcher \/ VisitWindow \/ VisitOther
    BY <1>0, <2>1, <2>2, <2>3, <2>6, LeafVisited
  <2>7. CASE Report
    <3>1. UNCHANGED <<query, stage, stack, toVisit>>
      BY <2>1, <2>7 DEF Report, heap
    <3>2. \A n : Ahead(n)' = Ahead(n)
      BY <3>1 DEF Ahead
    <3>3. /\ \A q : Ahead(QueryNode(q)) => Ahead(QueryNode(q))'
          /\ \A s : Ahead(StageNode(s)) => Ahead(StageNode(s))'
      BY <3>2 DEF QueryNode, StageNode
    <3>4. Visited(V)'
      BY <2>2, <3>1, <3>3, VisitedKept
    <3> QED BY <2>3, <3>4
  <2> QED BY <2>1, <2>4, <2>5, <2>6, <2>7 DEF ValidatorNext
<1>4. CASE BeginEmission
  <2>1. /\ pc = "validating" /\ pc' = "emitting" /\ toVisit = << >>
        /\ UNCHANGED <<query, stage, stack>>
    BY <1>4 DEF BeginEmission, Validated, resolverVars, heap
  <2>2. \A q \in DOMAIN query : SortedIn(Pipeline(q))
    BY <2>1, WalkEnds
  <2>3. \A q \in DOMAIN query' : SortedIn(Pipeline(q))'
    BY <2>1, <2>2 DEF SortedIn, Pipeline, def
  <2> QED BY <2>1, <2>3 DEF SortOK
<1>5. CASE Emit \/ GenerateReport \/ Returned \/ UNCHANGED vars
  <2>1. /\ UNCHANGED <<query, stage, stack, toVisit>>
        /\ pc' = pc \/ (pc \in {"emitting", "reporting"} /\ pc' \in {"emitting", "reporting", "done"})
    BY <1>5 DEF Emit, GenerateReport, Returned, vars, resolverVars, validatorVars, heap
  <2>2. PastValidation' => \A q \in DOMAIN query' : SortedIn(Pipeline(q))'
    BY <2>1 DEF SortOK, PastValidation, SortedIn, Pipeline, def
  <2>3. pc' \notin {"resolving", "failed"} => Len(stack') = 1
    BY <2>1 DEF SortOK
  <2>4. pc' = "validating" => \E V \in SUBSET DOMAIN query' : Visited(V)'
    <3> SUFFICES ASSUME pc' = "validating" PROVE \E V \in SUBSET DOMAIN query' : Visited(V)'
      OBVIOUS
    <3>1. PICK V \in SUBSET DOMAIN query : Visited(V)
      BY <2>1 DEF SortOK
    <3>2. \A n : Ahead(n)' = Ahead(n)
      BY <2>1 DEF Ahead
    <3>3. /\ \A q : Ahead(QueryNode(q)) => Ahead(QueryNode(q))'
          /\ \A s : Ahead(StageNode(s)) => Ahead(StageNode(s))'
      BY <3>2 DEF QueryNode, StageNode
    <3>4. Visited(V)'
      BY <2>1, <3>1, <3>3, VisitedKept
    <3> QED BY <2>1, <3>1, <3>4
  <2> QED BY <2>2, <2>3, <2>4 DEF SortOK
<1> QED BY <1>1, <1>2, <1>3, <1>4, <1>5 DEF Next, Proceed

-----------------------------------------------------------------------------
(* The order and its remarks, whatever the expression. *)

OrderInv == Typed /\ OrderOK /\ Rooted /\ SortOK

(* The invariant the order follows from holds throughout. *)
LEMMA OrderThroughout ==
  Spec => []OrderInv
<1>1. Init => OrderInv
  <2> SUFFICES ASSUME Init PROVE OrderOK /\ Rooted /\ SortOK
    BY InitTyped DEF OrderInv
  <2>1. pc = "resolving" /\ DOMAIN query = {}
    BY DEF Init, ResolverInit
  <2> QED BY <2>1 DEF OrderOK, Rooted, SortOK, PastValidation
<1>2. OrderInv /\ [Next]_vars => OrderInv'
  BY NextTyped, OrderSteps, RootedSteps, SortSteps DEF OrderInv
<1> QED BY <1>1, <1>2, PTL DEF Spec

(* The positions of a pipeline's stages. *)
LEMMA PositionType ==
  ASSUME HeapOK, NEW q \in DOMAIN query, NEW s \in InPipeline(q)
  PROVE  /\ Position(q, s) \in DOMAIN Pipeline(q) /\ Pipeline(q)[Position(q, s)] = s
         /\ Position(q, s) \in Nat /\ s \in Nat
<1> DEFINE i == Position(q, s)
<1>1. i \in DOMAIN Pipeline(q) /\ Pipeline(q)[i] = s
  BY DEF InPipeline, Position
<1>2. Pipeline(q) \in Seq(StageId)
  BY PipelineType
<1>3. StageId \subseteq Nat
  BY DEF StageId
<1> HIDE DEF i
<1>4. i \in Nat
  BY <1>1, <1>2
<1>5. Pipeline(q)[i] \in StageId
  BY <1>1, <1>2
<1>6. s \in Nat
  BY <1>1, <1>3, <1>5
<1> QED BY <1>1, <1>4, <1>6 DEF i

(* Sorted pipelines are the ones StableSorted asks for. *)
LEMMA SortedIsStable ==
  OrderInv => StableSorted
<1> SUFFICES ASSUME OrderInv, PastValidation, NEW q \in DOMAIN query,
                    NEW s \in InPipeline(q), NEW t \in InPipeline(q)
             PROVE  NowBefore(q, s, t) <=>
                      \/ rankOf(stage[s], def) < rankOf(stage[t], def)
                      \/ rankOf(stage[s], def) = rankOf(stage[t], def) /\ s < t
  BY DEF StableSorted
<1> DEFINE ids == Pipeline(q)
           i == Position(q, s)
           j == Position(q, t)
           r == rankOf(stage[s], def)
           u == rankOf(stage[t], def)
<1>1. /\ i \in DOMAIN ids /\ ids[i] = s /\ j \in DOMAIN ids /\ ids[j] = t
      /\ i \in Nat /\ j \in Nat /\ s \in Nat /\ t \in Nat
  BY PositionType DEF OrderInv, Typed
<1>2. SortedIn(ids)
  BY DEF OrderInv, SortOK
<1>3. r \in Nat /\ u \in Nat
  BY RankType
<1> HIDE DEF ids, i, j
<1>4. i < j => r < u \/ (r = u /\ s < t)
  BY <1>1, <1>2 DEF SortedIn
<1>5. j < i => u < r \/ (u = r /\ t < s)
  BY <1>1, <1>2 DEF SortedIn
<1>6. i = j => s = t /\ r = u
  BY <1>1
<1> HIDE DEF r, u
<1>7. i < j <=> (r < u \/ (r = u /\ s < t))
  BY <1>1, <1>3, <1>4, <1>5, <1>6
<1> QED BY <1>7 DEF NowBefore, i, j, r, u

(* A LogQL pipeline leaves the validator in rank order, and stages of a rank  *)
(* keep the order they were written in, in nested queries too, for            *)
(* expressions of any size and shape (pipeline_order.go checkPipelineOrder,   *)
(* called for every query the walk reaches).                                  *)
THEOREM PipelinesLeaveSorted ==
  Spec => []StableSorted
<1>1. Spec => []OrderInv
  BY OrderThroughout
<1>2. OrderInv => StableSorted
  BY SortedIsStable
<1> QED BY <1>1, <1>2, PTL

(* A remark that is no longer pending is a flag. *)
LEMMA RemarkedIsFlagged ==
  OrderInv => SwappedPairFlagged
<1> SUFFICES ASSUME OrderInv, PastValidation, NEW q \in DOMAIN query,
                    NEW s \in InPipeline(q), NEW t \in InPipeline(q), MovedAcross(q, s, t),
                    ReadsWhat(s) = WritesWhat(t) \/ ReadsWhat(t) = WritesWhat(s)
             PROVE  flag[StageNode(s)] # FULL \/ flag[StageNode(t)] # FULL
  BY DEF SwappedPairFlagged
<1>1. verdicts = {}
  BY DEF OrderInv, Typed, PhaseOK, PastValidation
<1> DEFINE ids == Pipeline(q)
           k == Position(q, t)
           l == Position(q, s)
<1>2. k \in DOMAIN ids /\ ids[k] = t /\ l \in DOMAIN ids /\ ids[l] = s
  BY PositionType DEF OrderInv, Typed
<1>3. s < t /\ k < l
  BY DEF MovedAcross, NowBefore
<1>4. RemarkedIn(ids)
  BY DEF OrderInv, OrderOK
<1> HIDE DEF ids, k, l
<1>5. Conflict(ids[l], ids[k])
  BY <1>2 DEF Conflict
<1>6. Remarked(s) \/ Remarked(t)
  BY <1>2, <1>3, <1>4, <1>5 DEF RemarkedIn
<1> QED BY <1>1, <1>6 DEF Remarked

(* When the sort turns two stages around of which one rewrites what the other *)
(* reads, one of them is flagged before anything is emitted, however deep the *)
(* query they belong to is nested and whatever else is judged about them      *)
(* (pipeline_order.go crossedProducer, validator.go report).                  *)
THEOREM SwapsAreFlagged ==
  Spec => []SwappedPairFlagged
<1>1. Spec => []OrderInv
  BY OrderThroughout
<1>2. OrderInv => SwappedPairFlagged
  BY RemarkedIsFlagged
<1> QED BY <1>1, <1>2, PTL
=============================================================================
