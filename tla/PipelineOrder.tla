--------------------------- MODULE PipelineOrder ----------------------------
(***************************************************************************)
(* The order a pipeline-ordered target imposes on stages: how a stage is    *)
(* ranked, the stable sort of a pipeline by rank, and which moves of that   *)
(* sort the validator holds to be unsafe.  Operators only; the validator    *)
(* applies them.                                                            *)
(***************************************************************************)
EXTENDS IR, Dialects

rankLineFilter == 0
rankParser == 1
rankLabelFilter == 2
rankFormatter == 3
rankUnwrap == 4
rankAggregation == 5
rankValueFilter == 6
rankJoin == 7
rankOther == 8

changesLabels(st) == st.type = "Function" /\ st.what \in Parsers \cup LabelFormatters
changesLine(st) == st.type = "Function" /\ st.what \in LineFormatters

(* rankOf: a filter by what it addresses, a function by its name or, failing  *)
(* that, by whether the target's function of that name reads a range.         *)
rankOf(st, def) ==
    CASE st.type = "Filter" ->
            (CASE st.what = FieldBody -> rankLineFilter
               [] st.what = FieldValue -> rankValueFilter
               [] OTHER -> rankLabelFilter)
      [] st.type = "Function" ->
            (CASE st.what \in Parsers -> rankParser
               [] st.what \in LabelFormatters \cup LineFormatters -> rankFormatter
               [] st.what = "unwrap" -> rankUnwrap
               [] ReadsRangeOperand(def, st.what) -> rankAggregation
               [] OTHER -> rankOther)
      [] st.type = "Aggregation" -> rankAggregation
      [] st.type = "Join" -> rankJoin
      [] OTHER -> rankOther

Ranks(ids, def) == [i \in DOMAIN ids |-> rankOf(stage[ids[i]], def)]

(* Mutant: a sort that turns stages of one rank around. *)
PrecedesUnstably(ranks, i, j) == ranks[i] < ranks[j] \/ (ranks[i] = ranks[j] /\ j < i)

(* sort.SliceStable: a stage goes after every stage of a lower rank and after *)
(* every earlier stage of its own.                                            *)
Precedes(ranks, i, j) == ranks[i] < ranks[j] \/ (ranks[i] = ranks[j] /\ i < j)
NewPosition(ranks, i) == 1 + Cardinality({j \in DOMAIN ranks : Precedes(ranks, j, i)})
OldPosition(ranks, k) == CHOOSE i \in DOMAIN ranks : NewPosition(ranks, i) = k

(* The pipeline the validator leaves behind.  A sorted one, and one of fewer  *)
(* than two stages, sorts to itself, which is the code's early return.        *)
Reordered(ids, def) ==
    LET ranks == Ranks(ids, def)
    IN  IF def.pipelineOrdered
        THEN [k \in DOMAIN ids |-> ids[OldPosition(ranks, k)]]
        ELSE ids

(* Mutant: only what reads labels is thought to depend on a producer. *)
AffectedByLabels(ids, ranks, i) ==
    {j \in DOMAIN ids :
        ranks[i] \in {rankLabelFilter, rankUnwrap} /\ changesLabels(stage[ids[j]])}

(* crossedProducer: both stages of a pair the sort swaps, when one of them    *)
(* rewrites what the other reads.                                             *)
AffectedBy(ids, ranks, i) ==
    CASE ranks[i] \in {rankLabelFilter, rankUnwrap} ->
            {j \in DOMAIN ids : changesLabels(stage[ids[j]])}
      [] ranks[i] = rankLineFilter -> {j \in DOMAIN ids : changesLine(stage[ids[j]])}
      [] OTHER -> {}

Swapped(ranks, i, j) ==
    (i < j /\ Precedes(ranks, j, i)) \/ (j < i /\ Precedes(ranks, i, j))

crossedProducer(ids, ranks) ==
    {i \in DOMAIN ids :
        \E j \in DOMAIN ids :
            /\ j \in AffectedBy(ids, ranks, i) \/ i \in AffectedBy(ids, ranks, j)
            /\ Swapped(ranks, i, j)}
=============================================================================
