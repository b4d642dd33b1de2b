----------------------------- MODULE Validator ------------------------------
(***************************************************************************)
(* Validation of a resolved query against a target: a preorder walk that    *)
(* flags each node with the worst verdict reached about it, keeps every     *)
(* verdict in an issue list, and, for a target that fixes the order of      *)
(* stages, reorders the pipelines it reaches.                               *)
(*                                                                         *)
(* The code recurses; here the nodes still to visit are a worklist in the   *)
(* order ir.InspectPath would reach them.  Visiting a node runs its checks, *)
(* and the verdicts they reach are then recorded one at a time by Report,   *)
(* before the next node is visited.  The checks of one visit judge          *)
(* different nodes, so the order they record their verdicts in is left      *)
(* open.                                                                    *)
(***************************************************************************)
EXTENDS PipelineOrder

VARIABLES
    toVisit,    \* nodes the walk has still to reach, nearest first
    verdicts,   \* verdicts of the node being visited that Report has yet to record
    flag,       \* the flag each node carries
    reason,     \* the reason each node carries, "" while it is FULL
    issues,     \* every verdict recorded
    mismatch    \* whether the target reads another class of telemetry

validatorVars == <<toVisit, verdicts, flag, reason, issues, mismatch>>

def == Dialect[Target]
source == Dialect[Source]

(* A verdict names its node, and the path the finding is listed under.  Most  *)
(* are listed under the node's own path; one check builds a path of its own.  *)
Verdict(n, f, why) == [node |-> n, path |-> "walked", flag |-> f, reason |-> why]
AtBarePath(v) == [v EXCEPT !.path = "bare"]

Raise(condition, n, f, why) == {v \in {Verdict(n, f, why)} : condition}

-----------------------------------------------------------------------------
(* Checks on the query as a whole. *)

checkSentinelSemantics(root) ==
    Raise(source.dsl # def.dsl /\ source.nanAsSentinel # def.nanAsSentinel,
          QueryNode(root), PARTIAL, "absent data")

(* Only the stages the sort moved are reported, and of those only the ones    *)
(* crossedProducer holds unsafe.                                              *)
checkPipelineOrder(ids) ==
    LET ranks == Ranks(ids, def)
        moved == {i \in DOMAIN ids : NewPosition(ranks, i) # i}
    IN  UNION {Raise(def.pipelineOrdered, StageNode(ids[i]), PARTIAL, "stage order") :
                 i \in moved \cap crossedProducer(ids, ranks)}

checkSubquery(q) ==
    UNION {Raise(IsSubquery(q) /\ ~def.subqueries, n, UNSUPPORTED, "subquery") :
             n \in {<<"Output", q>>, QueryNode(q)}}

(* Mutant: a range function is not known to yield samples. *)
ProducesRangeByAggregation(s) ==
    stage[s].type = "Aggregation" /\ stage[s].scope = "TEMPORAL"

(* What turns records into samples: a temporal aggregation, or a function the *)
(* target knows to read a range.                                              *)
ProducesRange(s) ==
    \/ stage[s].type = "Aggregation" /\ stage[s].scope = "TEMPORAL"
    \/ stage[s].type = "Function" /\ ReadsRangeOperand(def, stage[s].what)

GroupWithoutSamples(ids) ==
    {i \in DOMAIN ids :
        /\ stage[ids[i]].type = "Aggregation" /\ stage[ids[i]].scope = "GROUP"
        /\ \A j \in 1..(i - 1) : ~ProducesRange(ids[j])}

(* Mutant: an aggregation is taken at its word. *)
UncheckedOperand(q, ids) == {}

checkAggregationOperand(q, ids) ==
    UNION {Raise(/\ def.groupAggregationNeedsSamples
                 /\ query[q].signal = "METRIC" => ~SupportsSignal(def, "METRIC"),
                 StageNode(ids[i]), UNSUPPORTED, "no samples") : i \in GroupWithoutSamples(ids)}

checkOffset(q, ids) ==
    Raise(/\ def.offsetNeedsRange /\ query[q].offset > 0
          /\ \A i \in DOMAIN ids : ~ProducesRange(ids[i]),
          <<"Window", q>>, UNSUPPORTED, "offset without range")

-----------------------------------------------------------------------------
(* Checks on one node. *)

(* Every target has a spelling for the operators used here; only a filter on  *)
(* the log body may have nowhere to land, and only a pattern crossing from    *)
(* one language to another is warned about.                                   *)
checkMatcher(n, field, op) ==
    IF field = FieldBody /\ ~SupportsSignal(def, "LOG")
    THEN {Verdict(n, UNSUPPORTED, "no log body")}
    ELSE Raise(Source # Target /\ op = "regex", n, PARTIAL, "regex dialect")

checkFilter(n, st) ==
    Raise(st.bool > 0 /\ ~def.boolModifier, n, PARTIAL, "bool")

checkFunction(n, st) ==
    Raise(st.what # "literal" /\ ~FunctionByIRName(def, st.what),
          n, UNSUPPORTED, "no function")

checkAggregation(n, st) ==
    LET ownAxis == FunctionForAggregation(def, st.what, st.scope)
        someAxis == FunctionsForAggOp(def, st.what) # {}
    IN  Raise(~ownAxis /\ someAxis, n, PARTIAL, "other axis")
          \cup Raise(~ownAxis /\ ~someAxis, n, UNSUPPORTED, "no aggregation")

checkJoin(n) == Raise(~def.joins, n, UNSUPPORTED, "join")

checkArithmetic(n) == Raise(~def.arithmetic, n, UNSUPPORTED, "arithmetic")

checkWindow(n) == Raise(~def.temporalWindows, n, UNSUPPORTED, "no window")

checkStage(s) ==
    LET st == stage[s] n == StageNode(s) IN
    CASE st.type = "Filter" -> checkFilter(n, st)
      [] st.type = "Function" -> checkFunction(n, st)
      [] st.type = "Aggregation" -> checkAggregation(n, st)
      [] st.type = "Join" -> checkJoin(n)
      [] IsOperator(st) -> checkArithmetic(n)

-----------------------------------------------------------------------------
(* The walk. *)

StartValidation(root) ==
    /\ toVisit' = <<QueryNode(root)>>
    /\ verdicts' = checkSentinelSemantics(root)
    /\ mismatch' = ~SupportsSignal(def, query[root].signal)
    /\ UNCHANGED <<flag, reason, issues>>

AtNode(kinds) ==
    verdicts = {} /\ toVisit # << >> /\ Head(toVisit)[1] \in kinds

Descend(children) == toVisit' = children \o Tail(toVisit)

(* A query's children are read after its checks, so a reordered pipeline is   *)
(* walked in its new order.                                                   *)
VisitQuery ==
    /\ AtNode({"Query"})
    /\ LET q == Head(toVisit)[2]
           ids == Pipeline(q)
           ordered == Reordered(ids, def)
       IN  /\ query' = [query EXCEPT ![q].pipeline = ordered]
           /\ verdicts' = {AtBarePath(v) : v \in checkPipelineOrder(ids)}
                            \cup checkSubquery(q)
                            \cup checkAggregationOperand(q, ordered)
                            \cup checkOffset(q, ordered)
           /\ Descend(QueryChildren(q, ordered))
    /\ UNCHANGED stage
    /\ UNCHANGED <<flag, reason, issues, mismatch>>

VisitStage ==
    /\ AtNode({"Stage"})
    /\ verdicts' = checkStage(Head(toVisit)[2])
    /\ UNCHANGED heap /\ Descend(Children(Head(toVisit)))
    /\ UNCHANGED <<flag, reason, issues, mismatch>>

VisitMatcher ==
    /\ AtNode({"Matcher", "Predicate"})
    /\ LET n == Head(toVisit)
           st == stage[n[2]]
       IN  verdicts' = IF n[1] = "Matcher"
                       THEN checkMatcher(n, "label", query[n[2]].source)
                       ELSE checkMatcher(n, st.what, st.op)
    /\ UNCHANGED heap /\ Descend(Children(Head(toVisit)))
    /\ UNCHANGED <<flag, reason, issues, mismatch>>

VisitWindow ==
    /\ AtNode({"Window"})
    /\ verdicts' = checkWindow(Head(toVisit))
    /\ UNCHANGED heap /\ Descend(Children(Head(toVisit)))
    /\ UNCHANGED <<flag, reason, issues, mismatch>>

(* Nodes no check looks at. *)
VisitOther ==
    /\ AtNode({"Source", "Argument", "Output", "Range"})
    /\ UNCHANGED heap /\ Descend(Children(Head(toVisit)))
    /\ UNCHANGED <<verdicts, flag, reason, issues, mismatch>>

(* Mutant: a node keeps the last verdict instead of the worst. *)
ReportLast ==
    \E v \in verdicts :
       /\ flag' = [flag EXCEPT ![v.node] = v.flag]
       /\ reason' = [reason EXCEPT ![v.node] = v.reason]
       /\ issues' = issues \cup {v} /\ verdicts' = verdicts \ {v}
       /\ UNCHANGED <<heap, toVisit, mismatch>>

(* report: a node keeps the worst flag reached about it and the reason for    *)
(* it; the list keeps everything.                                             *)
Report ==
    \E v \in verdicts :
       /\ flag' = [flag EXCEPT ![v.node] = IF v.flag > @ THEN v.flag ELSE @]
       /\ reason' = [reason EXCEPT ![v.node] = IF v.flag > flag[v.node] THEN v.reason ELSE @]
       /\ issues' = issues \cup {v}
       /\ verdicts' = verdicts \ {v}
       /\ UNCHANGED <<heap, toVisit, mismatch>>

ValidatorInit ==
    /\ toVisit = << >> /\ verdicts = {} /\ issues = {}
    /\ flag = [n \in Node |-> FULL] /\ reason = [n \in Node |-> ""]
    /\ mismatch = FALSE

ValidatorNext ==
    VisitQuery \/ VisitStage \/ VisitMatcher \/ VisitWindow \/ VisitOther \/ Report

Validated == toVisit = << >> /\ verdicts = {}
=============================================================================
