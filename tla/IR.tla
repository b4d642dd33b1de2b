--------------------------------- MODULE IR ---------------------------------
(***************************************************************************)
(* The telemetry IR every compiler phase works on: a heap of queries and    *)
(* pipeline stages that the resolver allocates, the validator annotates and *)
(* reorders, and the emitter and the reporter read.                         *)
(*                                                                         *)
(* A node of the tree is a pair <<kind, id>>: the id of the query it        *)
(* belongs to, or of the pipeline stage it belongs to.  Pipelines hold      *)
(* stage ids and stages hold query ids, so the tree is stored flat and no   *)
(* operator needs recursion.                                                *)
(***************************************************************************)
EXTENDS Naturals, Sequences, FiniteSets

CONSTANTS MaxQueries,   \* bound: queries one expression may allocate
          MaxStages     \* bound: pipeline stages one expression may allocate

ASSUME BoundsAssumption == MaxQueries \in Nat /\ MaxStages \in Nat

VARIABLES query,   \* the queries allocated so far, by id
          stage    \* the pipeline stages allocated so far, by id

heap == <<query, stage>>

QueryId == 1..MaxQueries
StageId == 1..MaxStages
None == 0          \* a nil *Query operand

-----------------------------------------------------------------------------
(* Translatability flags, ordered from faithful to inexpressible. *)

FULL == 0
PARTIAL == 1
UNSUPPORTED == 2
Flags == {FULL, PARTIAL, UNSUPPORTED}

-----------------------------------------------------------------------------
(* Pipeline stages.  Every stage is a record of the same shape:              *)
(*   type   which ir.PipelineStage it is;                                    *)
(*   what   what a filter addresses, a function's name (names the target     *)
(*          treats alike are one name), or an aggregation's operator;        *)
(*   scope  an aggregation's axis;                                           *)
(*   op     a filter's comparison;                                           *)
(*   bool   FilterStage.ReturnsBool, as the occurrence that set it;          *)
(*   args   the queries it holds: a join's right side, an operator's         *)
(*          operands.                                                        *)

(* Modifiers an author may write - a bool, an offset, a subquery, an @ - are   *)
(* recorded by the number of the occurrence in the expression, 0 for none, so  *)
(* that which of two the IR kept can be told.                                  *)

Blank == [type |-> "", what |-> "", scope |-> "", op |-> "", bool |-> 0, args |-> << >>]

Filter(field, op, bool) ==
    [Blank EXCEPT !.type = "Filter", !.what = field, !.op = op, !.bool = bool]
Function(name) == [Blank EXCEPT !.type = "Function", !.what = name]
Aggregation(op, scope) ==
    [Blank EXCEPT !.type = "Aggregation", !.what = op, !.scope = scope]
Join(right) == [Blank EXCEPT !.type = "Join", !.args = <<right>>]
BinaryOp(left, right) ==
    [Blank EXCEPT !.type = "BinaryOp",
                  !.args = IF left = None THEN << >> ELSE <<left, right>>]
UnaryOp(operand) == [Blank EXCEPT !.type = "UnaryOp", !.args = <<operand>>]

FieldBody == "body"
FieldValue == "value"

(* A BinaryOp without operands is the one a join leaves behind: it applies to *)
(* the joined series, so it holds no query of its own.                        *)
IsOperator(st) == st.type \in {"BinaryOp", "UnaryOp"}
HasOperands(st) == IsOperator(st) /\ st.args # << >>

-----------------------------------------------------------------------------
(* Queries. *)

NewQuery(signal, source) ==
    [signal |-> signal,
     source |-> source,      \* "none" for a nil DataSource, else what it selects with
     pipeline |-> << >>,
     step |-> FALSE,         \* Output.Window.Step is set
     offset |-> 0,           \* Output.Window.Offset
     subquery |-> 0,         \* Output.SubqueryRange
     pinned |-> 0]           \* Output.Range starting and ending at one instant

HasWindow(q) == query[q].step \/ query[q].offset > 0
IsSubquery(q) == query[q].subquery > 0

-----------------------------------------------------------------------------
(* Nodes, and the order ir.InspectPath reaches the children of one. *)

NodeKinds == {"Query", "Source", "Matcher", "Stage", "Predicate", "Argument",
              "Output", "Range", "Window"}
Node == ({"Query", "Source", "Matcher", "Output", "Range", "Window"} \X QueryId)
          \cup ({"Stage", "Predicate", "Argument"} \X StageId)

QueryNode(q) == <<"Query", q>>
StageNode(s) == <<"Stage", s>>

NodesOf(kind, ids) == [i \in DOMAIN ids |-> <<kind, ids[i]>>]
Given(condition, nodes) == IF condition THEN nodes ELSE << >>

QueryChildren(q, pipeline) ==
    Given(query[q].source # "none", << <<"Source", q>> >>)
      \o NodesOf("Stage", pipeline) \o << <<"Output", q>> >>

StageChildren(s) ==
    CASE stage[s].type = "Filter" -> << <<"Predicate", s>> >>
      [] stage[s].what = "literal" -> << <<"Argument", s>> >>
      [] OTHER -> NodesOf("Query", stage[s].args)

(* A source's selector and its matcher are one node here, and so are a        *)
(* predicate and the matcher it wraps: each pair is judged once, through the  *)
(* node named.                                                                *)
Children(n) ==
    LET q == n[2] IN
    CASE n[1] = "Query" -> QueryChildren(q, query[q].pipeline)
      [] n[1] = "Source" -> Given(query[q].source # "name", << <<"Matcher", q>> >>)
      [] n[1] = "Stage" -> StageChildren(n[2])
      [] n[1] = "Output" -> Given(query[q].pinned > 0, << <<"Range", q>> >>)
                              \o Given(HasWindow(q), << <<"Window", q>> >>)
      [] OTHER -> << >>

Pipeline(q) == query[q].pipeline

(* Where a stage stands in its query's pipeline. *)
Position(q, s) == CHOOSE i \in DOMAIN Pipeline(q) : Pipeline(q)[i] = s
=============================================================================
