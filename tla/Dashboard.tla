----------------------------- MODULE Dashboard -----------------------------
(***************************************************************************)
(* Translation of the expressions in a Grafana dashboard: a batch over the  *)
(* targets of a tree of panels, in which an expression that does not        *)
(* translate is left as it was and reported.                                *)
(*                                                                         *)
(* A dashboard is a function from panels to their targets and to the panels *)
(* within them, panel 0 being the dashboard itself.  An expression is the   *)
(* class of what the compiler makes of it.                                  *)
(***************************************************************************)
EXTENDS Naturals, Sequences, SequencesExt

CONSTANT Dashboards   \* the dashboards there are to translate

VARIABLES
    doc,      \* the dashboard as it was read
    expr,     \* the expression each target holds now
    toWalk,   \* panels and targets not yet reached, nearest first
    reports   \* one report for each expression reached, in that order

dashboardVars == <<doc, expr, toWalk, reports>>

-----------------------------------------------------------------------------
(* What parse, resolve, validate and emit make of an expression together:     *)
(* the query without the emitter's notes, and what the report counts.  A      *)
(* query in which the target can express nothing has no text left.  One that  *)
(* does not parse, resolve or emit is in no class here.                       *)
Cost(query, partial, unsupported, mismatch) ==
    [query |-> query, partial |-> partial, unsupported |-> unsupported,
     mismatch |-> mismatch]

Translation ==
    [exact |-> Cost("exact translated", 0, 0, FALSE),
     approximate |-> Cost("approximate translated", 1, 0, FALSE),
     mismatched |-> Cost("mismatched translated", 0, 0, TRUE),
     lossy |-> Cost("lossy translated", 1, 1, FALSE),
     inexpressible |-> Cost("", 0, 2, FALSE)]

Classes == DOMAIN Translation \cup {"untranslatable"}
Translates(class) == class \in DOMAIN Translation

(* Expressions a target may hold: blank is no expression at all. *)
Blank(text) == text = ""

(* A dashboard as JSON can hold one: every panel stands in one place, and is  *)
(* reached from the dashboard.                                                *)
IsTree(d) ==
    /\ 0 \in DOMAIN d
    /\ \A p \in DOMAIN d :
          /\ d[p].targets \in Seq(Classes \cup {""})
          /\ d[p].panels \in Seq(DOMAIN d \ {0})
    /\ \A p, q \in DOMAIN d :
          \A i \in DOMAIN d[p].panels, j \in DOMAIN d[q].panels :
             d[p].panels[i] = d[q].panels[j] => p = q /\ i = j
    /\ \A S \in SUBSET DOMAIN d :
          0 \in S /\ (\A p \in S : Range(d[p].panels) \subseteq S) => S = DOMAIN d

ASSUME DashboardsAssumption == \A d \in Dashboards : IsTree(d)

-----------------------------------------------------------------------------
PanelItem(p) == [panel |-> p, target |-> 0]
TargetItem(p, j) == [panel |-> p, target |-> j]
IsPanel(item) == item.target = 0

TargetsOf(d) == UNION {{TargetItem(p, j) : j \in DOMAIN d[p].targets} : p \in DOMAIN d}
Original(d, x) == d[x.panel].targets[x.target]

PanelItems(panels) == [i \in DOMAIN panels |-> PanelItem(panels[i])]
TargetItems(p) == [j \in DOMAIN doc[p].targets |-> TargetItem(p, j)]

ReadInto(d) ==
    /\ doc' = d
    /\ expr' = [x \in TargetsOf(d) |-> Original(d, x)]
    /\ toWalk' = <<PanelItem(0)>>
    /\ reports' = << >>

AtPanel == toWalk # << >> /\ IsPanel(Head(toWalk))
AtTarget == toWalk # << >> /\ ~IsPanel(Head(toWalk))
Here == Head(toWalk)

(* Mutant: the panels of a row are left for the end of the dashboard. *)
WalkRowsLast ==
    /\ AtPanel
    /\ toWalk' = TargetItems(Here.panel) \o Tail(toWalk) \o PanelItems(doc[Here.panel].panels)
    /\ UNCHANGED <<doc, expr, reports>>

(* walkPanels: a panel's own targets, then the panels within it. *)
WalkPanel ==
    /\ AtPanel
    /\ toWalk' = TargetItems(Here.panel) \o PanelItems(doc[Here.panel].panels) \o Tail(toWalk)
    /\ UNCHANGED <<doc, expr, reports>>

(* Mutant: the walk does not go past a blank target. *)
StayAtBlank ==
    /\ AtTarget /\ Blank(expr[Here])
    /\ UNCHANGED dashboardVars

SkipTarget ==
    /\ AtTarget /\ Blank(expr[Here])
    /\ toWalk' = Tail(toWalk)
    /\ UNCHANGED <<doc, expr, reports>>

Report(x, failed, cost) ==
    [at |-> x, original |-> expr[x], failed |-> failed, cost |-> cost]
NoCost == Cost("", 0, 0, FALSE)

(* Mutant: the panel is emptied before its expression is known to translate. *)
FailAndClear ==
    /\ AtTarget /\ ~Blank(expr[Here]) /\ ~Translates(expr[Here])
    /\ reports' = Append(reports, Report(Here, TRUE, NoCost))
    /\ expr' = [expr EXCEPT ![Here] = ""]
    /\ toWalk' = Tail(toWalk)
    /\ UNCHANGED doc

FailTarget ==
    /\ AtTarget /\ ~Blank(expr[Here]) /\ ~Translates(expr[Here])
    /\ reports' = Append(reports, Report(Here, TRUE, NoCost))
    /\ toWalk' = Tail(toWalk)
    /\ UNCHANGED <<doc, expr>>

TranslateTarget ==
    /\ AtTarget /\ ~Blank(expr[Here]) /\ Translates(expr[Here])
    /\ LET cost == Translation[expr[Here]] IN
         /\ reports' = Append(reports, Report(Here, FALSE, cost))
         /\ expr' = [expr EXCEPT ![Here] = cost.query]
    /\ toWalk' = Tail(toWalk)
    /\ UNCHANGED doc

Walk == WalkPanel \/ SkipTarget \/ FailTarget \/ TranslateTarget
Walked == toWalk = << >>

-----------------------------------------------------------------------------
(* The summary: Aggregate over the reports that have a fidelity report.       *)

Failures == {i \in DOMAIN reports : reports[i].failed}
Parts == DOMAIN reports \ Failures

Count(column) ==
    SumFunctionOnSet([i \in DOMAIN reports |-> reports[i].cost[column]], Parts)

Summary == [partial |-> Count("partial"), unsupported |-> Count("unsupported")]
=============================================================================
