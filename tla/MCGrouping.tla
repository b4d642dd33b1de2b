---------------------------- MODULE MCGrouping ----------------------------
(* Texts long enough for a grouped operator under another one, or at the side *)
(* of a join; an operator of each way to bind.                                *)
EXTENDS Grouping

BetweenTwo == {<<"promql", "promql">>, <<"promql", "logql">>, <<"logql", "promql">>}
FewOperators == AllOperators \ {"and"}
=============================================================================
