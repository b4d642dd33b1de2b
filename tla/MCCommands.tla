---------------------------- MODULE MCCommands ----------------------------
(* Dashboards of three panels, one of them in a row, and query lists of up    *)
(* to two queries, under the flags that tell the commands' ways apart.         *)
EXTENDS Commands

Panel(targets, panels) == [targets |-> targets, panels |-> panels]

(* Panel 1 is a row with panel 2 in it; panel 3 follows the row. *)
Board(a, b, c, d) ==
    [p \in 0..3 |-> CASE p = 0 -> Panel(<< >>, <<1, 3>>)
                      [] p = 1 -> Panel(<<a>>, <<2>>)
                      [] p = 2 -> Panel(<<b, c>>, << >>)
                      [] p = 3 -> Panel(<<d>>, << >>)]

SmallDashboards ==
    {Board(a, b, c, d) : a \in {"exact", "untranslatable"},
                         b \in {"", "approximate", "inexpressible"},
                         c \in {"exact", "lossy"},
                         d \in {"", "exact", "mismatched", "untranslatable"}}

SmallQueryLists == {<< >>} \cup {<<a>> : a \in Classes} \cup {<<a, b>> : a, b \in Classes}

DashboardFlags ==
    {i \in [command : {"dashboard"}, source : {"file", "grafana"}, input : {"in"},
            output : {"in", "out", "stdout"}, report : {"out", "stdout", "stderr"},
            format : {"text", "json"}, skipErrors : BOOLEAN, failOnPartial : BOOLEAN,
            failOnMismatch : {FALSE}] :
        i.source = "grafana" => i.output = "out" /\ i.report = "stderr"}

TranslateFlags ==
    [command : {"translate"}, source : {"inline", "file", "stdin"}, input : {"in"},
     output : {"in", "out", "stdout"}, report : {"stderr"}, format : {"text", "json"},
     skipErrors : {FALSE}, failOnPartial : BOOLEAN, failOnMismatch : BOOLEAN]

SmallInvocations == DashboardFlags \cup TranslateFlags
=============================================================================
