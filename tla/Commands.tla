------------------------------ MODULE Commands ------------------------------
(***************************************************************************)
(* polyql translate and polyql dashboard translate, from the flags to the   *)
(* exit code: what is read, in which order things are written, what is on   *)
(* disk when a step fails or the process is killed, and what the exit code  *)
(* says of it.                                                              *)
(***************************************************************************)
EXTENDS Dashboard

CONSTANTS
    Path,          \* files
    Invocations,   \* the flags a command may be given
    QueryLists     \* what a query file or a pipe may hold, blank lines left out

(* Flags of both commands.  source is where the input comes from; input,      *)
(* output and report are files, or a stream.                                  *)
Invocation ==
    [command : {"translate", "dashboard"},
     source : {"inline", "file", "stdin", "grafana"},
     input : Path, output : Path \cup {"stdout"}, report : Path \cup {"stdout", "stderr"},
     format : {"text", "json"},
     skipErrors : BOOLEAN, failOnPartial : BOOLEAN, failOnMismatch : BOOLEAN]

ASSUME InvocationsAssumption == Invocations \subseteq Invocation
ASSUME QueryListsAssumption == QueryLists \subseteq Seq(Classes)

VARIABLES
    flags,     \* the invocation
    pc,        \* the step its run has come to
    inputs,    \* translate: queries still to translate
    results,   \* translate: the classes of those translated
    holds,     \* what each file, and each stream, holds
    closed,    \* whether the writer of the pipe has finished
    wrong,     \* writes that failed, by destination
    exit       \* the exit code

vars == <<flags, pc, inputs, results, holds, closed, wrong, exit, dashboardVars>>

exitOK == 0
exitFidelity == 1
exitError == 2
NotYet == 9
Killed == 8

Destination == Path \cup {"stdout", "stderr"}
IsFile(d) == d \in Path

(* What a destination may hold: what was there, nothing, part of a document,  *)
(* or documents in the order they were written to it.                         *)
AsFound == <<"as found">>
Untouched == [d \in Destination |-> IF IsFile(d) THEN AsFound ELSE << >>]

Goto(where) == pc' = where
At(where) == pc = where
Finish(code) == pc' = "exited" /\ exit' = code

Dash == flags.command = "dashboard"
Trans == flags.command = "translate"

-----------------------------------------------------------------------------
(* Writing.  A file is truncated as it is opened; a stream is added to.       *)

Opened(d) == IF IsFile(d) THEN << >> ELSE holds[d]

(* Everything was written. *)
Wrote(d, document) ==
    /\ holds' = [holds EXCEPT ![d] = Append(Opened(d), document)]
    /\ UNCHANGED wrong

(* The destination took part of it: a full disk, a closed pipe. *)
WroteInPart(d) ==
    /\ holds' = [holds EXCEPT ![d] = Append(Opened(d), "part")]
    /\ wrong' = wrong \cup {d}

(* The file took all of it, and could not be closed: what it then holds is     *)
(* not known, and nobody is told.                                             *)
LostInClosing(d) ==
    /\ IsFile(d)
    /\ holds' = [holds EXCEPT ![d] = Append(Opened(d), "unclosed")]
    /\ wrong' = wrong \cup {d}

(* The file could not be opened. *)
NotOpened(d) == IsFile(d) /\ wrong' = wrong \cup {d} /\ UNCHANGED holds

-----------------------------------------------------------------------------
(* The way to the input.                                                      *)

UnchangedButPc == UNCHANGED <<flags, inputs, results, holds, closed, wrong, dashboardVars>>

(* Flags, registry and languages are checked first, in that order for         *)
(* translate; dashboard checks the languages when it has the dashboard, which *)
(* it has read without changing anything.                                     *)
Refuse ==
    /\ At("checking") /\ Finish(exitError)
    /\ UnchangedButPc

Check ==
    /\ At("checking") /\ Goto("reading")
    /\ UnchangedButPc /\ UNCHANGED exit

(* The other end of a pipe finishes writing. *)
Close ==
    /\ ~closed /\ flags.source = "stdin" /\ ~At("exited")
    /\ closed' = TRUE
    /\ UNCHANGED <<flags, pc, inputs, results, holds, wrong, exit, dashboardVars>>

Readable == flags.source = "stdin" => closed

(* An unreadable file, a line past the scanner's limit, nothing in it; a      *)
(* dashboard that is not one; a Grafana that refuses, does not answer before  *)
(* the timeout, answers with something else or with more than is read of it.  *)
FailToRead ==
    /\ At("reading") /\ flags.source # "inline" /\ Readable
    /\ Finish(exitError)
    /\ UnchangedButPc

ReadQueries ==
    /\ At("reading") /\ Trans /\ Readable
    /\ \E list \in QueryLists :
         /\ flags.source = "inline" => Len(list) = 1
         /\ list # << >> /\ inputs' = list
    /\ Goto("translating")
    /\ UNCHANGED <<flags, results, holds, closed, wrong, exit, dashboardVars>>

ReadDashboard ==
    /\ At("reading") /\ Dash
    /\ \E d \in Dashboards : ReadInto(d)
    /\ Goto("translating")
    /\ UNCHANGED <<flags, inputs, results, holds, closed, wrong, exit>>

-----------------------------------------------------------------------------
(* translate. *)

TranslateOne ==
    /\ At("translating") /\ Trans /\ inputs # << >>
    /\ results' = Append(results, Head(inputs))
    /\ inputs' = Tail(inputs)
    /\ UNCHANGED <<flags, pc, holds, closed, wrong, exit, dashboardVars>>

exitCodeFor(class) ==
    IF ~Translates(class) THEN exitError
    ELSE LET report == Translation[class] IN
         IF \/ report.unsupported > 0
            \/ report.mismatch /\ flags.failOnMismatch
            \/ report.partial > 0 /\ flags.failOnPartial
         THEN exitFidelity ELSE exitOK

(* Mutant: the last query decides. *)
LastCode == IF results = << >> THEN exitOK ELSE exitCodeFor(Last(results))

worst == Max({exitOK} \cup {exitCodeFor(results[i]) : i \in DOMAIN results})

TranslatedAll == At("translating") /\ Trans /\ inputs = << >>
SingleError == flags.source = "inline" /\ ~Translates(results[1])

(* A single query that does not translate: nothing is written. *)
RefuseSingle ==
    /\ TranslatedAll /\ SingleError
    /\ Finish(exitError)
    /\ UnchangedButPc

(* renderText, renderQueryOnly and renderJSON.  Only the JSON encoder's       *)
(* errors are looked at, and no error of the file's Close.                    *)
RenderResults ==
    /\ TranslatedAll /\ ~SingleError
    /\ \/ Wrote(flags.output, "results") /\ Finish(worst)
       \/ LostInClosing(flags.output) /\ Finish(worst)
       \/ NotOpened(flags.output) /\ Finish(exitError)
       \/ /\ WroteInPart(flags.output)
          /\ Finish(IF flags.format = "json" THEN exitError ELSE worst)
    /\ UNCHANGED <<flags, inputs, results, closed, dashboardVars>>

-----------------------------------------------------------------------------
(* dashboard translate. *)

WalkDashboard ==
    /\ At("translating") /\ Dash /\ Walk
    /\ UNCHANGED <<flags, pc, inputs, results, holds, closed, wrong, exit>>

WalkedAll == At("translating") /\ Dash /\ Walked
Refused == Failures # {} /\ ~flags.skipErrors

(* Mutant: the command ends without saying how. *)
RefuseSilently ==
    /\ WalkedAll /\ Refused
    /\ Goto("exited")
    /\ UnchangedButPc /\ UNCHANGED exit

RefuseFailures ==
    /\ WalkedAll /\ Refused
    /\ Finish(exitError)
    /\ UnchangedButPc

(* Mutant: the failures are looked at when the dashboard has been written. *)
WriteUnjudged ==
    /\ WalkedAll
    /\ Wrote(flags.output, "dashboard")
    /\ IF Refused THEN Finish(exitError) ELSE Goto("reporting") /\ UNCHANGED exit
    /\ UNCHANGED <<flags, inputs, results, closed, dashboardVars>>

(* Mutant: a file that cannot be opened does not stop the command. *)
WriteOrGoOn ==
    /\ WalkedAll /\ ~Refused /\ Goto("reporting")
    /\ \/ Wrote(flags.output, "dashboard")
       \/ NotOpened(flags.output)
    /\ UNCHANGED <<flags, inputs, results, closed, exit, dashboardVars>>

WriteDashboard ==
    /\ WalkedAll /\ ~Refused
    /\ \/ Wrote(flags.output, "dashboard") /\ Goto("reporting") /\ UNCHANGED exit
       \/ NotOpened(flags.output) /\ Finish(exitError)
       \/ WroteInPart(flags.output) /\ Finish(exitError)
    /\ UNCHANGED <<flags, inputs, results, closed, dashboardVars>>

outcome ==
    IF Failures # {} \/ Summary.unsupported > 0
         \/ (Summary.partial > 0 /\ flags.failOnPartial)
    THEN exitFidelity ELSE exitOK

(* writeReport.  Only the JSON encoder's errors are looked at, and no error    *)
(* of the file's Close.                                                       *)
WriteReport ==
    /\ At("reporting")
    /\ \/ Wrote(flags.report, "report") /\ Finish(outcome)
       \/ LostInClosing(flags.report) /\ Finish(outcome)
       \/ NotOpened(flags.report) /\ Finish(exitError)
       \/ /\ WroteInPart(flags.report)
          /\ Finish(IF flags.format = "json" THEN exitError ELSE outcome)
    /\ UNCHANGED <<flags, inputs, results, closed, dashboardVars>>

-----------------------------------------------------------------------------
(* The process is killed, between two steps or in the middle of a write.      *)
Kill ==
    /\ ~At("exited") /\ Finish(Killed)
    /\ \/ UNCHANGED <<holds, wrong>>
       \/ TranslatedAll /\ ~SingleError /\ WroteInPart(flags.output)
       \/ WalkedAll /\ ~Refused /\ WroteInPart(flags.output)
       \/ At("reporting") /\ WroteInPart(flags.report)
    /\ UNCHANGED <<flags, inputs, results, closed, dashboardVars>>

Exited == At("exited") /\ UNCHANGED vars

Init ==
    /\ flags \in Invocations
    /\ pc = "checking" /\ inputs = << >> /\ results = << >>
    /\ holds = Untouched /\ closed = FALSE /\ wrong = {} /\ exit = NotYet
    /\ doc = << >> /\ expr = << >> /\ toWalk = << >> /\ reports = << >>

Run ==
    \/ Refuse \/ Check \/ FailToRead \/ ReadQueries \/ ReadDashboard
    \/ TranslateOne \/ RefuseSingle \/ RenderResults
    \/ WalkDashboard \/ RefuseFailures \/ WriteDashboard \/ WriteReport

Next == Run \/ Close \/ Kill \/ Exited

(* A process that can run is scheduled, and a fetch ends by the client's      *)
(* timeout at the latest.  Nothing makes the other end of a pipe finish.      *)
Spec == Init /\ [][Next]_vars /\ WF_vars(Run)
-----------------------------------------------------------------------------
(* Properties *)

(* Values of the state that the commands may come to. *)
TypeOK ==
    /\ flags \in Invocations
    /\ pc \in {"checking", "reading", "translating", "reporting", "exited"}
    /\ exit \in {exitOK, exitFidelity, exitError, Killed, NotYet}
    /\ At("exited") <=> exit # NotYet
    /\ inputs \in Seq(Classes) /\ results \in Seq(Classes)
    /\ DOMAIN holds = Destination /\ wrong \subseteq Destination
    /\ closed \in BOOLEAN
    /\ DOMAIN expr = IF doc = << >> THEN {} ELSE TargetsOf(doc)

Exact(class) ==
    /\ Translates(class)
    /\ LET cost == Translation[class] IN
         /\ cost.query # "" /\ cost.unsupported = 0
         /\ cost.partial = 0 \/ ~flags.failOnPartial
         /\ ~cost.mismatch \/ ~flags.failOnMismatch \/ Dash

(* Exit 0 is given only if every query of the list, and every expression of    *)
(* every panel, of a row too, translated into a query with nothing left out,   *)
(* whatever the other queries came to; main.go's codes tell "the translation   *)
(* lost something" from success.                                               *)
NoQueryLostQuietly ==
    exit = exitOK =>
        /\ \A i \in DOMAIN results : Exact(results[i])
        /\ \A x \in DOMAIN expr : Blank(Original(doc, x)) \/ Exact(Original(doc, x))

(* Where a command may end well with an output that is not whole: text that    *)
(* was cut (the errors of fmt.Fprintf are not looked at), a file whose Close   *)
(* failed (render.go writer and dashboard.go writeReport ignore its error),    *)
(* and an output the report was written over, both given the same path.        *)
TextCut == flags.format = "text" /\ wrong # {}
ReportedOver == Dash /\ flags.report = flags.output /\ IsFile(flags.output)

Main == IF Dash THEN "dashboard" ELSE "results"
WholeAt(d, document) == \E i \in DOMAIN holds[d] : holds[d][i] = document
Unclosed(d) == WholeAt(d, "unclosed")

(* A command that exits 0 or 1 has written all it was asked to write, but for  *)
(* the three cases above; a dashboard, which os.WriteFile closes, is never     *)
(* lost in closing.                                                            *)
DoneMeansWritten ==
    exit \in {exitOK, exitFidelity} =>
        /\ \/ WholeAt(flags.output, Main) \/ TextCut \/ ReportedOver
           \/ Trans /\ Unclosed(flags.output)
        /\ Dash => WholeAt(flags.report, "report") \/ TextCut \/ Unclosed(flags.report)

(* A command that gives up, for anything but a write that failed, leaves every *)
(* file and stream as it found them: a single query that does not translate    *)
(* writes nothing, and under --skip-errors=false nor does a dashboard with one *)
(* bad panel.                                                                  *)
AbandonedChangesNothing ==
    exit = exitError /\ wrong = {} =>
        \/ holds = Untouched
        \/ Trans /\ flags.source # "inline" /\ \E i \in DOMAIN results : ~Translates(results[i])

(* The dashboard written: a panel whose expression did not translate keeps it, *)
(* a target without one stays without, and every other holds the query that    *)
(* its own report gives.                                                       *)
ReportFor(x) == {i \in DOMAIN reports : reports[i].at = x}
PanelsKeepTheirs ==
    Dash /\ WholeAt(flags.output, "dashboard") =>
        \A x \in DOMAIN expr :
            LET original == Original(doc, x) IN
            IF Blank(original) THEN ReportFor(x) = {} /\ expr[x] = original
            ELSE \E i \in ReportFor(x) :
                    /\ ReportFor(x) = {i} /\ reports[i].original = original
                    /\ reports[i].failed <=> ~Translates(original)
                    /\ expr[x] = IF reports[i].failed THEN original ELSE reports[i].cost.query

(* Where a panel stands: the positions on the way to it, of its row first.     *)
WayTo[p \in DOMAIN doc] == IF p = 0 THEN << >> ELSE
    LET row == CHOOSE q \in DOMAIN doc : p \in Range(doc[q].panels)
    IN Append(WayTo[row], CHOOSE i \in DOMAIN doc[row].panels : doc[row].panels[i] = p)

Precedes(a, b) ==
    \/ IsStrictPrefix(a, b)
    \/ \E i \in DOMAIN a \cap DOMAIN b :
          a[i] < b[i] /\ \A j \in 1..(i - 1) : a[j] = b[j]

(* The reports stand in the order of the page: a row's own expressions, then   *)
(* its panels', then what follows the row.                                     *)
ReportsInPageOrder ==
    \A i, j \in DOMAIN reports : i < j =>
        LET x == reports[i].at  y == reports[j].at IN
        \/ x.panel = y.panel /\ x.target < y.target
        \/ Precedes(WayTo[x.panel], WayTo[y.panel])

(* A command ends, whatever it is given, unless it is left waiting for a pipe  *)
(* whose writer never finishes.                                                *)
CommandEnds == (flags.source = "stdin" => <>closed) => <>At("exited")
=============================================================================
