--------------------------- MODULE Commands_proof ---------------------------
(***************************************************************************)
(* Proofs about the commands, for any invocations, any lists of queries and *)
(* dashboards of any shape.                                                 *)
(***************************************************************************)
EXTENDS Commands, FiniteSetTheorems, WellFoundedInduction, TLAPS

-----------------------------------------------------------------------------
(* What is on disk, and what the exit code says. *)

Document == {"as found", "part", "unclosed", "results", "dashboard", "report"}
Documents == [Destination -> Seq(Document)]

FilesInv ==
    /\ TypeOK
    /\ holds \in Documents
    /\ pc \in {"checking", "reading"} => doc = << >> /\ inputs = << >> /\ results = << >>
    /\ pc \in {"checking", "reading", "translating"} => holds = Untouched /\ wrong = {}
    /\ At("reporting") => Dash /\ wrong = {} /\ WholeAt(flags.output, "dashboard")
    /\ At("translating") /\ Trans /\ flags.source = "inline" => Len(inputs) + Len(results) = 1
    /\ DoneMeansWritten
    /\ AbandonedChangesNothing

(* The codes are different numbers. *)
LEMMA Codes == exitOK = 0 /\ exitFidelity = 1 /\ exitError = 2 /\ Killed = 8 /\ NotYet = 9
  BY DEF exitOK, exitFidelity, exitError, Killed, NotYet

(* The worst of the codes is one of them, and one of the three. *)
LEMMA WorstIsOne ==
    /\ worst \in {exitOK, exitFidelity, exitError}
    /\ worst = exitError => \E i \in DOMAIN results : ~Translates(results[i])
<1> DEFINE codes == {exitOK} \cup {exitCodeFor(results[i]) : i \in DOMAIN results}
<1>1. \A i \in DOMAIN results :
         /\ exitCodeFor(results[i]) \in {0, 1, 2}
         /\ exitCodeFor(results[i]) = 2 => ~Translates(results[i])
  BY DEF exitCodeFor, exitOK, exitFidelity, exitError
<1>2. codes \subseteq {0, 1, 2} /\ 0 \in codes
  BY <1>1 DEF exitOK
<1>3. \E x \in codes : \A y \in codes : x >= y
  <2>1. CASE 2 \in codes
    BY <1>2, <2>1
  <2>2. CASE 2 \notin codes /\ 1 \in codes
    BY <1>2, <2>2
  <2>3. CASE 2 \notin codes /\ 1 \notin codes
    BY <1>2, <2>3
  <2> QED BY <2>1, <2>2, <2>3
<1>4. worst \in codes
  <2> HIDE DEF codes
  <2>1. Max(codes) \in codes
    BY <1>3 DEF Max
  <2> QED BY <2>1 DEF worst, codes
<1> QED BY <1>1, <1>2, <1>4 DEF exitOK, exitFidelity, exitError

(* What an invocation names. *)
LEMMA Named ==
  ASSUME flags \in Invocations
  PROVE  /\ flags.command \in {"translate", "dashboard"}
         /\ flags.output \in Destination /\ flags.report \in Destination
         /\ flags.format \in {"text", "json"}
  BY InvocationsAssumption DEF Invocation, Destination

Holding(d, document) == \E i \in DOMAIN holds[d] : holds[d][i] = document

(* What a write does to the destinations.                                     *)
LEMMA Writing ==
  ASSUME holds \in Documents, NEW d \in Destination, NEW document \in Document,
         \/ Wrote(d, document)
         \/ document = "part" /\ WroteInPart(d)
         \/ document = "unclosed" /\ LostInClosing(d)
  PROVE  /\ holds' \in Documents
         /\ \E i \in DOMAIN holds'[d] : holds'[d][i] = document
         /\ \A e \in Destination : \A text :
               (\E i \in DOMAIN holds[e] : holds[e][i] = text) /\ ~(e = d /\ IsFile(e))
                  => \E i \in DOMAIN holds'[e] : holds'[e][i] = text
         /\ \A e \in Destination : \A text :
               (\E i \in DOMAIN holds'[e] : holds'[e][i] = text) /\ text # document
                  => \E i \in DOMAIN holds[e] : holds[e][i] = text
<1>1. holds' = [holds EXCEPT ![d] = Append(Opened(d), document)]
  BY DEF Wrote, WroteInPart, LostInClosing
<1>2. Opened(d) \in Seq(Document) /\ (~IsFile(d) => Opened(d) = holds[d])
      /\ (IsFile(d) => Opened(d) = << >>)
  <2>1. holds[d] \in Seq(Document)
    BY DEF Documents
  <2>2. << >> \in Seq(Document)
    OBVIOUS
  <2> QED BY <2>1, <2>2 DEF Opened
<1>3. holds' \in Documents /\ holds'[d] = Append(Opened(d), document)
  BY <1>1, <1>2 DEF Documents
<1>4. \E i \in DOMAIN holds'[d] : holds'[d][i] = document
  BY <1>2, <1>3
<1>5. \A e \in Destination : e # d => holds'[e] = holds[e]
  BY <1>1 DEF Documents
<1>6. ASSUME NEW text, ~IsFile(d), NEW i \in DOMAIN holds[d], holds[d][i] = text
      PROVE  i \in DOMAIN holds'[d] /\ holds'[d][i] = text
  BY <1>2, <1>3, <1>6
<1>7. ASSUME NEW text, text # document, NEW i \in DOMAIN holds'[d], holds'[d][i] = text
      PROVE  i \in DOMAIN holds[d] /\ holds[d][i] = text
  BY <1>2, <1>3, <1>7
<1>8. ASSUME NEW e \in Destination, NEW text, ~(e = d /\ IsFile(e)),
             \E i \in DOMAIN holds[e] : holds[e][i] = text
      PROVE  \E i \in DOMAIN holds'[e] : holds'[e][i] = text
  <2>1. CASE e # d
    BY <1>5, <1>8, <2>1
  <2>2. CASE e = d
    BY <1>6, <1>8, <2>2
  <2> QED BY <2>1, <2>2
<1>9. ASSUME NEW e \in Destination, NEW text, text # document,
             \E i \in DOMAIN holds'[e] : holds'[e][i] = text
      PROVE  \E i \in DOMAIN holds[e] : holds[e][i] = text
  <2>1. CASE e # d
    BY <1>5, <1>9, <2>1
  <2>2. CASE e = d
    BY <1>7, <1>9, <2>2
  <2> QED BY <2>1, <2>2
<1> QED BY <1>3, <1>4, <1>8, <1>9

-----------------------------------------------------------------------------
(* The files: one lemma for the start, one for the steps.                     *)

(* Nothing has been written to begin with. *)
LEMMA FilesInit == Init => FilesInv
<1> SUFFICES ASSUME Init PROVE FilesInv
  OBVIOUS
<1>1. TypeOK
  <2>1. << >> \in Seq(Classes)
    OBVIOUS
  <2>3. \A S : S = << >> => DOMAIN S = {}
    OBVIOUS
  <2>2. DOMAIN holds = Destination
    BY DEF Init, Untouched
  <2> QED BY <2>1, <2>2, <2>3 DEF Init, TypeOK, At, NotYet, exitOK, exitFidelity, exitError, Killed
<1>2. holds \in Documents
  <2>1. << >> \in Seq(Document)
    OBVIOUS
  <2>2. AsFound \in Seq(Document)
    BY DEF AsFound, Document
  <2> QED BY <2>1, <2>2 DEF Init, Untouched, Documents
<1>3. exit \notin {exitOK, exitFidelity, exitError}
  BY DEF Init, NotYet, exitOK, exitFidelity, exitError
<1> QED
  BY <1>1, <1>2, <1>3 DEF Init, FilesInv, At, DoneMeansWritten, AbandonedChangesNothing

(* A command that gives up before it has written anything. *)
LEMMA GivingUp ==
  ASSUME FilesInv, pc \in {"checking", "reading", "translating"}, UnchangedButPc, Finish(exitError)
  PROVE  FilesInv'
<1>1. TypeOK'
  BY DEF FilesInv, TypeOK, UnchangedButPc, Finish, dashboardVars, At, exitOK, exitFidelity,
         exitError, NotYet, Killed
<1>2. holds' = Untouched' /\ holds' \in Documents' /\ exit' = exitError
  BY DEF FilesInv, UnchangedButPc, Finish, Documents, Untouched
<1> QED
  BY <1>1, <1>2 DEF FilesInv, Finish, At, DoneMeansWritten, AbandonedChangesNothing, exitOK,
         exitFidelity, exitError

(* A step on the way to the first write. *)
LEMMA Underway ==
  ASSUME FilesInv, pc' \in {"checking", "reading", "translating"},
         pc \in {"checking", "reading", "translating"}, TypeOK',
         UNCHANGED <<flags, holds, wrong, exit>>,
         pc' \in {"checking", "reading"} => doc' = << >> /\ inputs' = << >> /\ results' = << >>,
         (At("translating") /\ Trans /\ flags.source = "inline")'
             => Len(inputs') + Len(results') = 1
  PROVE  FilesInv'
<1>1. exit' = NotYet
  BY DEF FilesInv, TypeOK, At
<1>2. exit' \notin {exitOK, exitFidelity, exitError}
  BY <1>1 DEF NotYet, exitOK, exitFidelity, exitError
<1>3. holds' = Untouched' /\ holds' \in Documents'
  BY DEF FilesInv, Documents, Untouched
<1> QED
  BY <1>2, <1>3 DEF FilesInv, At, DoneMeansWritten, AbandonedChangesNothing

(* The flags are checked, the input read, or a query or a panel translated. *)
LEMMA FilesRead ==
  ASSUME FilesInv, Check \/ ReadQueries \/ ReadDashboard \/ TranslateOne \/ WalkDashboard
  PROVE  FilesInv'
<1>1. CASE Check
  <2>1. TypeOK'
    BY <1>1 DEF Check, FilesInv, TypeOK, UnchangedButPc, dashboardVars, At, Goto
  <2> QED BY <1>1, <2>1, Underway DEF Check, FilesInv, At, Goto, UnchangedButPc, dashboardVars
<1>2. CASE ReadQueries
  <2>1. PICK list \in QueryLists : (flags.source = "inline" => Len(list) = 1) /\ inputs' = list
    BY <1>2 DEF ReadQueries
  <2>2. list \in Seq(Classes) /\ results = << >>
    BY <1>2, QueryListsAssumption DEF FilesInv, ReadQueries, At
  <2>3. TypeOK'
    BY <1>2, <2>1, <2>2 DEF ReadQueries, FilesInv, TypeOK, dashboardVars, At, Goto
  <2>4. flags.source = "inline" => Len(inputs') + Len(results') = 1
    BY <1>2, <2>1, <2>2 DEF ReadQueries
  <2> QED BY <1>2, <2>3, <2>4, Underway DEF ReadQueries, At, Goto
<1>3. CASE ReadDashboard
  <2>1. PICK d \in Dashboards : ReadInto(d)
    BY <1>3 DEF ReadDashboard
  <2>2. d # << >>
    <3>1. 0 \in DOMAIN d
      BY DashboardsAssumption DEF IsTree
    <3>2. \A S : S = << >> => DOMAIN S = {}
      OBVIOUS
    <3> QED BY <3>1, <3>2
  <2>3. TypeOK'
    BY <1>3, <2>1, <2>2 DEF ReadDashboard, ReadInto, FilesInv, TypeOK, At, Goto
  <2> QED BY <1>3, <2>3, Underway DEF ReadDashboard, At, Goto, Trans, Dash
<1>4. CASE TranslateOne
  <2>1. inputs \in Seq(Classes) /\ inputs # << >> /\ results \in Seq(Classes)
    BY <1>4 DEF FilesInv, TypeOK, TranslateOne
  <2>2. /\ inputs' \in Seq(Classes) /\ results' \in Seq(Classes)
        /\ Len(inputs') + Len(results') = Len(inputs) + Len(results)
    BY <1>4, <2>1 DEF TranslateOne
  <2>3. TypeOK'
    BY <1>4, <2>2 DEF TranslateOne, FilesInv, TypeOK, dashboardVars, At
  <2> QED BY <1>4, <2>2, <2>3, Underway DEF TranslateOne, FilesInv, At, Trans
<1>5. CASE WalkDashboard
  <2>1. doc' = doc /\ DOMAIN expr' = DOMAIN expr
    BY <1>5 DEF WalkDashboard, Walk, WalkPanel, SkipTarget, FailTarget, TranslateTarget
  <2>2. TypeOK'
    BY <1>5, <2>1 DEF WalkDashboard, FilesInv, TypeOK, At
  <2> QED BY <1>5, <2>2, Underway DEF WalkDashboard, At, Trans, Dash
<1> QED BY <1>1, <1>2, <1>3, <1>4, <1>5

(* The command ends with a code, having written or failed to write. *)
LEMMA Ended ==
  ASSUME FilesInv, NEW code \in {exitOK, exitFidelity, exitError, Killed}, Finish(code),
         ~At("exited"),
         UNCHANGED <<flags, inputs, results, closed, dashboardVars>>,
         holds' \in Documents, wrong' \subseteq Destination,
         DoneMeansWritten', AbandonedChangesNothing'
  PROVE  FilesInv'
<1>1. TypeOK'
  BY DEF FilesInv, TypeOK, Finish, At, dashboardVars, Documents, exitOK, exitFidelity, exitError,
         Killed, NotYet
<1> QED BY <1>1 DEF FilesInv, Finish, At, Documents

(* A write that failed ends the command, and is the reason it gives. *)
LEMMA EndedBadly ==
  ASSUME FilesInv, Finish(exitError), ~At("exited"),
         UNCHANGED <<flags, inputs, results, closed, dashboardVars>>,
         NEW d \in Destination, NotOpened(d) \/ WroteInPart(d)
  PROVE  FilesInv'
<1>1. holds' \in Documents /\ wrong' \subseteq Destination /\ wrong' # {}
  BY Writing DEF NotOpened, WroteInPart, FilesInv, TypeOK, Document
<1>2. exit' = exitError
  BY DEF Finish
<1> QED BY <1>1, <1>2, Ended, Codes DEF DoneMeansWritten, AbandonedChangesNothing

(* The results of translate are written, or not. *)
LEMMA FilesRender == FilesInv /\ RenderResults => FilesInv'
<1> SUFFICES ASSUME FilesInv, RenderResults PROVE FilesInv'
  OBVIOUS
<1>1. /\ Trans /\ ~Dash /\ ~At("exited") /\ inputs = << >>
      /\ wrong = {} /\ holds \in Documents /\ flags.output \in Destination
      /\ UNCHANGED <<flags, inputs, results, closed, dashboardVars>>
  BY Named DEF FilesInv, TypeOK, RenderResults, TranslatedAll, At, Trans, Dash
<1>2. worst \in {exitOK, exitFidelity, exitError}
      /\ (worst = exitError => flags.source # "inline" /\ \E i \in DOMAIN results : ~Translates(results[i]))
  <2>1. flags.source = "inline" => DOMAIN results = {1}
    <3>1. At("translating") /\ results \in Seq(Classes)
      BY DEF RenderResults, TranslatedAll, FilesInv, TypeOK
    <3>2. flags.source = "inline" => Len(results) = 1
      BY <1>1, <3>1 DEF FilesInv
    <3> QED BY <3>1, <3>2
  <2>2. flags.source = "inline" => Translates(results[1])
    BY DEF RenderResults, SingleError
  <2> QED BY <2>1, <2>2, WorstIsOne
<1>3. CASE Wrote(flags.output, "results") /\ Finish(worst)
  <2>1. holds' \in Documents /\ wrong' = {}
        /\ \E i \in DOMAIN holds'[flags.output] : holds'[flags.output][i] = "results"
    BY <1>1, <1>3, Writing DEF Wrote, Document
  <2>2. DoneMeansWritten'
    BY <1>1, <2>1 DEF DoneMeansWritten, WholeAt, Main, Dash
  <2>3. AbandonedChangesNothing'
    BY <1>1, <1>2, <1>3, Codes DEF AbandonedChangesNothing, Finish, Trans
  <2> QED BY <1>1, <1>2, <1>3, <2>1, <2>2, <2>3, Ended
<1>4. CASE NotOpened(flags.output) /\ Finish(exitError)
  BY <1>1, <1>4, EndedBadly
<1>5. CASE WroteInPart(flags.output) /\ Finish(IF flags.format = "json" THEN exitError ELSE worst)
  <2>1. holds' \in Documents /\ wrong' \subseteq Destination /\ wrong' # {}
    BY <1>1, <1>5, Writing DEF WroteInPart, Document
  <2>2. DoneMeansWritten'
    BY <1>1, <1>5, <2>1, Codes, Named DEF DoneMeansWritten, Finish, TextCut, Dash, FilesInv, TypeOK
  <2>3. AbandonedChangesNothing'
    BY <2>1 DEF AbandonedChangesNothing
  <2> QED BY <1>1, <1>2, <1>5, <2>1, <2>2, <2>3, Ended
<1>6. CASE LostInClosing(flags.output) /\ Finish(worst)
  <2>1. /\ holds' \in Documents /\ wrong' \subseteq Destination /\ wrong' # {}
        /\ \E i \in DOMAIN holds'[flags.output] : holds'[flags.output][i] = "unclosed"
    BY <1>1, <1>6, Writing DEF LostInClosing, Document
  <2>2. DoneMeansWritten'
    BY <1>1, <2>1 DEF DoneMeansWritten, WholeAt, Unclosed, Trans, Dash
  <2>3. AbandonedChangesNothing'
    BY <2>1 DEF AbandonedChangesNothing
  <2> QED BY <1>1, <1>2, <1>6, <2>1, <2>2, <2>3, Ended
<1> QED BY <1>3, <1>4, <1>5, <1>6 DEF RenderResults

(* The dashboard is written, or not. *)
LEMMA FilesWrite == FilesInv /\ WriteDashboard => FilesInv'
<1> SUFFICES ASSUME FilesInv, WriteDashboard PROVE FilesInv'
  OBVIOUS
<1>1. /\ Dash /\ ~Trans /\ ~At("exited") /\ exit = NotYet
      /\ wrong = {} /\ holds \in Documents /\ flags.output \in Destination
      /\ UNCHANGED <<flags, inputs, results, closed, dashboardVars>>
  BY Named DEF FilesInv, TypeOK, WriteDashboard, WalkedAll, At, Trans, Dash
<1>2. CASE Wrote(flags.output, "dashboard") /\ Goto("reporting") /\ UNCHANGED exit
  <2>1. holds' \in Documents /\ wrong' = {}
        /\ \E i \in DOMAIN holds'[flags.output] : holds'[flags.output][i] = "dashboard"
    BY <1>1, <1>2, Writing DEF Wrote, Document
  <2>2. TypeOK'
    BY <1>1, <1>2, <2>1 DEF FilesInv, TypeOK, Goto, At, dashboardVars, Documents
  <2>3. exit' \notin {exitOK, exitFidelity, exitError}
    BY <1>1, <1>2, Codes
  <2> QED
    BY <1>1, <1>2, <2>1, <2>2, <2>3 DEF FilesInv, Goto, At, DoneMeansWritten,
       AbandonedChangesNothing, WholeAt, Dash, Trans, Documents
<1> QED BY <1>1, <1>2, EndedBadly DEF WriteDashboard

(* The report is written, or not: the dashboard has been. *)
LEMMA FilesReport == FilesInv /\ WriteReport => FilesInv'
<1> SUFFICES ASSUME FilesInv, WriteReport PROVE FilesInv'
  OBVIOUS
<1>1. /\ Dash /\ ~Trans /\ ~At("exited")
      /\ wrong = {} /\ holds \in Documents
      /\ flags.output \in Destination /\ flags.report \in Destination
      /\ WholeAt(flags.output, "dashboard")
      /\ UNCHANGED <<flags, inputs, results, closed, dashboardVars>>
  BY Named DEF FilesInv, TypeOK, WriteReport, At, Trans, Dash
<1>2. outcome \in {exitOK, exitFidelity}
  BY DEF outcome
<1>3. CASE Wrote(flags.report, "report") /\ Finish(outcome)
  <2>1. /\ holds' \in Documents /\ wrong' = {}
        /\ \E i \in DOMAIN holds'[flags.report] : holds'[flags.report][i] = "report"
        /\ ~(flags.output = flags.report /\ IsFile(flags.output)) =>
              \E i \in DOMAIN holds'[flags.output] : holds'[flags.output][i] = "dashboard"
    <3>1. Wrote(flags.report, "report") /\ "report" \in Document
      BY <1>3 DEF Document
    <3>2. \E i \in DOMAIN holds[flags.output] : holds[flags.output][i] = "dashboard"
      BY <1>1 DEF WholeAt
    <3>3. /\ holds' \in Documents
          /\ \E i \in DOMAIN holds'[flags.report] : holds'[flags.report][i] = "report"
          /\ \A e \in Destination : \A text :
                (\E i \in DOMAIN holds[e] : holds[e][i] = text) /\ ~(e = flags.report /\ IsFile(e))
                   => \E i \in DOMAIN holds'[e] : holds'[e][i] = text
      <4>1. holds \in Documents /\ flags.report \in Destination
        BY <1>1
      <4> QED BY <3>1, <4>1, Writing
    <3>4. ~(flags.output = flags.report /\ IsFile(flags.output)) =>
             \E i \in DOMAIN holds'[flags.output] : holds'[flags.output][i] = "dashboard"
      BY <1>1, <3>2, <3>3
    <3>5. wrong' = {}
      BY <1>1, <3>1 DEF Wrote
    <3> QED BY <3>3, <3>4, <3>5
  <2>2. DoneMeansWritten'
    BY <1>1, <2>1 DEF DoneMeansWritten, WholeAt, Main, Dash, ReportedOver, IsFile
  <2>3. AbandonedChangesNothing'
    BY <1>2, <1>3, Codes DEF AbandonedChangesNothing, Finish
  <2> QED BY <1>1, <1>2, <1>3, <2>1, <2>2, <2>3, Ended
<1>4. CASE NotOpened(flags.report) /\ Finish(exitError)
  BY <1>1, <1>4, EndedBadly
<1>5. CASE WroteInPart(flags.report) /\ Finish(IF flags.format = "json" THEN exitError ELSE outcome)
  <2>1. CASE flags.format = "json"
    BY <1>1, <1>5, <2>1, EndedBadly
  <2>2. CASE flags.format # "json"
    <3>1. holds' \in Documents /\ wrong' \subseteq Destination /\ wrong' # {}
      <4>1. holds \in Documents /\ flags.report \in Destination /\ wrong = {}
        BY <1>1
      <4>2. WroteInPart(flags.report) /\ "part" \in Document
        BY <1>5 DEF Document
      <4>3. holds' \in Documents
        BY <4>1, <4>2, Writing
      <4> QED BY <4>1, <4>2, <4>3 DEF WroteInPart
    <3>2. flags.format = "text"
      BY <2>2, Named DEF FilesInv, TypeOK
    <3>3. DoneMeansWritten' /\ AbandonedChangesNothing'
      BY <1>1, <3>1, <3>2 DEF DoneMeansWritten, AbandonedChangesNothing, TextCut
    <3> QED BY <1>1, <1>2, <1>5, <2>2, <3>1, <3>3, Ended
  <2> QED BY <2>1, <2>2
<1>6. CASE LostInClosing(flags.report) /\ Finish(outcome)
  <2>1. /\ holds' \in Documents /\ wrong' \subseteq Destination /\ wrong' # {}
        /\ \E i \in DOMAIN holds'[flags.report] : holds'[flags.report][i] = "unclosed"
        /\ ~(flags.output = flags.report /\ IsFile(flags.output)) =>
              \E i \in DOMAIN holds'[flags.output] : holds'[flags.output][i] = "dashboard"
    <3>1. LostInClosing(flags.report) /\ "unclosed" \in Document
      BY <1>6 DEF Document
    <3>2. \E i \in DOMAIN holds[flags.output] : holds[flags.output][i] = "dashboard"
      BY <1>1 DEF WholeAt
    <3>3. /\ holds' \in Documents
          /\ \E i \in DOMAIN holds'[flags.report] : holds'[flags.report][i] = "unclosed"
          /\ \A e \in Destination : \A text :
                (\E i \in DOMAIN holds[e] : holds[e][i] = text) /\ ~(e = flags.report /\ IsFile(e))
                   => \E i \in DOMAIN holds'[e] : holds'[e][i] = text
      <4>1. holds \in Documents /\ flags.report \in Destination
        BY <1>1
      <4> QED BY <3>1, <4>1, Writing
    <3>4. ~(flags.output = flags.report /\ IsFile(flags.output)) =>
             \E i \in DOMAIN holds'[flags.output] : holds'[flags.output][i] = "dashboard"
      BY <1>1, <3>2, <3>3
    <3>5. wrong' \subseteq Destination /\ wrong' # {}
      BY <1>1, <3>1 DEF LostInClosing
    <3> QED BY <3>3, <3>4, <3>5
  <2>2. DoneMeansWritten'
    BY <1>1, <2>1 DEF DoneMeansWritten, WholeAt, Unclosed, Main, Dash, ReportedOver, IsFile
  <2>3. AbandonedChangesNothing'
    BY <2>1 DEF AbandonedChangesNothing
  <2> QED BY <1>1, <1>2, <1>6, <2>1, <2>2, <2>3, Ended
<1> QED BY <1>3, <1>4, <1>5, <1>6 DEF WriteReport

(* A killed command says nothing. *)
LEMMA FilesKill == FilesInv /\ Kill => FilesInv'
<1> SUFFICES ASSUME FilesInv, Kill PROVE FilesInv'
  OBVIOUS
<1>1. /\ ~At("exited") /\ Finish(Killed)
      /\ UNCHANGED <<flags, inputs, results, closed, dashboardVars>>
      /\ flags.output \in Destination /\ flags.report \in Destination
      /\ holds \in Documents /\ wrong \subseteq Destination
  BY Named DEF Kill, FilesInv, TypeOK
<1>2. holds' \in Documents /\ wrong' \subseteq Destination
  BY <1>1, Writing DEF Kill, WroteInPart, Document
<1>3. DoneMeansWritten' /\ AbandonedChangesNothing'
  BY <1>1, Codes DEF Finish, DoneMeansWritten, AbandonedChangesNothing
<1> QED BY <1>1, <1>2, <1>3, Ended

(* The pipe's end, and steps that change nothing. *)
LEMMA FilesKept ==
  ASSUME FilesInv,
         UNCHANGED <<flags, pc, inputs, results, holds, wrong, exit, dashboardVars>>,
         closed' \in BOOLEAN
  PROVE  FilesInv'
<1>1. TypeOK'
  BY DEF FilesInv, TypeOK, At, dashboardVars
<1>2. DoneMeansWritten'
  BY DEF FilesInv, DoneMeansWritten, WholeAt, Unclosed, Main, Dash, Trans, TextCut, ReportedOver,
         IsFile
<1>3. AbandonedChangesNothing'
  BY DEF FilesInv, AbandonedChangesNothing, Trans
<1> QED
  BY <1>1, <1>2, <1>3 DEF FilesInv, dashboardVars, At, Trans, Dash, WholeAt, Documents, Untouched

(* Every step keeps the invariant: one case per action. *)
LEMMA FilesNext == FilesInv /\ [Next]_vars => FilesInv'
<1> SUFFICES ASSUME FilesInv, [Next]_vars PROVE FilesInv'
  OBVIOUS
<1>1. CASE Refuse
  BY <1>1, GivingUp DEF Refuse, At
<1>2. CASE FailToRead
  BY <1>2, GivingUp DEF FailToRead, At
<1>3. CASE RefuseSingle
  BY <1>3, GivingUp DEF RefuseSingle, TranslatedAll, At
<1>4. CASE RefuseFailures
  BY <1>4, GivingUp DEF RefuseFailures, WalkedAll, At
<1>5. CASE Close
  BY <1>5, FilesKept DEF Close
<1>6. CASE UNCHANGED vars
  BY <1>6, FilesKept DEF vars, FilesInv, TypeOK
<1>7. CASE Exited
  BY <1>6, <1>7 DEF Exited
<1> QED
  BY <1>1, <1>2, <1>3, <1>4, <1>5, <1>6, <1>7, FilesRead, FilesRender, FilesWrite, FilesReport,
     FilesKill DEF Next, Run

(* So it holds throughout. *)
LEMMA Files == Spec => []FilesInv
  BY FilesInit, FilesNext, PTL DEF Spec

(* The commands' variables keep their types (translate.go and dashboard.go    *)
(* run).                                                                      *)
THEOREM CommandsTyped == Spec => []TypeOK
<1>1. FilesInv => TypeOK
  BY DEF FilesInv
<1> QED BY <1>1, Files, PTL

(* A command that reports success or loss has written all it was asked to     *)
(* write, but for the three cases DoneMeansWritten names (translate.go run,   *)
(* dashboard.go run, writeDashboard, writeReport).                            *)
THEOREM SuccessIsWritten == Spec => []DoneMeansWritten
<1>1. FilesInv => DoneMeansWritten
  BY DEF FilesInv
<1> QED BY <1>1, Files, PTL

(* A command that gives up, for anything but a failed write, has touched no   *)
(* file (translate.go run, dashboard.go run).                                 *)
THEOREM GivingUpChangesNothing == Spec => []AbandonedChangesNothing
<1>1. FilesInv => AbandonedChangesNothing
  BY DEF FilesInv
<1> QED BY <1>1, Files, PTL

-----------------------------------------------------------------------------
(* The walk over a dashboard.                                                 *)

Items(d) == {PanelItem(p) : p \in DOMAIN d} \cup TargetsOf(d)
Reported == [at : TargetsOf(doc), original : Classes \cup {""}, failed : BOOLEAN,
             cost : {NoCost} \cup {Translation[c] : c \in DOMAIN Translation}]

Ahead == Range(toWalk)

(* What PanelsKeepTheirs says of one target. *)
Kept(x) ==
    LET original == Original(doc, x) IN
    IF Blank(original) THEN ReportFor(x) = {} /\ expr[x] = original
    ELSE \E i \in ReportFor(x) :
            /\ ReportFor(x) = {i} /\ reports[i].original = original
            /\ reports[i].failed <=> ~Translates(original)
            /\ expr[x] = IF reports[i].failed THEN original ELSE reports[i].cost.query

Untold(x) == ReportFor(x) = {} /\ expr[x] = Original(doc, x)

(* Where the walk has come to, when it has been to the panels in seen: what   *)
(* is within them is seen or ahead, their targets are ahead or done with, and *)
(* nothing else has been touched.                                             *)
Within(q) == Range(doc[q].panels)
WalkedBy(seen) ==
    /\ 0 \in seen \/ PanelItem(0) \in Ahead
    /\ \A p \in seen : PanelItem(p) \notin Ahead
    /\ \A p \in seen : \A q \in Within(p) : q \in seen \/ PanelItem(q) \in Ahead
    /\ \A p \in DOMAIN doc :
          p \in seen \/ PanelItem(p) \in Ahead => p = 0 \/ \E q \in seen : p \in Within(q)
    /\ \A x \in TargetsOf(doc) :
          /\ x \in Ahead => x.panel \in seen
          /\ x \in Ahead \/ x.panel \notin seen => Untold(x)
          /\ x.panel \in seen /\ x \notin Ahead => Kept(x)

Walking ==
    /\ toWalk \in Seq(Items(doc)) /\ IsInjective(toWalk)
    /\ reports \in Seq(Reported)
    /\ DOMAIN expr = TargetsOf(doc)
    /\ \E seen \in SUBSET DOMAIN doc : WalkedBy(seen)

Unread == doc = << >> /\ expr = << >>

WalkInv ==
    /\ Unread \/ (doc \in Dashboards /\ Walking)
    /\ At("translating") /\ Dash => doc \in Dashboards
    /\ Dash /\ WholeAt(flags.output, "dashboard") => Unread \/ Walked

(* The positions of a list. *)
LEMMA Positions ==
  ASSUME NEW S, NEW s \in Seq(S)
  PROVE  Len(s) \in Nat /\ DOMAIN s = 1..Len(s) /\ \A i \in DOMAIN s : s[i] \in S
  OBVIOUS

(* A list given entry by entry. *)
LEMMA Listed ==
  ASSUME NEW S, NEW n \in Nat, NEW s \in [1..n -> S]
  PROVE  s \in Seq(S)
  OBVIOUS

(* What is left of a list when its first entry is taken. *)
LEMMA Rest ==
  ASSUME NEW S, NEW s \in Seq(S), s # << >>, IsInjective(s)
  PROVE  /\ Tail(s) \in Seq(S) /\ IsInjective(Tail(s))
         /\ Head(s) \in Range(s) /\ Range(Tail(s)) = Range(s) \ {Head(s)}
<1>1. Len(s) \in Nat /\ Len(s) > 0 /\ DOMAIN s = 1..Len(s) /\ Head(s) = s[1]
  OBVIOUS
<1>2. /\ Tail(s) \in Seq(S) /\ DOMAIN Tail(s) = 1..(Len(s) - 1)
      /\ \A i \in 1..(Len(s) - 1) : Tail(s)[i] = s[i + 1]
  BY <1>1
<1>3. IsInjective(Tail(s))
  BY <1>1, <1>2 DEF IsInjective
<1>4. Range(Tail(s)) \subseteq Range(s) \ {Head(s)}
  BY <1>1, <1>2 DEF IsInjective, Range
<1>5. Range(s) \ {Head(s)} \subseteq Range(Tail(s))
  <2> SUFFICES ASSUME NEW i \in DOMAIN s, s[i] # Head(s) PROVE s[i] \in Range(Tail(s))
    BY DEF Range
  <2>1. i \in 1..Len(s) /\ i # 1
    BY <1>1
  <2>2. i - 1 \in 1..(Len(s) - 1) /\ (i - 1) + 1 = i
    BY <1>1, <2>1
  <2>3. \A j \in 1..(Len(s) - 1) : j + 1 = i => Tail(s)[j] = s[i]
    BY <1>2
  <2>4. Tail(s)[i - 1] = s[i]
    BY <2>2, <2>3
  <2> QED BY <1>2, <2>2, <2>4 DEF Range
<1>6. Head(s) \in Range(s)
  BY <1>1 DEF Range
<1>7. Range(Tail(s)) = Range(s) \ {Head(s)}
  BY <1>4, <1>5
<1> QED BY <1>2, <1>3, <1>6, <1>7

(* Lists put together that have no entry in common. *)
LEMMA Together ==
  ASSUME NEW S, NEW s \in Seq(S), NEW t \in Seq(S), IsInjective(s), IsInjective(t),
         Range(s) \cap Range(t) = {}
  PROVE  /\ s \o t \in Seq(S) /\ IsInjective(s \o t)
         /\ Range(s \o t) = Range(s) \cup Range(t)
<1>1. /\ s \o t \in Seq(S) /\ DOMAIN (s \o t) = 1..(Len(s) + Len(t))
      /\ \A i \in 1..(Len(s) + Len(t)) :
            (s \o t)[i] = IF i <= Len(s) THEN s[i] ELSE t[i - Len(s)]
      /\ Len(s) \in Nat /\ Len(t) \in Nat /\ DOMAIN s = 1..Len(s) /\ DOMAIN t = 1..Len(t)
  OBVIOUS
<1>2. \A i \in DOMAIN s, j \in DOMAIN t : s[i] # t[j]
  BY DEF Range
<1>3. IsInjective(s \o t)
  <2> SUFFICES ASSUME NEW i \in 1..(Len(s) + Len(t)), NEW j \in 1..(Len(s) + Len(t)),
                      (s \o t)[i] = (s \o t)[j]
               PROVE  i = j
    BY <1>1 DEF IsInjective
  <2>1. CASE i <= Len(s) /\ j <= Len(s)
    BY <1>1, <2>1 DEF IsInjective
  <2>2. CASE i > Len(s) /\ j > Len(s)
    <3>1. i - Len(s) \in DOMAIN t /\ j - Len(s) \in DOMAIN t /\ t[i - Len(s)] = t[j - Len(s)]
      BY <1>1, <2>2
    <3>2. i - Len(s) = j - Len(s)
      BY <3>1 DEF IsInjective
    <3> QED BY <1>1, <3>2
  <2>3. CASE i <= Len(s) /\ j > Len(s)
    <3>1. i \in DOMAIN s /\ j - Len(s) \in DOMAIN t /\ s[i] = t[j - Len(s)]
      BY <1>1, <2>3
    <3> QED BY <1>2, <3>1
  <2>4. CASE i > Len(s) /\ j <= Len(s)
    <3>1. j \in DOMAIN s /\ i - Len(s) \in DOMAIN t /\ s[j] = t[i - Len(s)]
      BY <1>1, <2>4
    <3> QED BY <1>2, <3>1
  <2> QED BY <1>1, <2>1, <2>2, <2>3, <2>4
<1>4. Range(s \o t) \subseteq Range(s) \cup Range(t)
  BY <1>1 DEF Range
<1>5. Range(s) \subseteq Range(s \o t)
  BY <1>1 DEF Range
<1>6. Range(t) \subseteq Range(s \o t)
  <2> SUFFICES ASSUME NEW j \in DOMAIN t PROVE t[j] \in Range(s \o t)
    BY DEF Range
  <2>1. Len(s) + j \in 1..(Len(s) + Len(t)) /\ (s \o t)[Len(s) + j] = t[j]
    BY <1>1
  <2> QED BY <1>1, <2>1 DEF Range
<1> QED BY <1>1, <1>3, <1>4, <1>5, <1>6

(* Panels and targets are told apart. *)
LEMMA ItemKinds ==
  ASSUME doc \in Dashboards
  PROVE  /\ \A p \in DOMAIN doc :
               /\ PanelItem(p) \in Items(doc) \ TargetsOf(doc)
               /\ IsPanel(PanelItem(p)) /\ PanelItem(p).panel = p
         /\ \A x \in TargetsOf(doc) : x \in Items(doc) /\ ~IsPanel(x) /\ x.panel \in DOMAIN doc
         /\ \A y \in Items(doc) :
               /\ IsPanel(y) => y.panel \in DOMAIN doc /\ y = PanelItem(y.panel)
               /\ ~IsPanel(y) => y \in TargetsOf(doc)
<1>1. \A p \in DOMAIN doc : IsPanel(PanelItem(p)) /\ PanelItem(p).panel = p
  BY DEF IsPanel, PanelItem
<1>2. \A x \in TargetsOf(doc) : ~IsPanel(x) /\ x.panel \in DOMAIN doc
  <2> SUFFICES ASSUME NEW p \in DOMAIN doc, NEW j \in DOMAIN doc[p].targets
               PROVE  ~IsPanel(TargetItem(p, j)) /\ TargetItem(p, j).panel = p
    BY DEF TargetsOf
  <2>1. doc[p].targets \in Seq(Classes \cup {""})
    BY DashboardsAssumption DEF IsTree
  <2>2. j \in 1..Len(doc[p].targets) /\ Len(doc[p].targets) \in Nat
    BY <2>1, Positions
  <2> QED BY <2>2 DEF IsPanel, TargetItem
<1> QED BY <1>1, <1>2 DEF Items

(* What a panel holds, once listed. *)
LEMMA Inside ==
  ASSUME doc \in Dashboards, NEW p \in DOMAIN doc
  PROVE  /\ TargetItems(p) \in Seq(Items(doc)) /\ IsInjective(TargetItems(p))
         /\ Range(TargetItems(p)) = {x \in TargetsOf(doc) : x.panel = p}
         /\ PanelItems(doc[p].panels) \in Seq(Items(doc))
         /\ IsInjective(PanelItems(doc[p].panels))
         /\ Range(PanelItems(doc[p].panels)) = {PanelItem(q) : q \in Within(p)}
         /\ Within(p) \subseteq DOMAIN doc \ {0}
         /\ \A r \in DOMAIN doc : \A q \in Within(p) : q \in Within(r) => p = r
<1>1. /\ doc[p].targets \in Seq(Classes \cup {""}) /\ doc[p].panels \in Seq(DOMAIN doc \ {0})
      /\ \A r \in DOMAIN doc : \A i \in DOMAIN doc[p].panels, j \in DOMAIN doc[r].panels :
             doc[p].panels[i] = doc[r].panels[j] => p = r /\ i = j
  BY DashboardsAssumption DEF IsTree
<1>2. \A q, j : TargetItem(q, j).panel = q /\ TargetItem(q, j).target = j
  BY DEF TargetItem
<1> DEFINE n == Len(doc[p].targets)
           m == Len(doc[p].panels)
<1>3. /\ n \in Nat /\ DOMAIN doc[p].targets = 1..n
      /\ m \in Nat /\ DOMAIN doc[p].panels = 1..m
      /\ \A i \in 1..m : doc[p].panels[i] \in DOMAIN doc \ {0}
  <2>1. n \in Nat /\ DOMAIN doc[p].targets = 1..n
    BY <1>1, Positions
  <2>2. m \in Nat /\ DOMAIN doc[p].panels = 1..m
    BY <1>1, Positions
  <2>3. \A i \in DOMAIN doc[p].panels : doc[p].panels[i] \in DOMAIN doc \ {0}
    BY <1>1, Positions
  <2> QED BY <2>1, <2>2, <2>3
<1> HIDE DEF n, m
<1>4. TargetItems(p) \in [1..n -> Items(doc)] /\ \A j \in 1..n : TargetItems(p)[j] = TargetItem(p, j)
  <2>1. \A j \in DOMAIN doc[p].targets : TargetItem(p, j) \in Items(doc)
    BY DEF TargetsOf, Items
  <2>2. TargetItems(p) = [j \in 1..n |-> TargetItem(p, j)]
    BY <1>3 DEF TargetItems
  <2> QED BY <1>3, <2>1, <2>2
<1>5. TargetItems(p) \in Seq(Items(doc)) /\ DOMAIN TargetItems(p) = 1..n
  BY <1>3, <1>4, Listed
<1>6. IsInjective(TargetItems(p))
  BY <1>2, <1>4, <1>5 DEF IsInjective
<1>7. Range(TargetItems(p)) = {x \in TargetsOf(doc) : x.panel = p}
  <2>1. Range(TargetItems(p)) = {TargetItem(p, j) : j \in 1..n}
    BY <1>4, <1>5 DEF Range
  <2>2. \A x \in TargetsOf(doc) : x.panel = p => \E j \in 1..n : x = TargetItem(p, j)
    BY <1>2, <1>3 DEF TargetsOf
  <2>3. \A j \in 1..n : TargetItem(p, j) \in TargetsOf(doc) /\ TargetItem(p, j).panel = p
    BY <1>2, <1>3 DEF TargetsOf
  <2> QED BY <2>1, <2>2, <2>3
<1>8. /\ PanelItems(doc[p].panels) \in [1..m -> Items(doc)]
      /\ \A i \in 1..m : PanelItems(doc[p].panels)[i] = PanelItem(doc[p].panels[i])
  <2>1. \A i \in 1..m : PanelItem(doc[p].panels[i]) \in Items(doc)
    BY <1>3 DEF Items
  <2>2. PanelItems(doc[p].panels) = [i \in 1..m |-> PanelItem(doc[p].panels[i])]
    BY <1>3 DEF PanelItems
  <2> QED BY <2>1, <2>2
<1>9. PanelItems(doc[p].panels) \in Seq(Items(doc)) /\ DOMAIN PanelItems(doc[p].panels) = 1..m
  BY <1>3, <1>8, Listed
<1>10. \A q, r : PanelItem(q) = PanelItem(r) => q = r
  BY DEF PanelItem
<1>11. IsInjective(PanelItems(doc[p].panels))
  <2>1. \A i, j \in 1..m : doc[p].panels[i] = doc[p].panels[j] => i = j
    BY <1>1, <1>3
  <2> QED BY <1>8, <1>9, <1>10, <2>1 DEF IsInjective
<1>12. Range(PanelItems(doc[p].panels)) = {PanelItem(q) : q \in Within(p)}
  BY <1>3, <1>8, <1>9 DEF Range, Within
<1>13. Within(p) \subseteq DOMAIN doc \ {0}
  BY <1>3 DEF Within, Range
<1>14. \A r \in DOMAIN doc : \A q \in Within(p) : q \in Within(r) => p = r
  BY <1>1 DEF Within, Range
<1> QED BY <1>5, <1>6, <1>7, <1>9, <1>11, <1>12, <1>13, <1>14

(* The next step of the walk, if there is one. *)
LEMMA NextItem ==
  ASSUME Walking, toWalk # << >>
  PROVE  /\ Here \in Items(doc) /\ Here \in Ahead
         /\ Tail(toWalk) \in Seq(Items(doc)) /\ IsInjective(Tail(toWalk))
         /\ Range(Tail(toWalk)) = Ahead \ {Here}
         /\ Ahead \subseteq Items(doc)
<1>1. toWalk \in Seq(Items(doc)) /\ IsInjective(toWalk)
  BY DEF Walking
<1>2. Ahead \subseteq Items(doc)
  <2>1. \A i \in DOMAIN toWalk : toWalk[i] \in Items(doc)
    BY <1>1, Positions
  <2> QED BY <2>1 DEF Ahead, Range
<1> QED BY <1>1, <1>2, Rest DEF Here, Ahead

(* The walk comes to a panel. *)
LEMMA WalkPanelStep ==
  ASSUME doc \in Dashboards, Walking, WalkPanel
  PROVE  Walking'
<1>0. PICK p : p = Here.panel
  OBVIOUS
<1> DEFINE new == TargetItems(p) \o PanelItems(doc[p].panels)
<1>1. PICK seen \in SUBSET DOMAIN doc : WalkedBy(seen)
  BY DEF Walking
<1>2. /\ toWalk # << >> /\ IsPanel(Here)
      /\ toWalk' = new \o Tail(toWalk)
      /\ doc' = doc /\ expr' = expr /\ reports' = reports
  <2>1. /\ TargetItems(p) \in Seq(Items(doc)) /\ PanelItems(doc[p].panels) \in Seq(Items(doc))
        /\ Tail(toWalk) \in Seq(Items(doc))
    BY <1>0, NextItem, ItemKinds, Inside DEF WalkPanel, AtPanel, Here
  <2>2. toWalk' = TargetItems(p) \o PanelItems(doc[p].panels) \o Tail(toWalk)
    BY <1>0 DEF WalkPanel
  <2>3. toWalk' = new \o Tail(toWalk)
    BY <2>2
  <2> QED BY <2>3 DEF WalkPanel, AtPanel, Here
<1>3. p \in DOMAIN doc /\ Here = PanelItem(p) /\ PanelItem(p) \in Ahead /\ p \notin seen
  BY <1>0, <1>1, <1>2, NextItem, ItemKinds DEF WalkedBy
<1> DEFINE targets == {x \in TargetsOf(doc) : x.panel = p}
           panels == {PanelItem(q) : q \in Within(p)}
<1>4. /\ \A x \in targets : x \notin Ahead
      /\ \A q \in Within(p) : q \notin seen /\ PanelItem(q) \notin Ahead /\ q # p
  <2>1. \A x \in targets : x \notin Ahead
    BY <1>1, <1>3 DEF WalkedBy
  <2>2. \A q \in Within(p) : q \in DOMAIN doc /\ q # 0 /\ \A r \in seen : q \notin Within(r)
    BY <1>3, Inside
  <2>3. \A q \in Within(p) : q \notin seen /\ PanelItem(q) \notin Ahead
    BY <1>1, <2>2 DEF WalkedBy
  <2> QED BY <1>3, <2>1, <2>3
<1>5. new \in Seq(Items(doc)) /\ IsInjective(new) /\ Range(new) = targets \cup panels
  <2>1. /\ TargetItems(p) \in Seq(Items(doc)) /\ IsInjective(TargetItems(p))
        /\ Range(TargetItems(p)) = targets
        /\ PanelItems(doc[p].panels) \in Seq(Items(doc))
        /\ IsInjective(PanelItems(doc[p].panels))
        /\ Range(PanelItems(doc[p].panels)) = panels
    BY <1>3, Inside
  <2>2. targets \cap panels = {}
    BY <1>3, ItemKinds, Inside
  <2> QED BY <2>1, <2>2, Together
<1>6. /\ toWalk' \in Seq(Items(doc)) /\ IsInjective(toWalk')
      /\ Range(toWalk') = targets \cup panels \cup (Ahead \ {PanelItem(p)})
  <2>1. /\ Tail(toWalk) \in Seq(Items(doc)) /\ IsInjective(Tail(toWalk))
        /\ Range(Tail(toWalk)) = Ahead \ {PanelItem(p)}
    BY <1>2, <1>3, NextItem
  <2>2. Range(new) \cap Range(Tail(toWalk)) = {}
    BY <1>4, <1>5, <2>1
  <2>3. new \in Seq(Items(doc)) /\ IsInjective(new)
    BY <1>5
  <2> HIDE DEF new
  <2>4. /\ new \o Tail(toWalk) \in Seq(Items(doc)) /\ IsInjective(new \o Tail(toWalk))
        /\ Range(new \o Tail(toWalk)) = Range(new) \cup Range(Tail(toWalk))
    <3> DEFINE later == Tail(toWalk)
    <3>1. later \in Seq(Items(doc)) /\ IsInjective(later) /\ Range(new) \cap Range(later) = {}
      BY <2>1, <2>2
    <3> HIDE DEF later
    <3>2. /\ new \o later \in Seq(Items(doc)) /\ IsInjective(new \o later)
          /\ Range(new \o later) = Range(new) \cup Range(later)
      BY <2>3, <3>1, Together
    <3> QED BY <3>2 DEF later
  <2> HIDE DEF targets, panels
  <2> QED BY <1>2, <1>5, <2>1, <2>4
<1>7. Ahead' = targets \cup panels \cup (Ahead \ {PanelItem(p)})
  BY <1>6 DEF Ahead
<1>8. WalkedBy(seen \cup {p})'
  <2>1. \A q \in DOMAIN doc :
           PanelItem(q) \in Ahead' <=> q \in Within(p) \/ (PanelItem(q) \in Ahead /\ q # p)
    <3>1. \A q \in DOMAIN doc : PanelItem(q) \notin targets
      BY ItemKinds
    <3>2. \A q, r : PanelItem(q) = PanelItem(r) => q = r
      BY DEF PanelItem
    <3> QED BY <1>3, <1>7, <3>1, <3>2
  <2>2. \A x \in TargetsOf(doc) : x \in Ahead' <=> x.panel = p \/ x \in Ahead
    <3>1. \A x \in TargetsOf(doc) : x \notin panels /\ x # PanelItem(p)
      BY <1>3, ItemKinds, Inside
    <3> QED BY <1>7, <3>1
  <2>3. 0 \in DOMAIN doc
    BY DashboardsAssumption DEF IsTree
  <2>4. \A q \in DOMAIN doc : Within(q) \subseteq DOMAIN doc
    BY Inside
  <2>5. 0 \in seen \cup {p} \/ PanelItem(0) \in Ahead'
    BY <1>1, <2>1, <2>3 DEF WalkedBy
  <2>6. \A q \in seen \cup {p} : PanelItem(q) \notin Ahead'
    BY <1>1, <1>3, <1>4, <2>1 DEF WalkedBy
  <2>7. \A r \in seen \cup {p} : \A q \in Within(r) : q \in seen \cup {p} \/ PanelItem(q) \in Ahead'
    BY <1>1, <1>3, <2>1, <2>4 DEF WalkedBy
  <2>8. \A q \in DOMAIN doc :
           q \in seen \cup {p} \/ PanelItem(q) \in Ahead'
              => q = 0 \/ \E r \in seen \cup {p} : q \in Within(r)
    BY <1>1, <1>3, <2>1 DEF WalkedBy
  <2>9. \A x \in TargetsOf(doc) :
           /\ x \in Ahead' => x.panel \in seen \cup {p}
           /\ x \in Ahead' \/ x.panel \notin seen \cup {p} => Untold(x)
           /\ x.panel \in seen \cup {p} /\ x \notin Ahead' => Kept(x)
    BY <1>1, <1>3, <2>2 DEF WalkedBy
  <2>10. \A x : (Untold(x)' <=> Untold(x)) /\ (Kept(x)' <=> Kept(x))
    BY <1>2 DEF Untold, Kept, ReportFor
  <2>11. \A q : Within(q)' = Within(q)
    BY <1>2 DEF Within
  <2> QED BY <1>2, <2>5, <2>6, <2>7, <2>8, <2>9, <2>10, <2>11 DEF WalkedBy
<1> QED BY <1>1, <1>2, <1>3, <1>6, <1>8 DEF Walking, Reported

(* The walk is done with a target, whatever it made of it, if it changed      *)
(* nothing else.                                                              *)
LEMMA TargetDone ==
  ASSUME doc \in Dashboards, Walking, AtTarget, toWalk' = Tail(toWalk), doc' = doc,
         reports' \in Seq(Reported), DOMAIN expr' = DOMAIN expr,
         NEW here, here = Here,
         Untold(here) => Kept(here)',
         \A x \in TargetsOf(doc) :
            x # here => (Untold(x) => Untold(x)') /\ (Kept(x) => Kept(x)')
  PROVE  Walking'
<1>1. PICK seen \in SUBSET DOMAIN doc : WalkedBy(seen)
  BY DEF Walking
<1>2. toWalk # << >> /\ here \in TargetsOf(doc) /\ here \in Ahead
  BY NextItem, ItemKinds DEF AtTarget, Here
<1>3. /\ toWalk' \in Seq(Items(doc)) /\ IsInjective(toWalk') /\ Ahead' = Ahead \ {here}
  BY <1>2, NextItem DEF Ahead
<1>4. WalkedBy(seen)'
  <2>1. \A q \in DOMAIN doc : PanelItem(q) \in Ahead' <=> PanelItem(q) \in Ahead
    BY <1>2, <1>3, ItemKinds
  <2>2. \A q \in DOMAIN doc : Within(q)' = Within(q) /\ Within(q) \subseteq DOMAIN doc
    BY Inside DEF Within
  <2>3. 0 \in DOMAIN doc
    BY DashboardsAssumption DEF IsTree
  <2>4. /\ 0 \in seen \/ PanelItem(0) \in Ahead'
        /\ \A q \in seen : PanelItem(q) \notin Ahead'
        /\ \A r \in seen : \A q \in Within(r) : q \in seen \/ PanelItem(q) \in Ahead'
        /\ \A q \in DOMAIN doc :
              q \in seen \/ PanelItem(q) \in Ahead' => q = 0 \/ \E r \in seen : q \in Within(r)
    BY <1>1, <2>1, <2>2, <2>3 DEF WalkedBy
  <2>5. Untold(here) /\ here.panel \in seen
    BY <1>1, <1>2 DEF WalkedBy
  <2>6. \A x \in TargetsOf(doc) :
           /\ x \in Ahead' => x.panel \in seen
           /\ x \in Ahead' \/ x.panel \notin seen => Untold(x)'
           /\ x.panel \in seen /\ x \notin Ahead' => Kept(x)'
    BY <1>1, <1>2, <1>3, <2>5 DEF WalkedBy
  <2> QED BY <2>2, <2>4, <2>6 DEF WalkedBy
<1>5. toWalk' \in Seq(Items(doc')) /\ reports' \in Seq(Reported') /\ DOMAIN expr' = TargetsOf(doc')
  BY <1>3 DEF Walking, Reported
<1> QED BY <1>1, <1>3, <1>4, <1>5 DEF Walking

(* Nothing is done about a blank target. *)
LEMMA SkipTargetStep ==
  ASSUME doc \in Dashboards, Walking, SkipTarget
  PROVE  Walking'
<1>1. PICK here : here = Here
  OBVIOUS
<1>2. \A x : (Untold(x)' <=> Untold(x)) /\ (Kept(x)' <=> Kept(x))
  BY DEF SkipTarget, Untold, Kept, ReportFor
<1>3. Untold(here) => Kept(here)
  BY <1>1 DEF SkipTarget, Untold, Kept
<1>4. reports' \in Seq(Reported) /\ DOMAIN expr' = DOMAIN expr
  BY DEF SkipTarget, Walking
<1> QED BY <1>1, <1>2, <1>3, <1>4, TargetDone DEF SkipTarget

(* One report more, of the target the walk has come to. *)
LEMMA ReportStep ==
  ASSUME doc \in Dashboards, Walking, AtTarget, ~Blank(expr[Here]),
         toWalk' = Tail(toWalk), doc' = doc,
         NEW failed \in BOOLEAN, failed <=> ~Translates(expr[Here]),
         NEW cost, cost = IF failed THEN NoCost ELSE Translation[expr[Here]],
         reports' = Append(reports, Report(Here, failed, cost)),
         expr' = IF failed THEN expr ELSE [expr EXCEPT ![Here] = cost.query]
  PROVE  Walking'
<1>1. PICK here : here = Here
  OBVIOUS
<1>2. here \in TargetsOf(doc) /\ toWalk # << >>
  BY <1>1, NextItem, ItemKinds DEF AtTarget, Here
<1>3. Untold(here)
  <2>1. PICK seen \in SUBSET DOMAIN doc : WalkedBy(seen)
    BY DEF Walking
  <2> QED BY <1>1, <1>2, <2>1, NextItem DEF WalkedBy
<1>4. expr[here] \in Classes \cup {""} /\ expr[here] = Original(doc, here)
  <2>1. PICK p \in DOMAIN doc : \E j \in DOMAIN doc[p].targets : here = TargetItem(p, j)
    BY <1>2 DEF TargetsOf
  <2>2. PICK j \in DOMAIN doc[p].targets : here = TargetItem(p, j)
    BY <2>1
  <2>3. doc[p].targets \in Seq(Classes \cup {""})
    BY DashboardsAssumption DEF IsTree
  <2>4. doc[p].targets[j] \in Classes \cup {""}
    BY <2>3, Positions
  <2>5. here.panel = p /\ here.target = j
    BY <2>2 DEF TargetItem
  <2> QED BY <1>3, <2>4, <2>5 DEF Untold, Original
<1> DEFINE r == [at |-> here, original |-> expr[here], failed |-> failed, cost |-> cost]
           n == Len(reports) + 1
<1>5. /\ reports \in Seq(Reported) /\ r \in Reported
      /\ reports' = Append(reports, r)
  <2>1. cost \in {NoCost} \cup {Translation[c] : c \in DOMAIN Translation}
    BY <1>1 DEF Translates
  <2>2. r \in Reported
    BY <1>2, <1>4, <2>1 DEF Reported
  <2> QED BY <1>1, <2>2 DEF Walking, Report
<1>6. /\ reports' \in Seq(Reported) /\ DOMAIN reports' = DOMAIN reports \cup {n}
      /\ n \notin DOMAIN reports /\ reports'[n] = r
      /\ \A i \in DOMAIN reports : reports'[i] = reports[i]
  <2> HIDE DEF r
  <2>1. Len(reports) \in Nat /\ DOMAIN reports = 1..Len(reports)
    BY <1>5, Positions
  <2> QED BY <1>5, <2>1
<1>7. DOMAIN expr' = DOMAIN expr /\ \A x \in TargetsOf(doc) : x # here => expr'[x] = expr[x]
  BY <1>1
<1>8. \A x \in TargetsOf(doc) : x # here => ReportFor(x)' = ReportFor(x)
  BY <1>6 DEF ReportFor
<1>9. \A x \in TargetsOf(doc) :
          x # here => (Untold(x) => Untold(x)') /\ (Kept(x) => Kept(x)')
  <2> SUFFICES ASSUME NEW x \in TargetsOf(doc), x # here
               PROVE  (Untold(x) => Untold(x)') /\ (Kept(x) => Kept(x)')
    OBVIOUS
  <2>1. /\ ReportFor(x)' = ReportFor(x) /\ expr'[x] = expr[x]
        /\ \A i \in ReportFor(x) : reports'[i] = reports[i]
    BY <1>6, <1>7, <1>8 DEF ReportFor
  <2> QED BY <2>1 DEF Untold, Kept
<1>10. Kept(here)'
  <2>1. ReportFor(here) = {}
    BY <1>3 DEF Untold
  <2>2. ReportFor(here)' = {n}
    BY <1>6, <2>1 DEF ReportFor
  <2>3. expr'[here] = IF failed THEN expr[here] ELSE cost.query
    <3>1. here \in DOMAIN expr
      BY <1>2 DEF Walking
    <3> QED BY <1>1, <3>1
  <2>4. /\ reports'[n].original = expr[here] /\ reports'[n].failed = failed
        /\ reports'[n].cost = cost
    BY <1>6
  <2>5. Original(doc, here)' = expr[here] /\ ~Blank(expr[here])
    BY <1>1, <1>4 DEF Original
  <2> HIDE DEF n, r
  <2> QED BY <1>1, <2>2, <2>3, <2>4, <2>5 DEF Kept
<1> QED BY <1>1, <1>6, <1>7, <1>9, <1>10, TargetDone

(* A step of the walk, whichever. *)
LEMMA WalkStep ==
  ASSUME doc \in Dashboards, Walking, Walk
  PROVE  Walking'
<1>1. CASE WalkPanel
  BY <1>1, WalkPanelStep
<1>2. CASE SkipTarget
  BY <1>2, SkipTargetStep
<1>3. CASE FailTarget
  <2>1. /\ AtTarget /\ ~Blank(expr[Here]) /\ toWalk' = Tail(toWalk) /\ doc' = doc
        /\ TRUE <=> ~Translates(expr[Here])
        /\ NoCost = (IF TRUE THEN NoCost ELSE Translation[expr[Here]])
        /\ reports' = Append(reports, Report(Here, TRUE, NoCost))
        /\ expr' = (IF TRUE THEN expr ELSE [expr EXCEPT ![Here] = NoCost.query])
    BY <1>3 DEF FailTarget
  <2> QED BY <2>1, ReportStep
<1>4. CASE TranslateTarget
  <2>1. PICK cost : cost = Translation[expr[Here]]
    OBVIOUS
  <2>2. /\ AtTarget /\ ~Blank(expr[Here]) /\ toWalk' = Tail(toWalk) /\ doc' = doc
        /\ FALSE <=> ~Translates(expr[Here])
        /\ cost = (IF FALSE THEN NoCost ELSE Translation[expr[Here]])
        /\ reports' = Append(reports, Report(Here, FALSE, cost))
        /\ expr' = (IF FALSE THEN expr ELSE [expr EXCEPT ![Here] = cost.query])
    BY <1>4, <2>1 DEF TranslateTarget
  <2> QED BY <2>2, ReportStep
<1> QED BY <1>1, <1>2, <1>3, <1>4 DEF Walk

(* The walk begins at the dashboard itself, with nothing seen. *)
LEMMA WalkBegins ==
  ASSUME NEW d \in Dashboards, ReadInto(d)
  PROVE  doc' \in Dashboards /\ Walking'
<1>1. /\ doc' = d /\ toWalk' = <<PanelItem(0)>> /\ reports' = << >>
      /\ expr' = [x \in TargetsOf(d) |-> Original(d, x)]
  BY DEF ReadInto
<1>2. 0 \in DOMAIN d
  BY DashboardsAssumption DEF IsTree
<1>3. /\ toWalk' \in Seq(Items(doc')) /\ IsInjective(toWalk') /\ Ahead' = {PanelItem(0)}
  <2>1. PanelItem(0) \in Items(d)
    BY <1>2 DEF Items
  <2>2. <<PanelItem(0)>> \in Seq(Items(d))
    BY <2>1
  <2>3. IsInjective(<<PanelItem(0)>>) /\ Range(<<PanelItem(0)>>) = {PanelItem(0)}
    BY DEF IsInjective, Range
  <2> QED BY <1>1, <2>2, <2>3 DEF Ahead
<1>4. reports' \in Seq(Reported') /\ DOMAIN reports' = {}
  <2>1. \A S : << >> \in Seq(S)
    OBVIOUS
  <2>2. DOMAIN << >> = {}
    OBVIOUS
  <2> QED BY <1>1, <2>1, <2>2
<1>5. WalkedBy({})'
  <2>1. \A x \in TargetsOf(d) : x # PanelItem(0)
    <3>1. doc' \in Dashboards
      BY <1>1
    <3>2. \A p \in DOMAIN d : \A j \in DOMAIN d[p].targets : j # 0
      <4>1. \A p \in DOMAIN d : d[p].targets \in Seq(Classes \cup {""})
        BY DashboardsAssumption DEF IsTree
      <4>2. \A p \in DOMAIN d : \A j \in DOMAIN d[p].targets :
               j \in 1..Len(d[p].targets) /\ Len(d[p].targets) \in Nat
        BY <4>1, Positions
      <4> QED BY <4>2
    <3>3. \A p, j : TargetItem(p, j).target = j
      BY DEF TargetItem
    <3>4. PanelItem(0).target = 0
      BY DEF PanelItem
    <3> QED BY <3>2, <3>3, <3>4 DEF TargetsOf
  <2>2. \A x \in TargetsOf(d) : Untold(x)'
    BY <1>1, <1>4 DEF Untold, ReportFor
  <2>3. \A p \in DOMAIN d : PanelItem(p) \in Ahead' => p = 0
    BY <1>3 DEF PanelItem
  <2> QED BY <1>1, <1>3, <2>1, <2>2, <2>3 DEF WalkedBy
<1> QED BY <1>1, <1>3, <1>4, <1>5 DEF Walking

(* Nothing has been read to begin with. *)
LEMMA WalkInit == Init => WalkInv
<1> SUFFICES ASSUME Init PROVE WalkInv
  OBVIOUS
<1>1. Unread /\ ~At("translating")
  BY DEF Init, Unread, At
<1> QED BY <1>1 DEF WalkInv

(* A step that leaves the walk alone. *)
LEMMA WalkKept ==
  ASSUME WalkInv, UNCHANGED dashboardVars, UNCHANGED flags,
         (At("translating") /\ Dash)' => At("translating") /\ Dash,
         (Dash /\ WholeAt(flags.output, "dashboard"))'
            => (Dash /\ WholeAt(flags.output, "dashboard")) \/ Unread \/ Walked
  PROVE  WalkInv'
<1>1. UNCHANGED <<doc, expr, toWalk, reports>>
  BY DEF dashboardVars
<1>2. (Unread' <=> Unread) /\ (Walked' <=> Walked)
  BY <1>1 DEF Unread, Walked
<1>3. Walking' <=> Walking
  <2>1. \A seen : WalkedBy(seen)' <=> WalkedBy(seen)
    BY <1>1 DEF WalkedBy, Ahead, Within, Untold, Kept, ReportFor
  <2> QED BY <1>1, <2>1 DEF Walking, Reported
<1> QED BY <1>1, <1>2, <1>3 DEF WalkInv

(* Every step keeps the walk's invariant. *)
LEMMA WalkNext == FilesInv /\ WalkInv /\ [Next]_vars => WalkInv'
<1> SUFFICES ASSUME FilesInv, WalkInv, [Next]_vars PROVE WalkInv'
  OBVIOUS
<1> DEFINE Written == WholeAt(flags.output, "dashboard")
<1>1. At("checking") \/ At("reading") \/ At("translating") => ~Written
  <2>1. "dashboard" # "as found"
    OBVIOUS
  <2>2. \A d \in Destination : \A i \in DOMAIN Untouched[d] : Untouched[d][i] # "dashboard"
    <3> SUFFICES ASSUME NEW d \in Destination, NEW i \in DOMAIN Untouched[d]
                 PROVE  Untouched[d][i] # "dashboard"
      OBVIOUS
    <3>1. CASE IsFile(d)
      <4>1. Untouched[d] = <<"as found">>
        BY <3>1 DEF Untouched, AsFound
      <4>2. "as found" \in {"as found"}
        OBVIOUS
      <4>3. \A S : \A t \in S : <<t>> \in Seq(S)
        OBVIOUS
      <4>4. Untouched[d] \in Seq({"as found"})
        BY <4>1, <4>2, <4>3, Zenon
      <4>5. Untouched[d][i] \in {"as found"}
        BY <4>4, Positions
      <4> QED BY <2>1, <4>5
    <3>2. CASE ~IsFile(d)
      <4>1. Untouched[d] = << >>
        BY <3>2 DEF Untouched
      <4>2. DOMAIN << >> = {}
        OBVIOUS
      <4> QED BY <4>1, <4>2
    <3> QED BY <3>1, <3>2
  <2> QED BY <2>2, Named DEF FilesInv, TypeOK, WholeAt, At
<1>2. CASE UNCHANGED <<holds, pc, flags, dashboardVars>>
  BY <1>2, WalkKept DEF At, Dash, WholeAt
<1>3. CASE WalkDashboard
  <2>1. doc \in Dashboards /\ Walking /\ ~Written
    <3>1. doc \in Dashboards
      BY <1>3 DEF WalkInv, WalkDashboard
    <3>2. ~Unread
      <4>1. 0 \in DOMAIN doc
        BY <3>1, DashboardsAssumption DEF IsTree
      <4>2. \A S : S = << >> => DOMAIN S = {}
        OBVIOUS
      <4> QED BY <4>1, <4>2 DEF Unread
    <3> QED BY <1>1, <1>3, <3>1, <3>2 DEF WalkInv, WalkDashboard
  <2>2. Walking' /\ doc' = doc
    BY <1>3, <2>1, WalkStep DEF WalkDashboard, Walk, WalkPanel, SkipTarget, FailTarget, TranslateTarget
  <2>3. ~Written'
    BY <1>3, <2>1 DEF WalkDashboard, WholeAt
  <2> QED BY <2>1, <2>2, <2>3 DEF WalkInv
<1>4. CASE ReadDashboard
  <2>1. doc' \in Dashboards /\ Walking'
    BY <1>4, WalkBegins DEF ReadDashboard
  <2>2. ~Written'
    BY <1>1, <1>4 DEF ReadDashboard, WholeAt
  <2> QED BY <2>1, <2>2 DEF WalkInv
<1>5. CASE Refuse \/ FailToRead \/ RefuseSingle \/ RefuseFailures \/ Check
  <2>1. UNCHANGED <<flags, holds, dashboardVars>> /\ pc' # "translating"
    BY <1>5 DEF Refuse, FailToRead, RefuseSingle, RefuseFailures, Check, UnchangedButPc, Finish, Goto
  <2> QED BY <2>1, WalkKept DEF At, Dash, WholeAt
<1>6. CASE ReadQueries \/ RenderResults
  <2>1. UNCHANGED <<flags, dashboardVars>> /\ Trans
    BY <1>6 DEF ReadQueries, RenderResults, TranslatedAll
  <2>2. ~Dash /\ ~Dash'
    BY <2>1 DEF Dash, Trans
  <2> QED BY <2>1, <2>2, WalkKept DEF Dash
<1>7. CASE WriteDashboard
  <2>1. UNCHANGED <<flags, dashboardVars>> /\ At("translating") /\ Dash /\ Walked
    BY <1>7 DEF WriteDashboard, WalkedAll
  <2> QED BY <2>1, WalkKept DEF Dash
<1>8. CASE WriteReport \/ Kill
  <2>1. UNCHANGED <<flags, dashboardVars>> /\ pc' = "exited"
    BY <1>8 DEF WriteReport, Kill, Finish
  <2>2. Written' => Written
    <3>1. CASE holds' = holds
      BY <2>1, <3>1 DEF WholeAt
    <3>2. ASSUME NEW d \in Destination,
                 NEW document \in {"report", "part", "unclosed"},
                 \/ Wrote(d, document)
                 \/ document = "part" /\ WroteInPart(d)
                 \/ document = "unclosed" /\ LostInClosing(d),
                 Written'
          PROVE  Written
      <4>1. document \in Document /\ document # "dashboard" /\ holds \in Documents
            /\ flags.output \in Destination
        BY Named DEF Document, FilesInv, TypeOK
      <4>2. \A e \in Destination : \A text :
               (\E i \in DOMAIN holds'[e] : holds'[e][i] = text) /\ text # document
                  => \E i \in DOMAIN holds[e] : holds[e][i] = text
        BY <3>2, <4>1, Writing
      <4>3. \E i \in DOMAIN holds'[flags.output] : holds'[flags.output][i] = "dashboard"
        BY <2>1, <3>2 DEF WholeAt
      <4> QED BY <4>1, <4>2, <4>3 DEF WholeAt
    <3>3. flags.output \in Destination /\ flags.report \in Destination
      BY Named DEF FilesInv, TypeOK
    <3> QED BY <1>8, <3>1, <3>2, <3>3 DEF WriteReport, Kill, NotOpened
  <2> QED BY <2>1, <2>2, WalkKept DEF Dash, At
<1>9. CASE TranslateOne \/ Close \/ Exited \/ UNCHANGED vars
  BY <1>2, <1>9 DEF TranslateOne, Close, Exited, vars
<1> QED BY <1>3, <1>4, <1>5, <1>6, <1>7, <1>8, <1>9 DEF Next, Run

(* A dashboard that is written keeps every panel's expression or translates it. *)
LEMMA PanelsKept == FilesInv /\ WalkInv => PanelsKeepTheirs
<1> SUFFICES ASSUME FilesInv, WalkInv, Dash, WholeAt(flags.output, "dashboard"),
                    NEW x \in DOMAIN expr
             PROVE  Kept(x)
  BY DEF PanelsKeepTheirs, Kept
<1>1. doc \in Dashboards /\ Walking /\ Walked
  <2>1. ~Unread
    <3>1. DOMAIN << >> = {}
      OBVIOUS
    <3> QED BY <3>1 DEF Unread
  <2> QED BY <2>1 DEF WalkInv
<1>2. PICK seen \in SUBSET DOMAIN doc : WalkedBy(seen)
  BY <1>1 DEF Walking
<1>3. Ahead = {}
  <2>1. DOMAIN << >> = {}
    OBVIOUS
  <2> QED BY <1>1, <2>1 DEF Walked, Ahead, Range
<1>4. seen = DOMAIN doc
  <2>1. 0 \in seen /\ \A p \in seen : Range(doc[p].panels) \subseteq seen
    BY <1>2, <1>3 DEF WalkedBy, Within
  <2> QED BY <1>1, <2>1, DashboardsAssumption DEF IsTree
<1>5. x \in TargetsOf(doc) /\ x.panel \in DOMAIN doc
  BY <1>1, ItemKinds DEF Walking
<1> QED BY <1>2, <1>3, <1>4, <1>5 DEF WalkedBy

(* The dashboard written holds, at every target, what its own report says and *)
(* nothing if there is none to make: one expression that does not translate   *)
(* neither stops the others nor changes its panel (translator.go walkPanels,  *)
(* translateTarget), for dashboards of any shape.                             *)
THEOREM EveryPanelKeepsItsOwn == Spec => []PanelsKeepTheirs
<1>1. Spec => []WalkInv
  BY WalkInit, WalkNext, Files, PTL DEF Spec
<1> QED BY <1>1, PanelsKept, Files, PTL

-----------------------------------------------------------------------------
(* The order of the page.                                                     *)

(* Ways to panels, of which one turns off before the other where both go on.  *)
Diverges(a, b) ==
    \E i \in DOMAIN a \cap DOMAIN b :
       a[i] < b[i] /\ \A j \in 1..(i - 1) : a[j] = b[j]

(* The ways to the panels of a dashboard. *)
Ways(d, W) ==
    /\ W \in [DOMAIN d -> Seq(Nat)] /\ W[0] = << >>
    /\ \A p \in DOMAIN d : \A i \in DOMAIN d[p].panels :
          W[d[p].panels[i]] = Append(W[p], i)

(* What stands before an item of the page, and the order of the worklist:     *)
(* panels come last in it, and none is within another.                        *)
Comes(W, x, y) ==
    \/ ~IsPanel(y) /\ x.panel = y.panel /\ x.target < y.target
    \/ Precedes(W[x.panel], W[y.panel])
InLine(W, x, y) ==
    IF IsPanel(x) THEN IsPanel(y) /\ Diverges(W[x.panel], W[y.panel]) ELSE Comes(W, x, y)

Lined(W, s) == \A i, j \in DOMAIN s : i < j => InLine(W, s[i], s[j])

PageOrder(W) ==
    /\ Lined(W, toWalk)
    /\ \A i, j \in DOMAIN reports : i < j => Comes(W, reports[i].at, reports[j].at)
    /\ \A i \in DOMAIN reports : \A y \in Ahead : Comes(W, reports[i].at, y)

PageInv ==
    IF doc \in Dashboards THEN \E W : Ways(doc, W) /\ PageOrder(W) ELSE reports = << >>

(* A sequence, with one more. *)
LEMMA Appended ==
  ASSUME NEW a \in Seq(Nat), NEW n \in Nat
  PROVE  /\ Append(a, n) \in Seq(Nat) /\ Len(Append(a, n)) = Len(a) + 1
         /\ DOMAIN a = 1..Len(a) /\ DOMAIN Append(a, n) = 1..(Len(a) + 1) /\ Len(a) \in Nat
         /\ \A i \in 1..Len(a) : Append(a, n)[i] = a[i]
         /\ Append(a, n)[Len(a) + 1] = n
OBVIOUS

(* A way that turns off goes on turned off. *)
LEMMA DivergesOn ==
  ASSUME NEW a \in Seq(Nat), NEW b \in Seq(Nat), NEW n \in Nat, Diverges(a, b)
  PROVE  /\ Diverges(Append(a, n), b) /\ Diverges(a, Append(b, n))
         /\ Precedes(a, b)
<1>1. PICK i \in DOMAIN a \cap DOMAIN b : a[i] < b[i] /\ \A j \in 1..(i - 1) : a[j] = b[j]
  BY DEF Diverges
<1>2. /\ i \in 1..Len(a) /\ i \in 1..Len(b) /\ \A j \in 1..(i - 1) : j \in 1..Len(a) /\ j \in 1..Len(b)
      /\ i \in DOMAIN Append(a, n) /\ i \in DOMAIN Append(b, n)
  <2>1. /\ DOMAIN a = 1..Len(a) /\ Len(a) \in Nat /\ DOMAIN Append(a, n) = 1..(Len(a) + 1)
        /\ DOMAIN b = 1..Len(b) /\ Len(b) \in Nat /\ DOMAIN Append(b, n) = 1..(Len(b) + 1)
    BY Appended
  <2>2. i \in 1..Len(a) /\ i \in 1..Len(b)
    BY <2>1, Zenon
  <2>3. \A j \in 1..(i - 1) : j \in 1..Len(a) /\ j \in 1..Len(b)
    BY <2>1, <2>2
  <2>4. i \in 1..(Len(a) + 1) /\ i \in 1..(Len(b) + 1)
    BY <2>1, <2>2
  <2> QED BY <2>1, <2>2, <2>3, <2>4
<1>3. Diverges(Append(a, n), b)
  <2>1. Append(a, n)[i] = a[i] /\ \A j \in 1..(i - 1) : Append(a, n)[j] = a[j]
    BY <1>2, Appended
  <2> QED BY <1>1, <1>2, <2>1 DEF Diverges
<1>4. Diverges(a, Append(b, n))
  <2>1. Append(b, n)[i] = b[i] /\ \A j \in 1..(i - 1) : Append(b, n)[j] = b[j]
    BY <1>2, Appended
  <2> QED BY <1>1, <1>2, <2>1 DEF Diverges
<1>5. Precedes(a, b)
  BY <1>1 DEF Precedes
<1> QED BY <1>3, <1>4, <1>5

(* What precedes a panel precedes the panels within, and so does the panel.   *)
LEMMA PrecedesWithin ==
  ASSUME NEW a \in Seq(Nat), NEW b \in Seq(Nat), NEW n \in Nat
  PROVE  /\ Precedes(a, b) => Precedes(a, Append(b, n))
         /\ Precedes(b, Append(b, n))
<1>1. ASSUME NEW c \in Seq(Nat), IsPrefix(c, b) PROVE IsStrictPrefix(c, Append(b, n))
  <2>1. Len(c) <= Len(b) /\ SubSeq(c, 1, Len(c)) = SubSeq(b, 1, Len(c)) /\ Len(c) \in Nat
    BY <1>1 DEF IsPrefix
  <2>2. SubSeq(Append(b, n), 1, Len(c)) = SubSeq(b, 1, Len(c))
    <3>1. \A i \in 1..Len(c) : i \in 1..Len(b) /\ Append(b, n)[i] = b[i]
      BY <2>1, Appended
    <3>2. SubSeq(Append(b, n), 1, Len(c)) = [i \in 1..Len(c) |-> Append(b, n)[i]]
      BY <2>1, Appended
    <3>3. SubSeq(b, 1, Len(c)) = [i \in 1..Len(c) |-> b[i]]
      BY <2>1
    <3> QED BY <3>1, <3>2, <3>3
  <2>3. Len(Append(b, n)) = Len(b) + 1 /\ Len(b) \in Nat
    BY Appended
  <2>4. c # Append(b, n)
    BY <2>1, <2>3
  <2> QED BY <2>1, <2>2, <2>3, <2>4 DEF IsPrefix, IsStrictPrefix
<1>2. IsPrefix(b, b)
  BY DEF IsPrefix
<1>3. ASSUME IsStrictPrefix(a, b) PROVE Precedes(a, Append(b, n))
  <2>1. IsPrefix(a, b)
    BY <1>3 DEF IsStrictPrefix
  <2>2. IsStrictPrefix(a, Append(b, n)) /\ IsStrictPrefix(b, Append(b, n))
    BY <1>1, <1>2, <2>1
  <2> QED BY <2>2 DEF Precedes
<1>4. ASSUME Diverges(a, b) PROVE Precedes(a, Append(b, n))
  <2>1. Diverges(a, Append(b, n))
    BY <1>4, DivergesOn
  <2>2. \A c, e : Diverges(c, e) => Precedes(c, e)
    BY DEF Precedes, Diverges
  <2> QED BY <2>1, <2>2
<1>5. Precedes(a, b) => IsStrictPrefix(a, b) \/ Diverges(a, b)
  BY DEF Precedes, Diverges
<1>6. IsStrictPrefix(b, Append(b, n))
  BY <1>1, <1>2
<1>7. Precedes(b, Append(b, n))
  BY <1>6 DEF Precedes
<1> QED BY <1>3, <1>4, <1>5, <1>7

(* Of two panels within one, the ways turn off at the last step. *)
LEMMA SiblingsDiverge ==
  ASSUME NEW a \in Seq(Nat), NEW m \in Nat, NEW n \in Nat, m < n
  PROVE  Diverges(Append(a, m), Append(a, n))
<1> DEFINE i == Len(a) + 1
<1>1. i \in DOMAIN Append(a, m) \cap DOMAIN Append(a, n) /\ i - 1 = Len(a)
  BY Appended
<1>2. Append(a, m)[i] = m /\ Append(a, n)[i] = n
  BY Appended
<1>3. \A j \in 1..(i - 1) : Append(a, m)[j] = Append(a, n)[j]
  BY <1>1, Appended
<1> HIDE DEF i
<1> QED BY <1>1, <1>2, <1>3 DEF Diverges

(* A list put together of two stands in line if both do and the second follows *)
(* the first.                                                                  *)
LEMMA LinedTogether ==
  ASSUME NEW S, NEW s \in Seq(S), NEW t \in Seq(S), NEW W, Lined(W, s), Lined(W, t),
         \A x \in Range(s), y \in Range(t) : InLine(W, x, y)
  PROVE  Lined(W, s \o t)
<1>1. /\ s \o t \in Seq(S) /\ DOMAIN (s \o t) = 1..(Len(s) + Len(t))
      /\ \A i \in 1..(Len(s) + Len(t)) :
            (s \o t)[i] = IF i <= Len(s) THEN s[i] ELSE t[i - Len(s)]
      /\ Len(s) \in Nat /\ Len(t) \in Nat /\ DOMAIN s = 1..Len(s) /\ DOMAIN t = 1..Len(t)
  OBVIOUS
<1>2. SUFFICES ASSUME NEW i \in 1..(Len(s) + Len(t)), NEW j \in 1..(Len(s) + Len(t)), i < j
               PROVE  InLine(W, (s \o t)[i], (s \o t)[j])
  BY <1>1 DEF Lined
<1>3. CASE j <= Len(s)
  <2>1. i \in DOMAIN s /\ j \in DOMAIN s /\ (s \o t)[i] = s[i] /\ (s \o t)[j] = s[j]
    BY <1>1, <1>2, <1>3
  <2> QED BY <1>2, <2>1 DEF Lined
<1>4. CASE i > Len(s)
  <2>1. /\ i - Len(s) \in DOMAIN t /\ j - Len(s) \in DOMAIN t /\ i - Len(s) < j - Len(s)
        /\ (s \o t)[i] = t[i - Len(s)] /\ (s \o t)[j] = t[j - Len(s)]
    BY <1>1, <1>2, <1>4
  <2> QED BY <2>1 DEF Lined
<1>5. CASE i <= Len(s) /\ j > Len(s)
  <2>1. /\ i \in DOMAIN s /\ j - Len(s) \in DOMAIN t
        /\ (s \o t)[i] = s[i] /\ (s \o t)[j] = t[j - Len(s)]
    BY <1>1, <1>2, <1>5
  <2>2. s[i] \in Range(s) /\ t[j - Len(s)] \in Range(t)
    BY <2>1 DEF Range
  <2> QED BY <2>1, <2>2
<1> QED BY <1>1, <1>3, <1>4, <1>5

(* What is left of a list in line. *)
LEMMA RestLined ==
  ASSUME NEW S, NEW s \in Seq(S), s # << >>, NEW W, Lined(W, s)
  PROVE  Lined(W, Tail(s)) /\ \A y \in Range(Tail(s)) : InLine(W, Head(s), y)
<1>1. PICK n \in Nat \ {0} : n = Len(s) /\ DOMAIN s = 1..n
  BY Positions
<1>2. /\ DOMAIN Tail(s) = 1..(n - 1) /\ Head(s) = s[1]
      /\ \A i \in 1..(n - 1) : Tail(s)[i] = s[i + 1]
  BY <1>1
<1>3. ASSUME NEW i \in 1..(n - 1), NEW j \in 1..(n - 1), i < j
      PROVE  InLine(W, Tail(s)[i], Tail(s)[j])
  <2>1. i + 1 \in DOMAIN s /\ j + 1 \in DOMAIN s /\ i + 1 < j + 1
    BY <1>1, <1>3
  <2> QED BY <1>2, <2>1 DEF Lined
<1>4. ASSUME NEW y \in Range(Tail(s)) PROVE InLine(W, Head(s), y)
  <2>1. PICK i \in 1..(n - 1) : y = Tail(s)[i]
    BY <1>2 DEF Range
  <2>2. 1 \in DOMAIN s /\ i + 1 \in DOMAIN s /\ 1 < i + 1
    BY <1>1
  <2> QED BY <1>2, <2>1, <2>2 DEF Lined
<1> QED BY <1>2, <1>3, <1>4 DEF Lined

(* What is in a list put together of two. *)
LEMMA JoinedRange ==
  ASSUME NEW S, NEW s \in Seq(S), NEW t \in Seq(S)
  PROVE  s \o t \in Seq(S) /\ \A x \in Range(s \o t) : x \in Range(s) \cup Range(t)
<1>1. /\ s \o t \in Seq(S) /\ DOMAIN (s \o t) = 1..(Len(s) + Len(t))
      /\ \A i \in 1..(Len(s) + Len(t)) :
            (s \o t)[i] = IF i <= Len(s) THEN s[i] ELSE t[i - Len(s)]
      /\ Len(s) \in Nat /\ Len(t) \in Nat /\ DOMAIN s = 1..Len(s) /\ DOMAIN t = 1..Len(t)
  OBVIOUS
<1>2. ASSUME NEW x \in Range(s \o t) PROVE x \in Range(s) \cup Range(t)
  <2>1. PICK i \in 1..(Len(s) + Len(t)) : x = (s \o t)[i]
    BY <1>1 DEF Range
  <2>2. CASE i <= Len(s)
    BY <1>1, <2>1, <2>2 DEF Range
  <2>3. CASE i > Len(s)
    <3>1. i - Len(s) \in DOMAIN t /\ x = t[i - Len(s)]
      BY <1>1, <2>1, <2>3
    <3> QED BY <3>1 DEF Range
  <2> QED BY <1>1, <2>2, <2>3
<1> QED BY <1>1, <1>2

(* The positions of what is within a panel. *)
LEMMA PanelSteps ==
  ASSUME NEW d \in Dashboards, NEW p \in DOMAIN d
  PROVE  /\ DOMAIN d[p].targets \subseteq Nat \ {0}
         /\ DOMAIN d[p].panels \subseteq Nat
         /\ \A i \in DOMAIN d[p].panels : d[p].panels[i] \in DOMAIN d \ {0}
<1>1. d[p].targets \in Seq(Classes \cup {""}) /\ d[p].panels \in Seq(DOMAIN d \ {0})
  BY DashboardsAssumption DEF IsTree
<1>2. PICK n \in Nat : DOMAIN d[p].targets = 1..n
  BY <1>1, Positions
<1>3. PICK m \in Nat : DOMAIN d[p].panels = 1..m
  BY <1>1, Positions
<1>4. \A i \in DOMAIN d[p].panels : d[p].panels[i] \in DOMAIN d \ {0}
  BY <1>1, Positions
<1> QED BY <1>2, <1>3, <1>4

(* What is within a panel stands in line: its targets, then its panels. *)
LEMMA InsideLined ==
  ASSUME doc \in Dashboards, NEW W, Ways(doc, W), NEW p \in DOMAIN doc
  PROVE  /\ Lined(W, TargetItems(p)) /\ Lined(W, PanelItems(doc[p].panels))
         /\ \A x \in Range(TargetItems(p)) :
               \A y \in Range(PanelItems(doc[p].panels)) : InLine(W, x, y)
<1>1. /\ \A q : PanelItem(q).panel = q /\ IsPanel(PanelItem(q))
      /\ \A q, j : TargetItem(q, j).panel = q /\ TargetItem(q, j).target = j
  BY DEF PanelItem, TargetItem, IsPanel
<1>3. /\ DOMAIN doc[p].targets \subseteq Nat \ {0}
      /\ DOMAIN doc[p].panels \subseteq Nat
      /\ \A i \in DOMAIN doc[p].panels : doc[p].panels[i] \in DOMAIN doc
  BY PanelSteps
<1>4. W[p] \in Seq(Nat)
  BY DEF Ways
<1>5. Lined(W, TargetItems(p))
  <2>1. DOMAIN TargetItems(p) = DOMAIN doc[p].targets
    BY DEF TargetItems
  <2>2. \A j \in DOMAIN doc[p].targets : TargetItems(p)[j] = TargetItem(p, j)
    BY DEF TargetItems
  <2>3. \A j \in DOMAIN doc[p].targets : ~IsPanel(TargetItem(p, j))
    BY <1>1, <1>3 DEF IsPanel
  <2> QED BY <1>1, <2>1, <2>2, <2>3 DEF Lined, InLine, Comes
<1>6. Lined(W, PanelItems(doc[p].panels))
  <2>1. DOMAIN PanelItems(doc[p].panels) = DOMAIN doc[p].panels
    BY DEF PanelItems
  <2>2. \A i \in DOMAIN doc[p].panels : PanelItems(doc[p].panels)[i] = PanelItem(doc[p].panels[i])
    BY DEF PanelItems
  <2>3. \A i \in DOMAIN doc[p].panels : W[doc[p].panels[i]] = Append(W[p], i)
    BY DEF Ways
  <2>4. \A i, j \in DOMAIN doc[p].panels : i < j => Diverges(Append(W[p], i), Append(W[p], j))
    BY <1>3, <1>4, SiblingsDiverge
  <2>5. ASSUME NEW i \in DOMAIN doc[p].panels, NEW j \in DOMAIN doc[p].panels, i < j
        PROVE  InLine(W, PanelItem(doc[p].panels[i]), PanelItem(doc[p].panels[j]))
    <3>1. Diverges(W[doc[p].panels[i]], W[doc[p].panels[j]])
      BY <2>3, <2>4, <2>5, Zenon
    <3> QED BY <1>1, <3>1 DEF InLine
  <2> QED BY <2>1, <2>2, <2>5 DEF Lined
<1>7. ASSUME NEW x \in Range(TargetItems(p)), NEW y \in Range(PanelItems(doc[p].panels))
      PROVE  InLine(W, x, y)
  <2>1. x \in TargetsOf(doc) /\ x.panel = p
    BY Inside
  <2>2. PICK i \in DOMAIN doc[p].panels : y = PanelItem(doc[p].panels[i])
    <3>1. y \in {PanelItem(q) : q \in Within(p)}
      BY Inside
    <3> QED BY <3>1 DEF Within, Range
  <2>3. W[y.panel] = Append(W[p], i) /\ i \in Nat
    <3>1. i \in Nat
      BY <1>3
    <3>2. y.panel = doc[p].panels[i]
      BY <1>1, <2>2
    <3>3. W[doc[p].panels[i]] = Append(W[p], i)
      BY DEF Ways
    <3> QED BY <3>1, <3>2, <3>3
  <2>4. Precedes(W[x.panel], W[y.panel])
    BY <1>4, <2>1, <2>3, PrecedesWithin
  <2> QED BY <2>1, <2>4, ItemKinds DEF InLine, Comes
<1> QED BY <1>5, <1>6, <1>7

(* What comes before a panel comes before what is within it; and where two    *)
(* panels are in line, what is within the first comes before the second.      *)
LEMMA InsideFollows ==
  ASSUME doc \in Dashboards, NEW W, Ways(doc, W), NEW p \in DOMAIN doc
  PROVE  /\ \A x : x.panel \in DOMAIN doc /\ Comes(W, x, PanelItem(p)) =>
               \A y \in Range(TargetItems(p)) \cup Range(PanelItems(doc[p].panels)) :
                  Comes(W, x, y)
         /\ \A y \in Items(doc) : InLine(W, PanelItem(p), y) =>
               \A x \in Range(TargetItems(p)) \cup Range(PanelItems(doc[p].panels)) :
                  InLine(W, x, y)
<1>1. \A q : PanelItem(q).panel = q /\ IsPanel(PanelItem(q))
  BY DEF PanelItem, IsPanel
<1>2. \A x \in Range(TargetItems(p)) : x.panel = p /\ ~IsPanel(x)
  BY Inside, ItemKinds
<1>3. \A x \in Range(PanelItems(doc[p].panels)) :
         /\ IsPanel(x) /\ x.panel \in DOMAIN doc
         /\ \E i \in Nat : W[x.panel] = Append(W[p], i)
  <2>1. /\ DOMAIN doc[p].panels \subseteq Nat
        /\ \A i \in DOMAIN doc[p].panels : doc[p].panels[i] \in DOMAIN doc
    BY PanelSteps
  <2>2. \A q \in Within(p) : q \in DOMAIN doc /\ \E i \in Nat : W[q] = Append(W[p], i)
    BY <2>1 DEF Within, Range, Ways
  <2>3. Range(PanelItems(doc[p].panels)) = {PanelItem(q) : q \in Within(p)}
    BY Inside
  <2> HIDE DEF Within
  <2>4. \A x \in Range(PanelItems(doc[p].panels)) : \E q \in Within(p) : x = PanelItem(q)
    BY <2>3
  <2> QED BY <1>1, <2>2, <2>4
<1>4. \A q \in DOMAIN doc : W[q] \in Seq(Nat)
  BY DEF Ways
<1>5. ASSUME NEW x, x.panel \in DOMAIN doc, Comes(W, x, PanelItem(p)),
             NEW y \in Range(TargetItems(p)) \cup Range(PanelItems(doc[p].panels))
      PROVE  Comes(W, x, y)
  <2>1. Precedes(W[x.panel], W[p])
    BY <1>1, <1>5 DEF Comes
  <2>2. CASE y \in Range(TargetItems(p))
    BY <1>2, <2>1, <2>2 DEF Comes
  <2>3. CASE y \in Range(PanelItems(doc[p].panels))
    <3>1. PICK i \in Nat : W[y.panel] = Append(W[p], i)
      BY <1>3, <2>3
    <3>2. Precedes(W[x.panel], Append(W[p], i))
      BY <1>4, <1>5, <2>1, PrecedesWithin
    <3> QED BY <3>1, <3>2 DEF Comes
  <2> QED BY <2>2, <2>3
<1>6. ASSUME NEW y \in Items(doc), InLine(W, PanelItem(p), y),
             NEW x \in Range(TargetItems(p)) \cup Range(PanelItems(doc[p].panels))
      PROVE  InLine(W, x, y)
  <2>1. IsPanel(y) /\ Diverges(W[p], W[y.panel]) /\ y.panel \in DOMAIN doc
    BY <1>1, <1>6, ItemKinds DEF InLine
  <2>2. CASE x \in Range(TargetItems(p))
    <3>1. Precedes(W[p], W[y.panel])
      BY <1>4, <2>1, DivergesOn
    <3> QED BY <1>2, <2>2, <3>1 DEF InLine, Comes
  <2>3. CASE x \in Range(PanelItems(doc[p].panels))
    <3>1. PICK i \in Nat : W[x.panel] = Append(W[p], i)
      BY <1>3, <2>3
    <3>2. Diverges(Append(W[p], i), W[y.panel])
      BY <1>4, <2>1, DivergesOn
    <3> QED BY <1>3, <2>1, <2>3, <3>1, <3>2 DEF InLine
  <2> QED BY <2>2, <2>3
<1> QED BY <1>5, <1>6

(* A step into a panel keeps the worklist in line. *)
LEMMA PanelLined ==
  ASSUME doc \in Dashboards, Walking, WalkPanel, NEW W, Ways(doc, W), PageOrder(W)
  PROVE  PageOrder(W)'
<1>0. PICK p : p = Here.panel
  OBVIOUS
<1>1. /\ toWalk # << >> /\ IsPanel(Here) /\ doc' = doc /\ reports' = reports
      /\ toWalk' = TargetItems(p) \o PanelItems(doc[p].panels) \o Tail(toWalk)
  BY <1>0 DEF WalkPanel, AtPanel, Here
<1>2. /\ Here \in Items(doc) /\ Here \in Ahead
      /\ Tail(toWalk) \in Seq(Items(doc)) /\ Range(Tail(toWalk)) = Ahead \ {Here}
      /\ Ahead \subseteq Items(doc)
  BY <1>1, NextItem
<1>3. p \in DOMAIN doc /\ Here = PanelItem(p)
  BY <1>0, <1>1, <1>2, ItemKinds
<1> DEFINE targets == TargetItems(p)
           panels == PanelItems(doc[p].panels)
           later == Tail(toWalk)
<1>4. /\ targets \in Seq(Items(doc)) /\ panels \in Seq(Items(doc)) /\ later \in Seq(Items(doc))
      /\ Lined(W, targets) /\ Lined(W, panels)
      /\ \A x \in Range(targets) : \A y \in Range(panels) : InLine(W, x, y)
  BY <1>2, <1>3, Inside, InsideLined
<1>5. Lined(W, later) /\ \A y \in Range(later) : InLine(W, PanelItem(p), y)
  BY <1>1, <1>3, RestLined DEF PageOrder, Walking, Here
<1>6. /\ Range(later) \subseteq Items(doc)
      /\ \A x \in Range(targets) \cup Range(panels) : \A y \in Range(later) : InLine(W, x, y)
  BY <1>2, <1>3, <1>5, InsideFollows
<1>7. /\ \A x \in Range(targets \o panels) : x \in Range(targets) \cup Range(panels)
      /\ targets \o panels \in Seq(Items(doc)) /\ Lined(W, targets \o panels)
  BY <1>4, JoinedRange, LinedTogether
<1>8. Lined(W, (targets \o panels) \o later)
  BY <1>4, <1>5, <1>6, <1>7, LinedTogether
<1>9. \A y \in Range((targets \o panels) \o later) :
         y \in Range(targets) \cup Range(panels) \/ y \in Ahead
  <2> DEFINE new == targets \o panels
  <2>1. new \in Seq(Items(doc))
    BY <1>7
  <2> HIDE DEF new
  <2>2. \A y \in Range(new \o later) : y \in Range(new) \cup Range(later)
    BY <1>4, <2>1, JoinedRange
  <2>3. Range(later) \subseteq Ahead
    BY <1>2
  <2> HIDE DEF later
  <2> QED BY <1>7, <2>2, <2>3 DEF new
<1>10. toWalk' = (targets \o panels) \o later
  BY <1>1
<1>11. \A i \in DOMAIN reports : reports[i].at.panel \in DOMAIN doc
  <2>1. reports \in Seq(Reported)
    BY DEF Walking
  <2>2. \A i \in DOMAIN reports : reports[i] \in Reported
    BY <2>1, Positions
  <2>3. \A r \in Reported : r.at \in TargetsOf(doc)
    BY DEF Reported
  <2> QED BY <2>2, <2>3, ItemKinds
<1> HIDE DEF targets, panels, later
<1>12. ASSUME NEW i \in DOMAIN reports, NEW y \in Range(toWalk')
       PROVE  Comes(W, reports[i].at, y)
  <2>1. CASE y \in Ahead
    BY <2>1 DEF PageOrder
  <2>2. CASE y \in Range(targets) \cup Range(panels)
    <3>1. Comes(W, reports[i].at, PanelItem(p))
      BY <1>2, <1>3 DEF PageOrder
    <3> QED BY <1>3, <1>11, <2>2, <3>1, InsideFollows DEF targets, panels
  <2> QED BY <1>9, <1>10, <1>12, <2>1, <2>2
<1> QED BY <1>1, <1>8, <1>10, <1>12 DEF PageOrder, Ahead

(* A step to the next target, reported or not, keeps the page in order. *)
LEMMA TargetLined ==
  ASSUME doc \in Dashboards, Walking, AtTarget, toWalk' = Tail(toWalk),
         NEW W, PageOrder(W),
         \/ reports' = reports
         \/ \E r : r.at = Here /\ reports' = Append(reports, r)
  PROVE  PageOrder(W)'
<1>1. toWalk # << >> /\ ~IsPanel(Here)
  BY DEF AtTarget, Here
<1>2. /\ Here \in Ahead /\ Range(Tail(toWalk)) = Ahead \ {Here}
  BY <1>1, NextItem
<1>3. Lined(W, Tail(toWalk)) /\ \A y \in Range(Tail(toWalk)) : Comes(W, Here, y)
  BY <1>1, RestLined DEF PageOrder, Walking, Here, InLine
<1>4. CASE reports' = reports
  BY <1>2, <1>3, <1>4 DEF PageOrder, Ahead
<1>5. ASSUME NEW r, r.at = Here, reports' = Append(reports, r)
      PROVE  PageOrder(W)'
  <2>1. PICK n \in Nat : n = Len(reports)
    BY Positions DEF Walking
  <2>2. /\ DOMAIN reports = 1..n /\ DOMAIN reports' = 1..(n + 1)
        /\ \A i \in 1..n : reports'[i] = reports[i]
        /\ reports'[n + 1] = r
    BY <1>5, <2>1 DEF Walking
  <2>3. \A i, j \in DOMAIN reports' : i < j => Comes(W, reports'[i].at, reports'[j].at)
    <3> SUFFICES ASSUME NEW i \in 1..(n + 1), NEW j \in 1..(n + 1), i < j
                 PROVE  Comes(W, reports'[i].at, reports'[j].at)
      BY <2>2
    <3>1. i \in 1..n /\ (j \in 1..n \/ j = n + 1)
      OBVIOUS
    <3>2. CASE j \in 1..n
      BY <2>2, <3>1, <3>2 DEF PageOrder
    <3>3. CASE j = n + 1
      BY <1>2, <1>5, <2>2, <3>1, <3>3 DEF PageOrder
    <3> QED BY <3>1, <3>2, <3>3
  <2>4. \A i \in DOMAIN reports' : \A y \in Range(toWalk') : Comes(W, reports'[i].at, y)
    <3> SUFFICES ASSUME NEW i \in 1..(n + 1), NEW y \in Range(Tail(toWalk))
                 PROVE  Comes(W, reports'[i].at, y)
      BY <2>2
    <3>1. CASE i \in 1..n
      BY <1>2, <2>2, <3>1 DEF PageOrder
    <3>2. CASE i = n + 1
      BY <1>3, <1>5, <2>2, <3>2
    <3> QED BY <3>1, <3>2
  <2> QED BY <1>3, <2>3, <2>4 DEF PageOrder, Ahead
<1> QED BY <1>4, <1>5

-----------------------------------------------------------------------------
(* Every panel of a dashboard has its way.                                    *)

(* Pairs of a panel and a way that go on to the panels within. *)
Pairs(d) == (DOMAIN d) \X Seq(Nat)
Climbs(d, g) ==
    /\ <<0, << >> >> \in g
    /\ \A p \in DOMAIN d, w \in Seq(Nat) : <<p, w>> \in g =>
          \A i \in DOMAIN d[p].panels : <<d[p].panels[i], Append(w, i)>> \in g
IsWay(d, p, w) == \A g \in SUBSET Pairs(d) : Climbs(d, g) => <<p, w>> \in g

(* The dashboard's way is empty, and a way goes on to the panels within. *)
LEMMA WaysClimb ==
  ASSUME NEW d \in Dashboards
  PROVE  /\ IsWay(d, 0, << >>)
         /\ \A p \in DOMAIN d, w \in Seq(Nat) : IsWay(d, p, w) =>
               \A i \in DOMAIN d[p].panels : IsWay(d, d[p].panels[i], Append(w, i))
BY DEF IsWay, Climbs

(* What holds of the dashboard, and of the panels within every panel it holds *)
(* of, holds of every panel.                                                  *)
LEMMA EveryPanel ==
  ASSUME NEW d \in Dashboards, NEW S \in SUBSET DOMAIN d, 0 \in S,
         \A p \in S : \A i \in DOMAIN d[p].panels : d[p].panels[i] \in S
  PROVE  S = DOMAIN d
<1>1. \A p \in S : Range(d[p].panels) \subseteq S
  BY DEF Range
<1> QED BY <1>1, DashboardsAssumption DEF IsTree

(* A way, longer by one, to a panel of another panel. *)
GoesOn(d, p, w) ==
    \E r \in DOMAIN d, v \in Seq(Nat) :
       IsWay(d, r, v) /\ \E i \in DOMAIN d[r].panels : d[r].panels[i] = p /\ w = Append(v, i)

(* A way is the dashboard's, or goes on from another panel's. *)
LEMMA WaysGoOn ==
  ASSUME NEW d \in Dashboards, NEW p \in DOMAIN d, NEW w \in Seq(Nat), IsWay(d, p, w)
  PROVE  (p = 0 /\ w = << >>) \/ GoesOn(d, p, w)
<1> DEFINE g == {z \in Pairs(d) : IsWay(d, z[1], z[2]) /\
                                   ((z[1] = 0 /\ z[2] = << >>) \/ GoesOn(d, z[1], z[2]))}
<1>0. 0 \in DOMAIN d /\ << >> \in Seq(Nat)
  <2>1. 0 \in DOMAIN d
    BY DashboardsAssumption DEF IsTree
  <2>2. << >> \in Seq(Nat)
    OBVIOUS
  <2> QED BY <2>1, <2>2
<1>1. <<0, << >> >> \in g
  BY <1>0, WaysClimb DEF Pairs
<1>2. ASSUME NEW r \in DOMAIN d, NEW v \in Seq(Nat), <<r, v>> \in g, NEW i \in DOMAIN d[r].panels
      PROVE  <<d[r].panels[i], Append(v, i)>> \in g
  <2>1. PICK q \in DOMAIN d : q = d[r].panels[i]
    BY PanelSteps
  <2>2. PICK u \in Seq(Nat) : u = Append(v, i)
    BY PanelSteps, Appended
  <2>3. IsWay(d, r, v)
    BY <1>2
  <2>4. IsWay(d, q, u)
    BY <2>1, <2>2, <2>3, WaysClimb
  <2>5. GoesOn(d, q, u)
    BY <2>1, <2>2, <2>3 DEF GoesOn
  <2>6. <<q, u>> \in Pairs(d)
    BY <2>1, <2>2 DEF Pairs
  <2>7. <<q, u>> \in g
    BY <2>4, <2>5, <2>6
  <2> QED BY <2>1, <2>2, <2>7
<1>3. Climbs(d, g)
  BY <1>1, <1>2 DEF Climbs
<1>4. <<p, w>> \in g
  <2>1. g \in SUBSET Pairs(d)
    OBVIOUS
  <2> QED BY <1>3, <2>1 DEF IsWay
<1> QED BY <1>4

(* There is one way to every panel. *)
LEMMA OneWay ==
  ASSUME NEW d \in Dashboards, NEW p \in DOMAIN d
  PROVE  \E w \in Seq(Nat) : IsWay(d, p, w) /\ \A v \in Seq(Nat) : IsWay(d, p, v) => v = w
<1> DEFINE S == {q \in DOMAIN d : \E w \in Seq(Nat) :
                    IsWay(d, q, w) /\ \A v \in Seq(Nat) : IsWay(d, q, v) => v = w}
<1>0. 0 \in DOMAIN d /\ << >> \in Seq(Nat)
  <2>1. 0 \in DOMAIN d
    BY DashboardsAssumption DEF IsTree
  <2>2. << >> \in Seq(Nat)
    OBVIOUS
  <2> QED BY <2>1, <2>2
<1>1. 0 \in S
  <2>1. ASSUME NEW v \in Seq(Nat), IsWay(d, 0, v) PROVE v = << >>
    <3>1. \A r \in DOMAIN d : \A i \in DOMAIN d[r].panels : d[r].panels[i] # 0
      BY PanelSteps
    <3> QED BY <1>0, <2>1, <3>1, WaysGoOn DEF GoesOn
  <2> QED BY <1>0, <2>1, WaysClimb
<1>2. ASSUME NEW q \in S, NEW i \in DOMAIN d[q].panels PROVE d[q].panels[i] \in S
  <2>1. PICK w \in Seq(Nat) : IsWay(d, q, w) /\ \A v \in Seq(Nat) : IsWay(d, q, v) => v = w
    OBVIOUS
  <2>2. PICK r \in DOMAIN d : r = d[q].panels[i] /\ r # 0
    BY PanelSteps
  <2>3. PICK u \in Seq(Nat) : u = Append(w, i)
    BY PanelSteps, Appended
  <2>4. IsWay(d, r, u)
    BY <2>1, <2>2, <2>3, WaysClimb
  <2>5. ASSUME NEW v \in Seq(Nat), IsWay(d, r, v) PROVE v = u
    <3>1. GoesOn(d, r, v)
      BY <2>2, <2>5, WaysGoOn
    <3>0. PICK t \in DOMAIN d, x \in Seq(Nat) :
             /\ IsWay(d, t, x)
             /\ \E j \in DOMAIN d[t].panels : d[t].panels[j] = r /\ v = Append(x, j)
      BY <3>1 DEF GoesOn
    <3>2. PICK j \in DOMAIN d[t].panels : d[t].panels[j] = r /\ v = Append(x, j)
      BY <3>0
    <3>3. t = q /\ j = i
      <4>1. \A a, b \in DOMAIN d : \A k \in DOMAIN d[a].panels, l \in DOMAIN d[b].panels :
               d[a].panels[k] = d[b].panels[l] => a = b /\ k = l
        BY DashboardsAssumption DEF IsTree
      <4> QED BY <2>2, <3>2, <4>1
    <3>4. x = w
      BY <2>1, <3>0, <3>3
    <3> QED BY <2>3, <3>2, <3>3, <3>4
  <2> QED BY <2>2, <2>4, <2>5
<1>3. S = DOMAIN d
  BY <1>1, <1>2, EveryPanel
<1> QED BY <1>3

(* The ways of a dashboard. *)
LEMMA WaysExist ==
  ASSUME NEW d \in Dashboards
  PROVE  \E W : Ways(d, W)
<1>0. 0 \in DOMAIN d /\ << >> \in Seq(Nat)
  <2>1. 0 \in DOMAIN d
    BY DashboardsAssumption DEF IsTree
  <2>2. << >> \in Seq(Nat)
    OBVIOUS
  <2> QED BY <2>1, <2>2
<1> DEFINE W == [p \in DOMAIN d |-> CHOOSE w \in Seq(Nat) : IsWay(d, p, w)]
<1>1. ASSUME NEW p \in DOMAIN d
      PROVE  W[p] \in Seq(Nat) /\ \A v \in Seq(Nat) : IsWay(d, p, v) => v = W[p]
  <2>1. PICK w \in Seq(Nat) : IsWay(d, p, w) /\ \A v \in Seq(Nat) : IsWay(d, p, v) => v = w
    BY OneWay
  <2>2. W[p] = CHOOSE x \in Seq(Nat) : IsWay(d, p, x)
    OBVIOUS
  <2>3. W[p] \in Seq(Nat) /\ IsWay(d, p, W[p])
    BY <2>1, <2>2
  <2> QED BY <2>1, <2>3
<1>2. W[0] = << >>
  BY <1>0, <1>1, WaysClimb
<1>3. ASSUME NEW p \in DOMAIN d, NEW i \in DOMAIN d[p].panels
      PROVE  W[d[p].panels[i]] = Append(W[p], i)
  <2>1. IsWay(d, p, W[p]) /\ W[p] \in Seq(Nat)
    <3>1. \E w \in Seq(Nat) : IsWay(d, p, w)
      BY OneWay
    <3> QED BY <1>1, <3>1
  <2>2. d[p].panels[i] \in DOMAIN d /\ i \in Nat
    BY PanelSteps
  <2>3. IsWay(d, d[p].panels[i], Append(W[p], i)) /\ Append(W[p], i) \in Seq(Nat)
    BY <2>1, <2>2, WaysClimb, Appended
  <2> QED BY <1>1, <2>2, <2>3
<1>4. W \in [DOMAIN d -> Seq(Nat)]
  BY <1>1
<1> HIDE DEF W
<1> QED BY <1>2, <1>3, <1>4 DEF Ways

(* The way to a panel is the one way there is. *)
LEMMA TheWay ==
  ASSUME doc \in Dashboards, NEW W, Ways(doc, W)
  PROVE  WayTo = W
<1> DEFINE Row(p) == CHOOSE q \in DOMAIN doc : p \in Range(doc[q].panels)
           At2(p) == CHOOSE i \in DOMAIN doc[Row(p)].panels : doc[Row(p)].panels[i] = p
           Step(f) == [p \in DOMAIN doc |-> IF p = 0 THEN << >> ELSE Append(f[Row(p)], At2(p))]
<1>1. ASSUME NEW q \in DOMAIN doc, NEW i \in DOMAIN doc[q].panels
      PROVE  Row(doc[q].panels[i]) = q /\ At2(doc[q].panels[i]) = i
  <2>1. PICK p : p = doc[q].panels[i]
    OBVIOUS
  <2>2. p \in Range(doc[q].panels) /\ \A r \in DOMAIN doc : p \in Range(doc[r].panels) => r = q
    BY <2>1, DashboardsAssumption DEF IsTree, Range
  <2>3. Row(p) = q
    BY <2>2
  <2>4. \A j \in DOMAIN doc[q].panels : doc[q].panels[j] = p => j = i
    BY <2>1, DashboardsAssumption DEF IsTree
  <2>5. At2(p) = i
    BY <2>1, <2>3, <2>4
  <2> QED BY <2>1, <2>3, <2>5
<1> HIDE DEF Row, At2
<1>2. 0 \in DOMAIN doc
  BY DashboardsAssumption DEF IsTree
<1>3. \A q \in DOMAIN doc : \A i \in DOMAIN doc[q].panels :
         doc[q].panels[i] \in DOMAIN doc \ {0}
  BY PanelSteps
<1>4. ASSUME NEW f, f = Step(f) PROVE f = W
  <2> DEFINE S == {p \in DOMAIN doc : f[p] = W[p]}
  <2>1. 0 \in S
    BY <1>2, <1>4 DEF Ways
  <2>2. ASSUME NEW p \in S, NEW i \in DOMAIN doc[p].panels PROVE doc[p].panels[i] \in S
    <3>1. PICK r \in DOMAIN doc \ {0} : r = doc[p].panels[i]
      BY <1>3
    <3>2. f[r] = Append(f[Row(r)], At2(r))
      BY <1>4
    <3>3. Row(r) = p /\ At2(r) = i
      BY <1>1, <3>1
    <3>4. W[r] = Append(W[p], i)
      BY <3>1 DEF Ways
    <3> QED BY <3>1, <3>2, <3>3, <3>4
  <2>3. S = DOMAIN doc
    BY <2>1, <2>2, EveryPanel
  <2>4. DOMAIN f = DOMAIN doc /\ f = [p \in DOMAIN f |-> f[p]]
    BY <1>4
  <2>5. W = [p \in DOMAIN doc |-> W[p]]
    BY DEF Ways
  <2> QED BY <2>3, <2>4, <2>5
<1>5. W = Step(W)
  <2> DEFINE S == {p \in DOMAIN doc : W[p] = Step(W)[p]}
  <2>1. 0 \in S
    BY <1>2 DEF Ways
  <2>2. ASSUME NEW p \in S, NEW i \in DOMAIN doc[p].panels PROVE doc[p].panels[i] \in S
    <3>1. PICK r \in DOMAIN doc \ {0} : r = doc[p].panels[i]
      BY <1>3
    <3>2. Step(W)[r] = Append(W[Row(r)], At2(r))
      OBVIOUS
    <3>3. Row(r) = p /\ At2(r) = i
      BY <1>1, <3>1
    <3>4. W[r] = Append(W[p], i)
      BY <3>1 DEF Ways
    <3> QED BY <3>1, <3>2, <3>3, <3>4
  <2>3. S = DOMAIN doc
    BY <2>1, <2>2, EveryPanel
  <2>4. W = [p \in DOMAIN doc |-> W[p]]
    BY DEF Ways
  <2>5. Step(W) = [p \in DOMAIN doc |-> Step(W)[p]]
    OBVIOUS
  <2> HIDE DEF Step
  <2> QED BY <2>3, <2>4, <2>5
<1>6. WayTo = CHOOSE f : f = Step(f)
  BY DEF WayTo, Row, At2
<1>7. WayTo = Step(WayTo)
  BY <1>5, <1>6
<1> QED BY <1>4, <1>7

-----------------------------------------------------------------------------

(* The page is in order when it is read. *)
LEMMA PageBegins ==
  ASSUME NEW d \in Dashboards, ReadInto(d), NEW W
  PROVE  PageOrder(W)'
<1>1. toWalk' = <<PanelItem(0)>> /\ reports' = << >>
  BY DEF ReadInto
<1>2. DOMAIN toWalk' = 1..1 /\ DOMAIN reports' = {}
  BY <1>1
<1> QED BY <1>2 DEF PageOrder, Lined

(* Every step of the walk keeps the page in order. *)
LEMMA PageStep ==
  ASSUME doc \in Dashboards, Walking, Walk, NEW W, Ways(doc, W), PageOrder(W)
  PROVE  PageOrder(W)'
<1>1. CASE WalkPanel
  BY <1>1, PanelLined
<1>2. CASE SkipTarget
  <2>1. AtTarget /\ toWalk' = Tail(toWalk) /\ reports' = reports
    BY <1>2 DEF SkipTarget
  <2> QED BY <2>1, TargetLined
<1>3. CASE FailTarget \/ TranslateTarget
  <2>1. AtTarget /\ toWalk' = Tail(toWalk)
    BY <1>3 DEF FailTarget, TranslateTarget
  <2>2. \E failed, cost : reports' = Append(reports, Report(Here, failed, cost))
    BY <1>3 DEF FailTarget, TranslateTarget
  <2>3. \A failed, cost : Report(Here, failed, cost).at = Here
    BY DEF Report
  <2> QED BY <2>1, <2>2, <2>3, TargetLined
<1> QED BY <1>1, <1>2, <1>3 DEF Walk

(* Before anything is read there is no dashboard. *)
LEMMA PageInit == Init => PageInv
<1> SUFFICES ASSUME Init, doc \in Dashboards PROVE FALSE
  BY DEF PageInv, Init
<1>1. doc = << >> /\ 0 \in DOMAIN doc
  BY DashboardsAssumption DEF Init, IsTree
<1>2. \A s : s = << >> => DOMAIN s = {}
  OBVIOUS
<1> QED BY <1>1, <1>2

(* Every step of the commands keeps the page in order. *)
LEMMA PageNext == WalkInv /\ PageInv /\ [Next]_vars => PageInv'
<1> SUFFICES ASSUME WalkInv, PageInv, [Next]_vars PROVE PageInv'
  OBVIOUS
<1>1. CASE ReadDashboard
  <2>1. PICK d \in Dashboards : ReadInto(d)
    BY <1>1 DEF ReadDashboard
  <2>2. doc' = d
    BY <2>1 DEF ReadInto
  <2>3. PICK W : Ways(d, W)
    BY WaysExist
  <2>4. Ways(doc, W)' /\ PageOrder(W)'
    BY <2>1, <2>2, <2>3, PageBegins DEF Ways
  <2> QED BY <2>2, <2>4 DEF PageInv
<1>2. CASE WalkDashboard
  <2>1. doc' = doc /\ Walk
    BY <1>2 DEF WalkDashboard, Walk, WalkPanel, SkipTarget, FailTarget, TranslateTarget
  <2>2. doc \in Dashboards
    BY <1>2 DEF WalkDashboard, WalkInv
  <2> QED
    <3>1. Walking
      <4>1. ~Unread
        <5>1. 0 \in DOMAIN doc
          BY <2>2, DashboardsAssumption DEF IsTree
        <5>2. \A s : s = << >> => DOMAIN s = {}
          OBVIOUS
        <5> QED BY <5>1, <5>2 DEF Unread
      <4> QED BY <4>1 DEF WalkInv
    <3>2. PICK W : Ways(doc, W) /\ PageOrder(W)
      BY <2>2 DEF PageInv
    <3>3. PageOrder(W)'
      BY <2>1, <2>2, <3>1, <3>2, PageStep
    <3>4. Ways(doc, W)'
      BY <2>1, <3>2 DEF Ways
    <3> QED BY <2>1, <2>2, <3>3, <3>4 DEF PageInv
<1>3. CASE UNCHANGED dashboardVars
  <2>1. doc' = doc /\ toWalk' = toWalk /\ reports' = reports
    BY <1>3 DEF dashboardVars
  <2>2. \A W : Ways(doc, W) /\ PageOrder(W) => Ways(doc, W)' /\ PageOrder(W)'
    BY <2>1 DEF Ways, PageOrder, Ahead
  <2> QED BY <2>1, <2>2 DEF PageInv
<1>4. ReadDashboard \/ WalkDashboard \/ UNCHANGED dashboardVars
  BY DEF Next, Run, vars, Refuse, Check, FailToRead, ReadQueries, TranslateOne, RefuseSingle,
         RenderResults, RefuseFailures, WriteDashboard, WriteReport, Close, Kill, Exited,
         UnchangedButPc
<1> QED BY <1>1, <1>2, <1>3, <1>4

(* ReportsInPageOrder, of every dashboard: the reports are the page from top   *)
(* to bottom, however deep its rows go; walkPanels.                            *)
THEOREM ReportsFollowThePage == Spec => []ReportsInPageOrder
<1>1. Init => WalkInv /\ PageInv
  BY WalkInit, PageInit
<1>2. FilesInv /\ WalkInv /\ PageInv /\ [Next]_vars => WalkInv' /\ PageInv'
  BY WalkNext, PageNext
<1>3. FilesInv /\ WalkInv /\ PageInv => ReportsInPageOrder
  <2> SUFFICES ASSUME WalkInv, PageInv PROVE ReportsInPageOrder
    OBVIOUS
  <2>1. CASE doc \notin Dashboards
    BY <2>1 DEF ReportsInPageOrder, PageInv
  <2>2. CASE doc \in Dashboards
    <3>1. PICK W : Ways(doc, W) /\ PageOrder(W)
      BY <2>2 DEF PageInv
    <3>2. WayTo = W
      BY <2>2, <3>1, TheWay
    <3> QED BY <3>1, <3>2 DEF ReportsInPageOrder, PageOrder, Comes
  <2> QED BY <2>1, <2>2
<1> QED BY <1>1, <1>2, <1>3, Files, PTL DEF Spec

-----------------------------------------------------------------------------
(* Sums.                                                                      *)

(* Of numbers there is a least. *)
LEMMA LeastOf ==
  ASSUME NEW S, S \subseteq Nat, S # {}
  PROVE  \E m \in S : \A k \in S : m <= k
<1> DEFINE R == OpToRel(<, Nat)
<1>1. IsWellFoundedOn(R, Nat)
  BY NatLessThanWellFounded
<1>2. PICK m \in S : \A k \in S : <<k, m>> \notin R
  <2> HIDE DEF R
  <2> QED BY <1>1, WFMin
<1>3. \A k \in S : ~(k < m)
  BY <1>2 DEF OpToRel
<1> QED BY <1>3

(* The member of a set that a sum takes first. *)
First(s) == CHOOSE x \in s : TRUE

(* What holds of no members, and of a set when it holds of the set without the *)
(* member taken first, holds of every finite set.                              *)
LEMMA EverySubset ==
  ASSUME NEW S, IsFiniteSet(S), NEW G \in SUBSET (SUBSET S), {} \in G,
         \A s \in SUBSET S : s # {} /\ s \ {First(s)} \in G => s \in G
  PROVE  G = SUBSET S
<1> SUFFICES ASSUME G # SUBSET S PROVE FALSE
  OBVIOUS
<1> DEFINE sizes == {Cardinality(s) : s \in (SUBSET S) \ G}
<1>1. \A s \in SUBSET S : IsFiniteSet(s) /\ Cardinality(s) \in Nat
  BY FS_Subset, FS_CardinalityType
<1>2. sizes \subseteq Nat /\ sizes # {}
  BY <1>1
<1>3. PICK m \in sizes : \A k \in sizes : m <= k
  <2> HIDE DEF sizes
  <2> QED BY <1>2, LeastOf
<1>4. PICK s \in (SUBSET S) \ G : Cardinality(s) = m
  OBVIOUS
<1>5. s # {} /\ First(s) \in s
  BY DEF First
<1>6. Cardinality(s \ {First(s)}) = Cardinality(s) - 1
  BY <1>1, <1>5, FS_RemoveElement
<1>7. s \ {First(s)} \in (SUBSET S) \ G
  BY <1>5
<1>8. Cardinality(s \ {First(s)}) \in sizes
  BY <1>7
<1> HIDE DEF sizes
<1> QED BY <1>1, <1>2, <1>3, <1>4, <1>6, <1>8

-----------------------------------------------------------------------------
(* A sum of numbers.                                                          *)

(* Pairs of a set and the sum over it. *)
Adds(S, f, g) ==
    /\ <<{}, 0>> \in g
    /\ \A s \in SUBSET S, n \in Nat : s # {} /\ <<s \ {First(s)}, n>> \in g =>
          <<s, f[First(s)] + n>> \in g
IsTotal(S, f, s, n) == \A g \in SUBSET ((SUBSET S) \X Nat) : Adds(S, f, g) => <<s, n>> \in g

(* No members come to nothing, and the member taken first is added. *)
LEMMA TotalsAdd ==
  ASSUME NEW S, NEW f
  PROVE  /\ IsTotal(S, f, {}, 0)
         /\ \A s \in SUBSET S, n \in Nat : s # {} /\ IsTotal(S, f, s \ {First(s)}, n) =>
               IsTotal(S, f, s, f[First(s)] + n)
BY DEF IsTotal, Adds

(* A total that adds the member taken first to the total of the others. *)
Added(S, f, s, n) ==
    \E m \in Nat : IsTotal(S, f, s \ {First(s)}, m) /\ n = f[First(s)] + m

(* A total is nothing, or comes of adding the member taken first. *)
LEMMA TotalsAdded ==
  ASSUME NEW S, NEW f \in [S -> Nat], NEW s \in SUBSET S, NEW n \in Nat, IsTotal(S, f, s, n)
  PROVE  (s = {} /\ n = 0) \/ (s # {} /\ Added(S, f, s, n))
<1> DEFINE g == {z \in (SUBSET S) \X Nat : IsTotal(S, f, z[1], z[2]) /\
                    ((z[1] = {} /\ z[2] = 0) \/ (z[1] # {} /\ Added(S, f, z[1], z[2])))}
<1>1. <<{}, 0>> \in g
  BY TotalsAdd
<1>2. ASSUME NEW t \in SUBSET S, NEW m \in Nat, t # {}, <<t \ {First(t)}, m>> \in g
      PROVE  <<t, f[First(t)] + m>> \in g
  <2>1. PICK k \in Nat : k = f[First(t)] + m
    <3>1. First(t) \in t
      BY <1>2 DEF First
    <3>2. f[First(t)] \in Nat
      BY <3>1
    <3> QED BY <3>2
  <2>2. IsTotal(S, f, t \ {First(t)}, m)
    BY <1>2
  <2>3. IsTotal(S, f, t, k)
    BY <1>2, <2>1, <2>2, TotalsAdd
  <2>4. Added(S, f, t, k)
    BY <2>1, <2>2 DEF Added
  <2>5. <<t, k>> \in g
    BY <1>2, <2>3, <2>4
  <2> QED BY <2>1, <2>5
<1>3. Adds(S, f, g) /\ g \in SUBSET ((SUBSET S) \X Nat)
  BY <1>1, <1>2 DEF Adds
<1>4. <<s, n>> \in g
  <2> HIDE DEF g
  <2> QED BY <1>3 DEF IsTotal
<1> QED BY <1>4

(* A finite set has one total. *)
LEMMA OneTotal ==
  ASSUME NEW S, IsFiniteSet(S), NEW f \in [S -> Nat], NEW s \in SUBSET S
  PROVE  \E n \in Nat : IsTotal(S, f, s, n) /\ \A m \in Nat : IsTotal(S, f, s, m) => m = n
<1> DEFINE G == {t \in SUBSET S : \E n \in Nat : IsTotal(S, f, t, n) /\
                                     \A m \in Nat : IsTotal(S, f, t, m) => m = n}
<1>1. {} \in G
  BY TotalsAdd, TotalsAdded
<1>2. ASSUME NEW t \in SUBSET S, t # {}, t \ {First(t)} \in G PROVE t \in G
  <2>1. PICK n \in Nat : /\ IsTotal(S, f, t \ {First(t)}, n)
                         /\ \A m \in Nat : IsTotal(S, f, t \ {First(t)}, m) => m = n
    BY <1>2
  <2>2. PICK k \in Nat : k = f[First(t)] + n
    <3>1. First(t) \in t
      BY <1>2 DEF First
    <3>2. f[First(t)] \in Nat
      BY <3>1
    <3> QED BY <3>2
  <2>3. IsTotal(S, f, t, k)
    BY <1>2, <2>1, <2>2, TotalsAdd
  <2>4. ASSUME NEW m \in Nat, IsTotal(S, f, t, m) PROVE m = k
    <3>1. Added(S, f, t, m)
      BY <1>2, <2>4, TotalsAdded
    <3>2. PICK j \in Nat : IsTotal(S, f, t \ {First(t)}, j) /\ m = f[First(t)] + j
      BY <3>1 DEF Added
    <3>3. j = n
      BY <2>1, <3>2
    <3> QED BY <2>2, <3>2, <3>3
  <2> QED BY <2>3, <2>4
<1>3. G = SUBSET S
  <2>1. G \in SUBSET (SUBSET S)
    OBVIOUS
  <2> HIDE DEF G
  <2> QED BY <1>1, <1>2, <2>1, EverySubset
<1> QED BY <1>3

(* A sum is a number, and nothing only if everything it is over is nothing. *)
LEMMA SumOfNothing ==
  ASSUME NEW S, IsFiniteSet(S), NEW f, NEW h \in [S -> Nat], \A x \in S : f[x] = h[x]
  PROVE  /\ SumFunctionOnSet(f, S) \in Nat
         /\ SumFunctionOnSet(f, S) = 0 => \A x \in S : f[x] = 0
<1> DEFINE Step(g) == [s \in SUBSET S |-> IF s = {} THEN 0
                                          ELSE f[First(s)] + g[s \ {First(s)}]]
           total == [s \in SUBSET S |-> CHOOSE n \in Nat : IsTotal(S, h, s, n)]
<1>1. ASSUME NEW s \in SUBSET S
      PROVE  /\ total[s] \in Nat /\ IsTotal(S, h, s, total[s])
             /\ \A n \in Nat : IsTotal(S, h, s, n) => n = total[s]
  <2>1. PICK n \in Nat : IsTotal(S, h, s, n) /\ \A m \in Nat : IsTotal(S, h, s, m) => m = n
    BY OneTotal
  <2>2. total[s] = CHOOSE m \in Nat : IsTotal(S, h, s, m)
    OBVIOUS
  <2>3. total[s] \in Nat /\ IsTotal(S, h, s, total[s])
    BY <2>1, <2>2
  <2> QED BY <2>1, <2>3
<1>2. total = Step(total)
  <2>1. ASSUME NEW s \in SUBSET S PROVE total[s] = Step(total)[s]
    <3>1. CASE s = {}
      BY <1>1, <3>1, TotalsAdd
    <3>2. CASE s # {}
      <4>1. First(s) \in S /\ s \ {First(s)} \in SUBSET S
        BY <3>2 DEF First
      <4>2. PICK n \in Nat : n = h[First(s)] + total[s \ {First(s)}] /\ n = Step(total)[s]
        <5>1. total[s \ {First(s)}] \in Nat
          BY <1>1, <4>1
        <5> HIDE DEF total
        <5> QED BY <3>2, <4>1, <5>1
      <4>3. IsTotal(S, h, s, n)
        <5> HIDE DEF total
        <5> QED BY <1>1, <3>2, <4>1, <4>2, TotalsAdd
      <4> QED BY <1>1, <4>2, <4>3
    <3> QED BY <3>1, <3>2
  <2>2. total = [s \in SUBSET S |-> total[s]]
    OBVIOUS
  <2>3. Step(total) = [s \in SUBSET S |-> Step(total)[s]]
    OBVIOUS
  <2> HIDE DEF total, Step
  <2> QED BY <2>1, <2>2, <2>3
<1> HIDE DEF total
<1> DEFINE sum == CHOOSE g : g = Step(g)
<1>3. sum = Step(sum)
  BY <1>2
<1>4. SumFunctionOnSet(f, S) = sum[S]
  BY DEF SumFunctionOnSet, FoldFunctionOnSet, MapThenFoldSet, First
<1> HIDE DEF sum
<1> DEFINE G == {s \in SUBSET S : sum[s] \in Nat /\ (sum[s] = 0 => \A x \in s : f[x] = 0)}
<1>5. {} \in G
  <2>1. sum[{}] = 0
    BY <1>3
  <2> QED BY <2>1
<1>6. ASSUME NEW s \in SUBSET S, s # {}, s \ {First(s)} \in G PROVE s \in G
  <2>1. sum[s] = f[First(s)] + sum[s \ {First(s)}]
    BY <1>3, <1>6
  <2>2. First(s) \in s /\ f[First(s)] \in Nat
    BY <1>6 DEF First
  <2>3. sum[s] \in Nat
    BY <1>6, <2>1, <2>2
  <2>4. sum[s] = 0 => f[First(s)] = 0 /\ sum[s \ {First(s)}] = 0
    BY <1>6, <2>1, <2>2
  <2> QED BY <1>6, <2>3, <2>4
<1>7. G = SUBSET S
  <2>1. G \in SUBSET (SUBSET S)
    OBVIOUS
  <2> HIDE DEF G
  <2> QED BY <1>5, <1>6, <2>1, EverySubset
<1> QED BY <1>4, <1>7

-----------------------------------------------------------------------------
(* What is lost, and what is said of it.                                      *)

(* A report says of its expression what the compiler made of it. *)
Priced(r) ==
    /\ r.failed <=> ~Translates(r.original)
    /\ ~r.failed => r.cost = Translation[r.original]

QuietInv ==
    /\ \A i \in DOMAIN reports : Priced(reports[i])
    /\ Trans => doc = << >>
    /\ Dash => results = << >>
    /\ NoQueryLostQuietly

(* What a translation costs: a query without text has something unsupported.  *)
LEMMA Costs ==
  ASSUME NEW c \in DOMAIN Translation
  PROVE  /\ Translation[c].partial \in Nat /\ Translation[c].unsupported \in Nat
         /\ Translation[c].query = "" => Translation[c].unsupported # 0
<1>1. DOMAIN Translation = {"exact", "approximate", "mismatched", "lossy", "inexpressible"}
  BY DEF Translation
<1>2. CASE c = "exact"
  BY <1>2 DEF Translation, Cost
<1>3. CASE c = "approximate"
  BY <1>3 DEF Translation, Cost
<1>4. CASE c = "mismatched"
  BY <1>4 DEF Translation, Cost
<1>5. CASE c = "lossy"
  BY <1>5 DEF Translation, Cost
<1>6. CASE c = "inexpressible"
  <2>1. PICK text : Translation[c] = Cost(text, 0, 2, FALSE)
    BY <1>6 DEF Translation
  <2>2. Translation[c].partial = 0 /\ Translation[c].unsupported = 2
    BY <2>1 DEF Cost
  <2> QED BY <2>2
<1> QED BY <1>1, <1>2, <1>3, <1>4, <1>5, <1>6

(* The worst code is no better than that of any query. *)
LEMMA WorstOfAll ==
  ASSUME worst = exitOK, NEW i \in DOMAIN results
  PROVE  exitCodeFor(results[i]) = exitOK
<1> DEFINE codes == {exitOK} \cup {exitCodeFor(results[j]) : j \in DOMAIN results}
<1>1. codes \subseteq {0, 1, 2} /\ 0 \in codes
  <2>1. \A j \in DOMAIN results : exitCodeFor(results[j]) \in {0, 1, 2}
    BY DEF exitCodeFor, exitOK, exitFidelity, exitError
  <2> QED BY <2>1 DEF exitOK
<1>2. exitCodeFor(results[i]) \in codes
  OBVIOUS
<1> HIDE DEF codes
<1>3. \E x \in codes : \A y \in codes : x >= y
  <2>1. CASE 2 \in codes
    BY <1>1, <2>1
  <2>2. CASE 2 \notin codes /\ 1 \in codes
    BY <1>1, <2>2
  <2>3. CASE 2 \notin codes /\ 1 \notin codes
    BY <1>1, <2>3
  <2> QED BY <2>1, <2>2, <2>3
<1>4. \A y \in codes : Max(codes) >= y
  BY <1>3 DEF Max
<1>5. Max(codes) = 0
  <2>1. worst = Max(codes)
    BY DEF worst, codes
  <2> QED BY <2>1 DEF exitOK
<1>6. \A y \in codes : y = 0
  BY <1>1, <1>4, <1>5
<1> QED BY <1>2, <1>6 DEF exitOK

(* A class whose code is that of success is exact. *)
LEMMA SuccessIsExact ==
  ASSUME NEW c, exitCodeFor(c) = exitOK
  PROVE  Exact(c)
<1>1. Translates(c) /\ c \in DOMAIN Translation
  BY DEF exitCodeFor, exitOK, exitError, Translates
<1>2. PICK u, p : u = Translation[c].unsupported /\ p = Translation[c].partial
  OBVIOUS
<1>3. u \in Nat /\ p \in Nat
  BY <1>1, <1>2, Costs
<1>0. Translation[c].query = "" => u # 0
  BY <1>1, <1>2, Costs
<1>4. ~(u > 0)
  BY <1>1, <1>2 DEF exitCodeFor, exitOK, exitFidelity
<1>5. ~(p > 0 /\ flags.failOnPartial)
  BY <1>1, <1>2 DEF exitCodeFor, exitOK, exitFidelity
<1>6. ~(Translation[c].mismatch /\ flags.failOnMismatch)
  BY <1>1 DEF exitCodeFor, exitOK, exitFidelity
<1>7. u = 0 /\ (p = 0 \/ ~flags.failOnPartial)
  <2>1. u = 0
    BY <1>3, <1>4
  <2>2. p = 0 \/ p > 0
    BY <1>3
  <2> QED BY <1>5, <2>1, <2>2
<1>8. Translation[c].query # "" /\ Translation[c].unsupported = 0
  BY <1>0, <1>2, <1>7
<1>9. Translation[c].partial = 0 \/ ~flags.failOnPartial
  BY <1>2, <1>7
<1> QED BY <1>1, <1>6, <1>8, <1>9 DEF Exact

(* translate says of all it writes whether anything was lost. *)
LEMMA QuietRender ==
  ASSUME FilesInv, QuietInv, RenderResults, exit' = exitOK
  PROVE  NoQueryLostQuietly'
<1>1. Trans /\ worst = exitOK /\ UNCHANGED <<flags, results, doc, expr>>
  BY DEF RenderResults, TranslatedAll, Finish, exitOK, exitError, dashboardVars
<1>2. \A i \in DOMAIN results : Exact(results[i])
  BY <1>1, WorstOfAll, SuccessIsExact
<1>3. DOMAIN expr = {}
  BY <1>1 DEF QuietInv, FilesInv, TypeOK
<1>4. \A c : Exact(c)' <=> Exact(c)
  BY <1>1 DEF Exact, Dash
<1> QED BY <1>1, <1>2, <1>3, <1>4 DEF NoQueryLostQuietly

(* Nothing counted is nothing anywhere. *)
LEMMA NothingCounted ==
  ASSUME reports \in Seq(Reported), Failures = {},
         NEW column, \A r \in Reported : r.cost[column] \in Nat
  PROVE  /\ Count(column) \in Nat
         /\ Count(column) = 0 => \A i \in DOMAIN reports : reports[i].cost[column] = 0
<1> DEFINE f == [i \in DOMAIN reports |-> reports[i].cost[column]]
<1>1. Len(reports) \in Nat /\ DOMAIN reports = 1..Len(reports) /\ Parts = DOMAIN reports
  BY Positions DEF Parts
<1>2. IsFiniteSet(Parts)
  BY <1>1, FS_Interval
<1>3. \A i \in DOMAIN reports : reports[i] \in Reported
  BY Positions
<1>4. f \in [Parts -> Nat] /\ \A i \in Parts : f[i] = reports[i].cost[column]
  BY <1>1, <1>3
<1>5. Count(column) = SumFunctionOnSet(f, Parts)
  BY DEF Count
<1> HIDE DEF f
<1>6. /\ SumFunctionOnSet(f, Parts) \in Nat
      /\ SumFunctionOnSet(f, Parts) = 0 => \A i \in Parts : f[i] = 0
  BY <1>2, <1>4, SumOfNothing
<1> QED BY <1>1, <1>4, <1>5, <1>6

(* What a report may cost. *)
LEMMA ReportCosts ==
  ASSUME NEW r \in Reported
  PROVE  r.cost.partial \in Nat /\ r.cost.unsupported \in Nat
<1>1. r.cost = NoCost \/ \E c \in DOMAIN Translation : r.cost = Translation[c]
  BY DEF Reported
<1>2. NoCost.partial = 0 /\ NoCost.unsupported = 0
  BY DEF NoCost, Cost
<1>3. \A c \in DOMAIN Translation :
         Translation[c].partial \in Nat /\ Translation[c].unsupported \in Nat
  BY Costs
<1> QED BY <1>1, <1>2, <1>3

(* The summary is empty only if every report is. *)
LEMMA SummaryOfNothing ==
  ASSUME reports \in Seq(Reported), outcome = exitOK
  PROVE  \A i \in DOMAIN reports :
            /\ ~reports[i].failed /\ reports[i].cost.unsupported = 0
            /\ reports[i].cost.partial = 0 \/ ~flags.failOnPartial
<1>1. Failures = {} /\ ~(Summary.unsupported > 0) /\ ~(Summary.partial > 0 /\ flags.failOnPartial)
  BY DEF outcome, exitOK, exitFidelity
<1>2. Summary.unsupported = Count("unsupported") /\ Summary.partial = Count("partial")
  BY DEF Summary
<1>3. PICK u, p : u = Count("unsupported") /\ p = Count("partial")
  OBVIOUS
<1>4. \A r \in Reported : r.cost["partial"] \in Nat /\ r.cost["unsupported"] \in Nat
  BY ReportCosts
<1>5. u \in Nat /\ (u = 0 => \A i \in DOMAIN reports : reports[i].cost["unsupported"] = 0)
  BY <1>1, <1>3, <1>4, NothingCounted
<1>6. p \in Nat /\ (p = 0 => \A i \in DOMAIN reports : reports[i].cost["partial"] = 0)
  BY <1>1, <1>3, <1>4, NothingCounted
<1>7. u = 0 /\ (p = 0 \/ ~flags.failOnPartial)
  BY <1>1, <1>2, <1>3, <1>5, <1>6
<1>8. \A i \in DOMAIN reports : ~reports[i].failed
  BY <1>1 DEF Failures
<1> QED BY <1>5, <1>6, <1>7, <1>8

(* What a report of success says of its expression. *)
LEMMA SummaryIsExact ==
  ASSUME reports \in Seq(Reported), outcome = exitOK, Dash, NEW i \in DOMAIN reports,
         Priced(reports[i])
  PROVE  Exact(reports[i].original)
<1>1. PICK c : c = reports[i].original
  OBVIOUS
<1>2. /\ ~reports[i].failed /\ reports[i].cost.unsupported = 0
      /\ reports[i].cost.partial = 0 \/ ~flags.failOnPartial
  BY SummaryOfNothing
<1>3. Translates(c) /\ reports[i].cost = Translation[c]
  BY <1>1, <1>2 DEF Priced
<1>4. c \in DOMAIN Translation
  BY <1>3 DEF Translates
<1>5. Translation[c].query # ""
  BY <1>2, <1>3, <1>4, Costs
<1> QED BY <1>1, <1>2, <1>3, <1>5 DEF Exact

(* dashboard translate says of all it walked whether anything was lost. *)
LEMMA QuietReport ==
  ASSUME FilesInv, WalkInv, QuietInv, WriteReport, exit' = exitOK
  PROVE  NoQueryLostQuietly'
<1>1. At("reporting") /\ outcome = exitOK /\ UNCHANGED <<flags, results, doc, expr>>
  BY DEF WriteReport, Finish, exitOK, exitError, dashboardVars
<1>2. Dash /\ WholeAt(flags.output, "dashboard")
  BY <1>1 DEF FilesInv
<1>3. results = << >> /\ DOMAIN results = {}
  BY <1>2 DEF QuietInv
<1>5. ASSUME NEW x \in DOMAIN expr, ~Blank(Original(doc, x)) PROVE Exact(Original(doc, x))
  <2>1. Kept(x)
    BY <1>2, PanelsKept DEF PanelsKeepTheirs, Kept
  <2>2. PICK i \in DOMAIN reports : reports[i].original = Original(doc, x)
    BY <1>5, <2>1 DEF Kept, ReportFor
  <2>3. reports \in Seq(Reported)
    <3>1. DOMAIN << >> = {}
      OBVIOUS
    <3> QED BY <3>1 DEF WalkInv, Walking, Unread
  <2> QED BY <1>1, <1>2, <2>2, <2>3, SummaryIsExact DEF QuietInv
<1>6. /\ \A i \in DOMAIN results : Exact(results[i])
      /\ \A x \in DOMAIN expr : Blank(Original(doc, x)) \/ Exact(Original(doc, x))
  BY <1>3, <1>5
<1> QED BY <1>1, <1>6 DEF NoQueryLostQuietly, Exact, Dash, Original, Blank

(* A step of the walk gives every report its price. *)
LEMMA WalkPrices ==
  ASSUME doc \in Dashboards, Walking, Walk, \A i \in DOMAIN reports : Priced(reports[i])
  PROVE  \A i \in DOMAIN reports' : Priced(reports'[i])
<1>1. CASE reports' = reports
  BY <1>1
<1>2. ASSUME NEW r, Priced(r), reports' = Append(reports, r)
      PROVE  \A i \in DOMAIN reports' : Priced(reports'[i])
  <2>1. PICK n \in Nat : n = Len(reports)
    BY Positions DEF Walking
  <2>2. /\ DOMAIN reports = 1..n /\ DOMAIN reports' = 1..(n + 1)
        /\ \A i \in 1..n : reports'[i] = reports[i]
        /\ reports'[n + 1] = r
    BY <1>2, <2>1 DEF Walking
  <2> SUFFICES ASSUME NEW i \in 1..(n + 1) PROVE Priced(reports'[i])
    BY <2>2
  <2>3. CASE i \in 1..n
    BY <2>2, <2>3
  <2>4. CASE i = n + 1
    BY <1>2, <2>2, <2>4
  <2> QED BY <2>3, <2>4
<1>3. PICK text : text = expr[Here]
  OBVIOUS
<1>4. CASE FailTarget
  <2>1. PICK r : r = Report(Here, TRUE, NoCost)
    OBVIOUS
  <2>2. r.failed = TRUE /\ r.original = text
    BY <1>3, <2>1 DEF Report
  <2>3. ~Translates(text) /\ reports' = Append(reports, r)
    BY <1>3, <1>4, <2>1 DEF FailTarget
  <2>4. Priced(r)
    BY <2>2, <2>3 DEF Priced
  <2> QED BY <1>2, <2>3, <2>4
<1>5. CASE TranslateTarget
  <2>1. PICK r : r = Report(Here, FALSE, Translation[text])
    OBVIOUS
  <2>2. r.failed = FALSE /\ r.original = text /\ r.cost = Translation[text]
    BY <1>3, <2>1 DEF Report
  <2>3. Translates(text) /\ reports' = Append(reports, r)
    BY <1>3, <1>5, <2>1 DEF TranslateTarget
  <2>4. Priced(r)
    BY <2>2, <2>3 DEF Priced
  <2> QED BY <1>2, <2>3, <2>4
<1> QED BY <1>1, <1>4, <1>5 DEF Walk, WalkPanel, SkipTarget

(* Nothing is lost before anything is done. *)
LEMMA QuietInit == Init => QuietInv
<1> SUFFICES ASSUME Init PROVE QuietInv
  OBVIOUS
<1>1. DOMAIN reports = {}
  <2>1. DOMAIN << >> = {}
    OBVIOUS
  <2> QED BY <2>1 DEF Init
<1>2. exit # exitOK
  BY DEF Init, NotYet, exitOK
<1> QED BY <1>1, <1>2 DEF Init, QuietInv, NoQueryLostQuietly

(* A step that reads nothing, writes nothing and does not end well. *)
LEMMA QuietKept ==
  ASSUME QuietInv, flags' = flags, doc' = doc, results' = results, reports' = reports,
         exit' # exitOK \/ (exit' = exit /\ expr' = expr)
  PROVE  QuietInv'
<1>1. NoQueryLostQuietly'
  BY DEF QuietInv, NoQueryLostQuietly, Exact, Dash, Original, Blank
<1> QED BY <1>1 DEF QuietInv, Trans, Dash

(* Every step of the commands says what it loses. *)
LEMMA QuietNext == FilesInv /\ WalkInv /\ QuietInv /\ [Next]_vars => QuietInv'
<1> SUFFICES ASSUME FilesInv, WalkInv, QuietInv, [Next]_vars PROVE QuietInv'
  OBVIOUS
<1>0. /\ Trans <=> ~Dash
      /\ exit = exitOK => At("exited")
  BY Named DEF FilesInv, TypeOK, Trans, Dash, exitOK, NotYet
<1>1. CASE ReadDashboard
  <2>1. Dash /\ reports' = << >> /\ flags' = flags /\ results' = results /\ exit' = exit
    BY <1>1 DEF ReadDashboard, ReadInto
  <2>2. exit' # exitOK
    BY <1>0, <1>1, <2>1 DEF ReadDashboard, At
  <2>3. DOMAIN reports' = {}
    BY <2>1
  <2> QED BY <1>0, <2>1, <2>2, <2>3 DEF QuietInv, NoQueryLostQuietly, Dash, Trans
<1>2. CASE WalkDashboard
  <2>1. /\ Walk /\ doc' = doc /\ flags' = flags /\ results' = results /\ exit' = exit
        /\ At("translating") /\ Dash
    BY <1>2 DEF WalkDashboard, Walk, WalkPanel, SkipTarget, FailTarget, TranslateTarget
  <2>2. exit' # exitOK
    BY <1>0, <2>1 DEF At
  <2>3. doc \in Dashboards /\ Walking
    <3>1. doc \in Dashboards
      BY <2>1 DEF WalkInv
    <3>2. 0 \in DOMAIN doc
      BY <3>1, DashboardsAssumption DEF IsTree
    <3>3. \A s : s = << >> => DOMAIN s = {}
      OBVIOUS
    <3> QED BY <3>1, <3>2, <3>3 DEF WalkInv, Unread
  <2>4. \A i \in DOMAIN reports' : Priced(reports'[i])
    BY <2>1, <2>3, WalkPrices DEF QuietInv
  <2>5. (\A i \in DOMAIN reports : Priced(reports[i]))'
    BY <2>4 DEF Priced
  <2> QED BY <2>1, <2>2, <2>5 DEF QuietInv, NoQueryLostQuietly, Dash, Trans
<1>3. CASE TranslateOne
  <2>1. Trans /\ UNCHANGED <<flags, exit, doc, reports>> /\ At("translating")
    BY <1>3 DEF TranslateOne, dashboardVars
  <2>2. exit' # exitOK
    BY <1>0, <2>1 DEF At
  <2> QED BY <1>0, <2>1, <2>2 DEF QuietInv, NoQueryLostQuietly, Dash, Trans
<1>4. CASE RenderResults \/ WriteReport
  <2>1. UNCHANGED <<flags, results, doc, reports>>
    BY <1>4 DEF RenderResults, WriteReport, dashboardVars
  <2>2. CASE exit' = exitOK
    <3>1. NoQueryLostQuietly'
      BY <1>4, <2>2, QuietRender, QuietReport
    <3> QED BY <2>1, <3>1 DEF QuietInv, Dash, Trans
  <2> QED BY <2>1, <2>2, QuietKept
<1>5. CASE UNCHANGED <<flags, results, exit, dashboardVars>>
  BY <1>5, QuietKept DEF dashboardVars
<1>6. CASE Refuse \/ FailToRead \/ RefuseSingle \/ RefuseFailures \/ Kill
  <2>1. UNCHANGED <<flags, results, dashboardVars>> /\ exit' # exitOK
    BY <1>6 DEF Refuse, FailToRead, RefuseSingle, RefuseFailures, Kill, UnchangedButPc, Finish,
                exitOK, exitError, Killed
  <2> QED BY <2>1, QuietKept DEF dashboardVars
<1>7. CASE WriteDashboard
  <2>1. UNCHANGED <<flags, results, dashboardVars>> /\ (exit' = exit \/ exit' # exitOK)
    BY <1>7 DEF WriteDashboard, Finish, exitOK, exitError
  <2> QED BY <2>1, QuietKept DEF dashboardVars
<1>8. \/ ReadDashboard \/ WalkDashboard \/ TranslateOne \/ RenderResults \/ WriteReport
      \/ Refuse \/ FailToRead \/ RefuseSingle \/ RefuseFailures \/ Kill \/ WriteDashboard
      \/ UNCHANGED <<flags, results, exit, dashboardVars>>
  BY DEF Next, Run, Check, ReadQueries, Close, Exited, vars, UnchangedButPc
<1> QED BY <1>1, <1>2, <1>3, <1>4, <1>5, <1>6, <1>7, <1>8

(* NoQueryLostQuietly, of lists and dashboards of any size: success is said    *)
(* only where nothing was lost; exitCodeFor, worst and Aggregate.              *)
THEOREM SuccessLosesNothing == Spec => []NoQueryLostQuietly
<1>1. Spec => []WalkInv
  BY WalkInit, WalkNext, Files, PTL DEF Spec
<1>2. QuietInv => NoQueryLostQuietly
  BY DEF QuietInv
<1> QED BY <1>1, <1>2, QuietInit, QuietNext, Files, PTL DEF Spec
=============================================================================
