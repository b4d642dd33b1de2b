---------------------------- MODULE LogQLEmitter ----------------------------
(***************************************************************************)
(* Emission of a validated query as LogQL.                                  *)
(*                                                                         *)
(* The expression being written is abstracted to the set of nodes its text  *)
(* holds and to the phase of the language it is in: a log expression, to    *)
(* which pipeline stages may be appended, or samples.  A nested query is    *)
(* written in a frame of its own, since emitQuery calls itself for the      *)
(* operands of an operator.                                                 *)
(***************************************************************************)
EXTENDS Validator

VARIABLES
    frames,         \* emitQuery calls in progress, outermost first
    offsetWritten,  \* writer.offsetWritten: some range has carried an offset
    notes,          \* the nodes the comment lines above the query speak of
    written         \* the nodes the finished text holds

emitterVars == <<frames, offsetWritten, notes, written>>

(* A frame: the query, the stage it has come to, the rendered expression, and, *)
(* while an operator's operands are being written, those still to come and    *)
(* what the finished ones hold.                                               *)
Frame(q) ==
    [q |-> q, at |-> 1,
     text |-> IF query[q].source = "none" THEN {} ELSE {<<"Source", q>>},
     logPhase |-> query[q].source # "none",
     operands |-> << >>, operandText |-> {}]

Flagged(n) == flag[n] = UNSUPPORTED

(* What emitQuery notes before it writes anything. *)
EntryNotes(q) ==
    {n \in {QueryNode(q)} : Flagged(n)}
      \cup {n \in {<<"Output", q>>} : IsSubquery(q)}
      \cup {n \in {<<"Range", q>>} : query[q].pinned > 0}

Frame1 == frames[Len(frames)]
Outer == SubSeq(frames, 1, Len(frames) - 1)

Here == Pipeline(Frame1.q)[Frame1.at]
AtStage == frames # << >> /\ Frame1.at <= Len(Pipeline(Frame1.q))
Applicable(type) ==
    AtStage /\ stage[Here].type = type /\ ~Flagged(StageNode(Here))

StartEmission(root) ==
    /\ frames' = <<Frame(root)>>
    /\ notes' = notes \cup EntryNotes(root)
    /\ UNCHANGED <<offsetWritten, written>>

(* Mutant: the stage is written but not left behind. *)
RenderAgain(text, logPhase) ==
    frames' = Append(Outer, [Frame1 EXCEPT !.text = text, !.logPhase = logPhase])

(* The expression after a stage: what its text holds and the phase it is in. *)
Render(text, logPhase) ==
    frames' = Append(Outer, [Frame1 EXCEPT !.text = text, !.logPhase = logPhase,
                                           !.at = @ + 1])

Append1(logPhase) ==
    /\ Render(Frame1.text \cup {StageNode(Here)}, logPhase)
    /\ UNCHANGED <<offsetWritten, notes, written>>

(* The stage is left out, and a note says so. *)
Drop ==
    /\ Render(Frame1.text, Frame1.logPhase)
    /\ notes' = notes \cup {StageNode(Here)}
    /\ UNCHANGED <<offsetWritten, written>>

(* Mutant: the range is closed over the selector alone. *)
CloseRangeOverNothing ==
    /\ Render({<<"Source", Frame1.q>>, StageNode(Here)}, FALSE)
    /\ UNCHANGED <<offsetWritten, notes, written>>

(* The log expression takes its window, and the window its offset. *)
CloseRange ==
    LET window == <<"Window", Frame1.q>>
        offset == query[Frame1.q].offset > 0
    IN  /\ Render(Frame1.text \cup {StageNode(Here)} \cup {n \in {window} : offset}, FALSE)
        /\ offsetWritten' = (offsetWritten \/ offset)
        /\ UNCHANGED <<notes, written>>

-----------------------------------------------------------------------------
(* applyStage. *)

SkipFlagged ==
    /\ AtStage /\ Flagged(StageNode(Here))
    /\ Drop

ApplyAggregation ==
    /\ Applicable("Aggregation")
    /\ LET st == stage[Here] IN
         \/ /\ ~FunctionForAggregation(def, st.what, st.scope)
            /\ Drop
         \/ /\ FunctionForAggregation(def, st.what, st.scope)
            /\ st.scope = "TEMPORAL"                     \* applyRangeAggregation
            /\ IF Frame1.logPhase THEN CloseRange ELSE Drop
         \/ /\ FunctionForAggregation(def, st.what, st.scope)
            /\ st.scope = "GROUP"                        \* applyVectorAggregation
            /\ IF Frame1.logPhase THEN Drop ELSE Append1(FALSE)

ApplyFunction ==
    /\ Applicable("Function")
    /\ LET name == stage[Here].what IN
         \/ /\ name = "literal"
            /\ Render({StageNode(Here)}, FALSE)
            /\ UNCHANGED <<offsetWritten, notes, written>>
         \/ /\ name \in LogStages                        \* applyPipelineStage
            /\ IF Frame1.logPhase THEN Append1(TRUE) ELSE Drop
         \/ /\ name \in RangeFunctions
            /\ IF Frame1.logPhase THEN CloseRange ELSE Append1(FALSE)
         \/ /\ name \in def.functions \ (LogStages \cup RangeFunctions)
            /\ Append1(Frame1.logPhase)

(* applyValueComparison: a bool is not written, and a note says that the      *)
(* comparison filters instead.                                                *)
WriteComparison ==
    /\ Render(Frame1.text \cup {StageNode(Here)}, FALSE)
    /\ notes' = notes \cup {n \in {<<"Predicate", Here>>} : stage[Here].bool > 0}
    /\ UNCHANGED <<offsetWritten, written>>

(* A filter on a log expression is written whatever it addresses; one over    *)
(* samples can only compare the value.                                        *)
ApplyFilter ==
    /\ Applicable("Filter")
    /\ IF Frame1.logPhase THEN Append1(TRUE)
       ELSE IF stage[Here].what = FieldValue THEN WriteComparison
       ELSE Drop

(* The operator a join left behind has nothing of its own to write. *)
ApplyBareOperator ==
    /\ Applicable("BinaryOp") /\ ~HasOperands(stage[Here])
    /\ Render(Frame1.text, Frame1.logPhase)
    /\ UNCHANGED <<offsetWritten, notes, written>>

(* operandText: the operator's operands are written one after the other... *)
ApplyOperator ==
    /\ frames # << >> /\ AtStage /\ HasOperands(stage[Here])
    /\ ~Flagged(StageNode(Here))
    /\ LET operands == stage[Here].args
           operand == Head(operands)
       IN  /\ frames' = Append(Append(Outer, [Frame1 EXCEPT !.operands = Tail(operands)]),
                               Frame(operand))
           /\ notes' = notes \cup EntryNotes(operand)
    /\ UNCHANGED <<offsetWritten, written>>

(* ...and what they hold, with the operator, replaces the expression so far. *)
ReturnOperand ==
    LET caller == Outer[Len(Outer)]
        text == caller.operandText \cup Frame1.text
        below == SubSeq(Outer, 1, Len(Outer) - 1)
        operator == StageNode(Pipeline(caller.q)[caller.at])
        droppedOffset == {n \in {<<"Window", Frame1.q>>} :
                             ~offsetWritten /\ query[Frame1.q].offset > 0}
    IN  /\ Len(frames) > 1 /\ ~AtStage
        /\ IF caller.operands # << >>
           THEN /\ frames' = below \o <<[caller EXCEPT !.operands = Tail(@),
                                                       !.operandText = text],
                                        Frame(Head(caller.operands))>>
                /\ notes' = notes \cup droppedOffset \cup EntryNotes(Head(caller.operands))
           ELSE /\ frames' = Append(below, [caller EXCEPT !.text = text \cup {operator},
                                                          !.logPhase = FALSE,
                                                          !.operandText = {},
                                                          !.at = @ + 1])
                /\ notes' = notes \cup droppedOffset
        /\ UNCHANGED <<offsetWritten, written>>

(* Mutant: only an operand's dropped offset is noted. *)
FinishUnnoted ==
    /\ Len(frames) = 1 /\ ~AtStage
    /\ written' = Frame1.text
    /\ frames' = << >>
    /\ UNCHANGED <<offsetWritten, notes>>

(* noteDroppedOffset, and the outermost query is done. *)
FinishEmission ==
    /\ Len(frames) = 1 /\ ~AtStage
    /\ notes' = notes \cup {n \in {<<"Window", Frame1.q>>} :
                               ~offsetWritten /\ query[Frame1.q].offset > 0}
    /\ written' = Frame1.text
    /\ frames' = << >>
    /\ UNCHANGED offsetWritten

EmitterInit ==
    frames = << >> /\ offsetWritten = FALSE /\ notes = {} /\ written = {}

EmitterNext ==
    \/ SkipFlagged \/ ApplyAggregation \/ ApplyFunction \/ ApplyFilter
    \/ ApplyBareOperator \/ ApplyOperator \/ ReturnOperand \/ FinishEmission
=============================================================================
