------------------------------ MODULE Grouping ------------------------------
(***************************************************************************)
(* How an expression over values is grouped, on its way from the text of    *)
(* one metric language through the IR to the text of another.               *)
(*                                                                         *)
(* The author writes tokens, a parser climbs the precedence table over      *)
(* them, the tree is resolved and written out, and the target's parser      *)
(* reads what was written.  PromQL and LogQL share the shape of the parser  *)
(* and of the emitter; where they differ, the language decides.             *)
(* A name stands for any expression that needs no grouping: a selector, a   *)
(* call, an aggregation.                                                    *)
(***************************************************************************)
EXTENDS Naturals, Sequences, FiniteSets, SequencesExt

CONSTANTS
    Translations,  \* the translations: pairs of a source and a target language
    Operators,     \* binary operators the author uses, of those below
    MaxTokens      \* bound: tokens the author writes

Languages == {"promql", "logql"}

VARIABLES
    source, target,  \* the languages
    phase,           \* "source", "target": being parsed; "translated"; "refused"
    tokens,          \* what has been written
    at,              \* tokens read
    calls,           \* parseExpr, parseUnaryExpr and parseAtom in progress, outermost first
    authored,        \* what the author's text was resolved into
    reread           \* how the text the emitter wrote is read

vars == <<source, target, phase, tokens, at, calls, authored, reread>>

SetOperators == {"or", "and"}
Comparison == ">"
Sign == "-"
AllOperators == SetOperators \cup {Comparison, Sign, "*", "^"}

ASSUME TranslationsAssumption == Translations \subseteq Languages \X Languages
ASSUME OperatorsAssumption == Operators \subseteq AllOperators
ASSUME MaxTokensAssumption == MaxTokens \in Nat \ {0}

(* The tables: each parser's own, and the IR's, which also binds a sign. *)
Promql(op) == CASE op = "or" -> 1 [] op = "and" -> 2 [] op = Comparison -> 3
                [] op = "-" -> 4 [] op = "*" -> 5 [] op = "^" -> 6
Logql(op) == CASE op = "or" -> 1 [] op = "and" -> 2 [] op = Comparison -> 3
               [] op = "-" -> 4 [] op = "*" -> 5 [] op = "^" -> 6
Precedence(op) == CASE op = "or" -> 1 [] op = "and" -> 2 [] op = Comparison -> 3
                    [] op = "-" -> 4 [] op = "*" -> 5 [] op = "^" -> 6 [] op = "sign" -> 6
IsRightAssociative(op) == op = "^"

precLowest == 0
precMul == 5

Language == IF phase = "source" THEN source ELSE target
binaryPrecedence(op) == IF Language = "promql" THEN Promql(op) ELSE Logql(op)

-----------------------------------------------------------------------------
(* What the parsers build. *)

Name == [k |-> "name", is |-> "vector"]
Number == [k |-> "number", is |-> "scalar"]
ParenExpr(e) == [k |-> "paren", is |-> e.is, of |-> e]
UnaryExpr(e) == [k |-> "sign", is |-> e.is, of |-> e]
BinaryExpr(op, matching, bool, l, r) ==
    [k |-> "binary", is |-> IF l.is = "scalar" /\ r.is = "scalar" THEN "scalar" ELSE "vector",
     op |-> op, matching |-> matching, bool |-> bool, l |-> l, r |-> r]

Leaves == [x |-> Name, n |-> Number]

(* checkBinaryOperands.  LogQL's refuses only log expressions. *)
checkBinaryOperands(op, matching, bool, l, r) ==
    Language = "promql" =>
        /\ op \in SetOperators => l.is = "vector" /\ r.is = "vector"
        /\ op = Comparison /\ ~bool => l.is = "vector" \/ r.is = "vector"
        /\ matching => l.is = "vector" /\ r.is = "vector"

(* A call in progress: parseExpr with the least precedence it takes, the      *)
(* expression it has so far and the operator whose right side is being read;  *)
(* or a sign or a parenthesis waiting for its operand.                        *)
Nothing == [k |-> "nothing", is |-> "nothing"]
parseExpr(min) ==
    [doing |-> "expr", min |-> min, left |-> Nothing, op |-> "", matching |-> FALSE,
     bool |-> FALSE]
Waiting(what) == [doing |-> what]

Top == Last(calls)
Below == calls[Len(calls) - 1]
Outer(n) == SubSeq(calls, 1, Len(calls) - n)

Unread == at < Len(tokens)
cur == tokens[at + 1]
IsOperator(token) == token \in AllOperators
Advance(n) == at' = at + n

InExpr == phase \in {"source", "target"} /\ calls # << >> /\ Top.doing = "expr"
AtOperand == InExpr /\ Top.left = Nothing
AtOperator == InExpr /\ Top.left # Nothing

Unchanged == UNCHANGED <<source, target, phase, tokens, authored, reread>>

-----------------------------------------------------------------------------
(* The author's text: one token after the other, operands and operators       *)
(* where the grammar admits them, a parenthesis closed and the text ended     *)
(* anywhere, the whole no longer than the bound.                              *)

Pending == Cardinality({i \in DOMAIN calls : calls[i].doing = "paren"})
Fits(more) == Len(tokens) + more + Pending <= MaxTokens
Modifiers(op) ==
    {<< >>} \cup {<<m>> : m \in IF op = Comparison THEN {"bool", "on"} ELSE {"on"}}

Write(text) ==
    /\ phase = "source" /\ ~Unread
    /\ tokens' = tokens \o text
    /\ UNCHANGED <<source, target, phase, at, calls, authored, reread>>

WriteOperand ==
    /\ AtOperand
    /\ \/ \E leaf \in DOMAIN Leaves : Fits(1) /\ Write(<<leaf>>)
       \/ Fits(2) /\ Write(<<Sign>>)
       \/ Fits(3) /\ Write(<<"(">>)
       \/ Write(<<"end">>)

WriteOperator ==
    /\ AtOperator
    /\ \/ \E op \in Operators : \E m \in Modifiers(op) :
             Fits(2 + Len(m)) /\ Write(<<op>> \o m)
       \/ Write(<<")">>)
       \/ Write(<<"end">>)

-----------------------------------------------------------------------------
(* The parser. *)

(* parseUnaryExpr. *)
ReadSign ==
    /\ AtOperand /\ Unread /\ cur = Sign
    /\ calls' = calls \o <<Waiting("sign"), parseExpr(precMul + 1)>>
    /\ Advance(1) /\ Unchanged

(* Mutant: the parenthesis reads its own inside. *)
OpenParenAlone ==
    /\ AtOperand /\ Unread /\ cur = "("
    /\ calls' = Append(calls, Waiting("paren"))
    /\ Advance(1) /\ Unchanged

(* parsePrimaryExpr. *)
OpenParen ==
    /\ AtOperand /\ Unread /\ cur = "("
    /\ calls' = calls \o <<Waiting("paren"), parseExpr(precLowest)>>
    /\ Advance(1) /\ Unchanged

ReadLeaf ==
    /\ AtOperand /\ Unread /\ cur \in DOMAIN Leaves
    /\ calls' = Append(Outer(1), [Top EXCEPT !.left = Leaves[cur]])
    /\ Advance(1) /\ Unchanged

(* Mutant: every operator leaves its equals to the right side. *)
nextMinRight(op) == binaryPrecedence(op)

nextMin(op) == IF op = "^" THEN binaryPrecedence(op) ELSE binaryPrecedence(op) + 1

Absorbs == Unread /\ IsOperator(cur) /\ binaryPrecedence(cur) >= Top.min

(* The loop of parseExpr, with parseVectorMatching. *)
ReadOperator ==
    /\ AtOperator /\ Absorbs
    /\ LET op == cur
           modifier == {m \in {"on", "bool"} : at + 2 <= Len(tokens) /\ tokens[at + 2] = m}
       IN  /\ calls' = Append(Outer(1), [Top EXCEPT !.op = op, !.matching = "on" \in modifier,
                                                    !.bool = "bool" \in modifier])
                         \o <<parseExpr(nextMin(op))>>
           /\ Advance(1 + Cardinality(modifier))
    /\ Unchanged

Returns == AtOperator /\ Unread /\ ~Absorbs /\ Len(calls) > 1

ReturnRight ==
    /\ Returns /\ Below.doing = "expr"
    /\ IF checkBinaryOperands(Below.op, Below.matching, Below.bool, Below.left, Top.left)
       THEN /\ calls' = Append(Outer(2),
                 [Below EXCEPT !.op = "",
                    !.left = BinaryExpr(Below.op, Below.matching, Below.bool, @, Top.left)])
            /\ UNCHANGED phase
       ELSE phase' = "refused" /\ UNCHANGED calls
    /\ UNCHANGED <<source, target, tokens, at, authored, reread>>

(* The expression that a sign or a parenthesis was waiting for is what the    *)
(* parseExpr under it begins with.                                            *)
Give(e) ==
    calls' = Append(Outer(3), [calls[Len(calls) - 2] EXCEPT !.left = e])

ReturnSigned ==
    /\ Returns /\ Below.doing = "sign"
    /\ Give(UnaryExpr(Top.left))
    /\ UNCHANGED at /\ Unchanged

CloseParen ==
    /\ Returns /\ Below.doing = "paren" /\ cur = ")"
    /\ Give(ParenExpr(Top.left))
    /\ Advance(1) /\ Unchanged

(* errorf, for a text no rule of the grammar goes on with. *)
RefuseText ==
    /\ Unread
    /\ \/ AtOperand /\ cur \notin DOMAIN Leaves \cup {Sign, "("}
       \/ Returns /\ Below.doing = "paren" /\ cur # ")"
       \/ AtOperator /\ ~Absorbs /\ Len(calls) = 1 /\ cur # "end"
    /\ phase' = "refused"
    /\ UNCHANGED <<source, target, tokens, at, calls, authored, reread>>

-----------------------------------------------------------------------------
(* Resolution.  A node of the IR here is an operand of its own, a filter on   *)
(* the value, a join with the operator after it, an operator or a sign.       *)

IRLeaf(k) == [k |-> k]
FilterStage(x, bool) == [k |-> "filter", of |-> x, bool |-> bool]
UnaryOpStage(x) == [k |-> "sign", of |-> x]
BinaryOpStage(op, l, r) == [k |-> "binary", op |-> op, l |-> l, r |-> r]
JoinStage(op, l, r) == [k |-> "join", op |-> op, l |-> l, r |-> r]

IsNumberLiteral(e) == e.k = "number"
ComparesNumber(e) ==
    e.op = Comparison /\ (IsNumberLiteral(e.l) # IsNumberLiteral(e.r))

RECURSIVE Resolve(_)
Resolve(e) ==
    CASE e.k \in {"name", "number"} -> IRLeaf(e.k)
      [] e.k = "paren" -> Resolve(e.of)
      [] e.k = "sign" -> UnaryOpStage(Resolve(e.of))
      [] e.k = "binary" /\ e.matching -> JoinStage(e.op, Resolve(e.l), Resolve(e.r))
      [] e.k = "binary" /\ ~e.matching /\ ComparesNumber(e) ->
             FilterStage(Resolve(IF IsNumberLiteral(e.r) THEN e.l ELSE e.r), e.bool)
      [] OTHER -> BinaryOpStage(e.op, Resolve(e.l), Resolve(e.r))

-----------------------------------------------------------------------------
(* Emission. *)

(* binaryOpOf: the operator of the last stage, when that is one. *)
binaryOpOf(t) ==
    CASE t.k \in {"binary", "join"} -> {t.op} [] t.k = "sign" -> {"sign"} [] OTHER -> {}

(* Mutant: equals are never grouped. *)
GroupedLooserOnly(child, parent, isRight) == Precedence(child) < Precedence(parent)

Grouped(child, parent, isRight) ==
    \/ Precedence(child) < Precedence(parent)
    \/ Precedence(child) = Precedence(parent) /\ isRight # IsRightAssociative(parent)

(* Mutant: the parenthesis is left open. *)
Unclosed(text) == <<"(">> \o text

InParens(text) == <<"(">> \o text \o <<")">>

RECURSIVE Text(_)

operandText(t, parent, isRight) ==
    IF \E child \in binaryOpOf(t) : Grouped(child, parent, isRight)
    THEN InParens(Text(t)) ELSE Text(t)

(* applyFilter, applyJoin, applyBinaryOp, applyUnaryOp.  LogQL has no bool    *)
(* modifier and no join, and writes the left side of one; an operator between *)
(* two series has no bool modifier in the IR.                                 *)
Text(t) ==
    CASE t.k = "name" -> <<"x">>
      [] t.k = "number" -> <<"n">>
      [] t.k = "filter" ->
             Text(t.of) \o <<Comparison>>
               \o (IF t.bool /\ target = "promql" THEN <<"bool">> ELSE << >>) \o <<"n">>
      [] t.k = "join" ->
             IF target = "promql" THEN Text(t.l) \o <<t.op, "on">> \o Text(t.r)
             ELSE Text(t.l)
      [] t.k = "binary" ->
             operandText(t.l, t.op, FALSE) \o <<t.op>> \o operandText(t.r, t.op, TRUE)
      [] t.k = "sign" -> <<Sign>> \o operandText(t.of, "sign", TRUE)

(* Parse returns the whole text as one expression. *)
Parsed == AtOperator /\ Unread /\ ~Absorbs /\ Len(calls) = 1 /\ cur = "end"

Translate ==
    /\ phase = "source" /\ Parsed
    /\ LET resolved == Resolve(Top.left) IN
         /\ authored' = resolved
         /\ tokens' = Append(Text(resolved), "end")
    /\ phase' = "target" /\ at' = 0 /\ calls' = <<parseExpr(precLowest)>>
    /\ UNCHANGED <<source, target, reread>>

Reread ==
    /\ phase = "target" /\ Parsed
    /\ reread' = Top.left
    /\ phase' = "translated" /\ calls' = << >>
    /\ UNCHANGED <<source, target, tokens, at, authored>>

Stop == phase \in {"translated", "refused"} /\ UNCHANGED vars

Init ==
    /\ \E pair \in Translations : source = pair[1] /\ target = pair[2]
    /\ phase = "source" /\ tokens = << >> /\ at = 0 /\ calls = <<parseExpr(precLowest)>>
    /\ authored = Nothing /\ reread = Nothing

Next ==
    \/ WriteOperand \/ WriteOperator
    \/ ReadSign \/ OpenParen \/ ReadLeaf \/ ReadOperator
    \/ ReturnRight \/ ReturnSigned \/ CloseParen \/ RefuseText
    \/ Translate \/ Reread \/ Stop

Spec == Init /\ [][Next]_vars
-----------------------------------------------------------------------------
(* Properties *)

Known == AllOperators \cup DOMAIN Leaves \cup {"(", ")", "on", "bool", "end"}

(* The parser's place and its calls keep their shape; every sign and every    *)
(* parenthesis stands under an expression and over one.                       *)
TypeOK ==
    /\ phase \in {"source", "target", "translated", "refused"}
    /\ Range(tokens) \subseteq Known /\ at \in 0..Len(tokens)
    /\ \A i \in DOMAIN calls :
          calls[i].doing \in {"sign", "paren"} =>
              /\ i \in 2..(Len(calls) - 1)
              /\ calls[i - 1].doing = "expr" /\ calls[i + 1].doing = "expr"

(* The reading the table demands, said of a whole tree: it spells the text,   *)
(* and no operator stands, outside parentheses, under one that binds tighter, *)
(* nor an equal on the side its associativity does not favour.                *)
RECURSIVE Spelling(_)
Spelling(e) ==
    CASE e.k = "name" -> <<"x">>
      [] e.k = "number" -> <<"n">>
      [] e.k = "paren" -> <<"(">> \o Spelling(e.of) \o <<")">>
      [] e.k = "sign" -> <<Sign>> \o Spelling(e.of)
      [] e.k = "binary" ->
             Spelling(e.l) \o <<e.op>> \o (IF e.matching THEN <<"on">> ELSE << >>)
               \o (IF e.bool THEN <<"bool">> ELSE << >>) \o Spelling(e.r)

Tightness(e) == CASE e.k = "binary" -> binaryPrecedence(e.op) [] OTHER -> 10

RECURSIVE BoundByTable(_)
BoundByTable(e) ==
    CASE e.k = "paren" -> BoundByTable(e.of)
      [] e.k = "sign" -> BoundByTable(e.of) /\ Tightness(e.of) > precMul
      [] e.k = "binary" ->
             /\ BoundByTable(e.l) /\ BoundByTable(e.r)
             /\ e.l.k = "sign" => Tightness(e) <= precMul
             /\ IF e.op = "^" THEN Tightness(e.l) > Tightness(e) /\ Tightness(e.r) >= Tightness(e)
                ELSE Tightness(e.l) >= Tightness(e) /\ Tightness(e.r) > Tightness(e)
      [] OTHER -> TRUE

(* Both parsers, at every point of a text, read it as the precedence table    *)
(* says: what is read so far is spelled by the tokens read, and the finished  *)
(* parts are grouped by the table (parser.go parseExpr, parseUnaryExpr).      *)
ReadByTheTable ==
    /\ Parsed => Append(Spelling(Top.left), "end") = tokens
    /\ \A i \in DOMAIN calls : calls[i].doing = "expr" => BoundByTable(calls[i].left)

(* What the emitter means to write: the tree, less the joins that LogQL does  *)
(* not have (each is noted) and the bool modifiers, whatever stage a          *)
(* comparison with a number became.                                           *)
RECURSIVE Meaning(_)
Meaning(t) ==
    CASE t.k = "filter" -> <<Comparison, Meaning(t.of), <<"number">>>>
      [] t.k = "join" /\ target = "logql" -> Meaning(t.l)
      [] t.k = "join" /\ target = "promql" -> <<t.op, Meaning(t.l), Meaning(t.r), "on">>
      [] t.k = "binary" -> <<t.op, Meaning(t.l), Meaning(t.r)>>
      [] t.k = "sign" -> <<"sign", Meaning(t.of)>>
      [] OTHER -> <<t.k>>

RECURSIVE Reading(_)
Reading(e) ==
    CASE e.k = "paren" -> Reading(e.of)
      [] e.k = "sign" -> <<"sign", Reading(e.of)>>
      [] e.k = "binary" ->
             <<e.op, Reading(e.l), Reading(e.r)>> \o (IF e.matching THEN <<"on">> ELSE << >>)
      [] OTHER -> <<e.k>>

GroupedAlike == Reading(reread) = Meaning(authored)

(* Where grouping is not kept: neither a filter nor a join groups what it     *)
(* stands on, and neither counts as the operator it is written with when it   *)
(* stands under another, in LogQL not even as the operator left of a join.    *)
RECURSIVE Outermost(_)
Outermost(t) ==
    CASE t.k = "filter" -> {Comparison}
      [] t.k = "join" /\ target = "logql" -> Outermost(t.l)
      [] OTHER -> binaryOpOf(t)

Needs(t, parent, isRight) ==
    \E child \in Outermost(t) :
        Precedence(child) <= Precedence(parent) /\
        (Precedence(child) = Precedence(parent) => isRight # (parent = "^"))

RECURSIVE Exposed(_)
Exposed(t) ==
    CASE t.k = "filter" -> Exposed(t.of) \/ Needs(t.of, Comparison, FALSE)
      [] t.k = "join" ->
             \/ Exposed(t.l) \/ Exposed(t.r)
             \/ target = "promql" /\ (Needs(t.l, t.op, FALSE) \/ Needs(t.r, t.op, TRUE))
      [] t.k = "sign" ->
             \/ Exposed(t.of)
             \/ t.of.k \in {"filter", "join"} /\ Needs(t.of, "sign", TRUE)
      [] t.k = "binary" ->
             \/ Exposed(t.l) \/ Exposed(t.r)
             \/ t.l.k \in {"filter", "join"} /\ Needs(t.l, t.op, FALSE)
             \/ t.r.k \in {"filter", "join"} /\ Needs(t.r, t.op, TRUE)
      [] OTHER -> FALSE

(* The translation groups every operator as the author's text did, but for    *)
(* filters and joins that are exposed (both emitters' operandText).           *)
GroupingKept == phase = "translated" /\ ~Exposed(authored) => GroupedAlike

(* A translation is refused by the target's own parser only for its operands' *)
(* types: LogQL's parser takes a number under a set operator and a comparison *)
(* of numbers, and the IR has nowhere to keep the bool that PromQL asks for   *)
(* there.                                                                     *)
RECURSIVE Scalar(_)
Scalar(t) ==
    CASE t.k = "number" -> TRUE [] t.k \in {"filter", "sign"} -> Scalar(t.of)
      [] t.k = "binary" -> Scalar(t.l) /\ Scalar(t.r)
      [] t.k = "join" -> Scalar(t.l) /\ Scalar(t.r) [] OTHER -> FALSE

RECURSIVE Untypable(_)
Untypable(t) ==
    CASE t.k = "filter" -> Untypable(t.of) \/ Scalar(t.of)
      [] t.k = "sign" -> Untypable(t.of)
      [] t.k \in {"binary", "join"} ->
             \/ Untypable(t.l) \/ Untypable(t.r)
             \/ t.op \in SetOperators \cup {Comparison} /\ (Scalar(t.l) \/ Scalar(t.r))
             \/ t.k = "join" /\ (Scalar(t.l) \/ Scalar(t.r))
      [] OTHER -> FALSE

TranslationIsRead ==
    phase = "refused" /\ authored # Nothing =>
        target = "promql" /\ (Untypable(authored) \/ Exposed(authored))
=============================================================================
