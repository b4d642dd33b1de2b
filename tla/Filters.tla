------------------------------ MODULE Filters ------------------------------
(***************************************************************************)
(* How a filter over attributes is read, lowered and written: PromQL's      *)
(* braces hold a conjunction, TraceQL's hold a boolean expression, and      *)
(* LogQL's braces hold a conjunction that filter stages may follow.         *)
(*                                                                         *)
(* The author writes a selector and stages, the source's parser and         *)
(* resolver build the query, the validator judges it, the target's emitter  *)
(* writes it stage by stage, and the target's parser reads it again.        *)
(* Meaning is the set of records a query selects.                           *)
(***************************************************************************)
EXTENDS Naturals, FiniteSets, SequencesExt

CONSTANTS
    Translations,   \* the translations: pairs of a source and a target language
    Tests,          \* comparisons the author uses
    MaxTokens       \* bound: tokens the author writes

Languages == {"promql", "logql", "traceql"}
FieldBody == "body"

(* A matcher of the IR: a key against a value, or against a set of them.      *)
Test == [key : {"a", "b", FieldBody}, op : {"=", "!=", ">", "=~", "|="}, values : SUBSET (0..3)]

(* A record: its attributes, and whether its body holds what |= looks for.    *)
Records == [a : 1..3, b : 1..2, body : 0..1]

ASSUME TranslationsAssumption == Translations \subseteq Languages \X Languages
ASSUME TestsAssumption == Tests \subseteq Test
ASSUME MaxTokensAssumption == MaxTokens \in Nat \ {0}

VARIABLES
    source, target,  \* the languages
    phase,           \* how far the translation has come
    text,            \* the author's: what stands in the braces, then each stage's
    query,           \* what it is resolved into
    verdicts,        \* what the validator says of it
    written,         \* the emitter's: filters for the braces, stages after them
    todo,            \* stages to be applied
    notes,           \* what the emitter could not write
    reread           \* what the translation is read as

vars == <<source, target, phase, text, query, verdicts, written, todo, notes, reread>>

-----------------------------------------------------------------------------
(* Trees, and what they mean. *)

(* A token, and the same for a leaf of a tree.  The connectives' spellings    *)
(* differ between the languages; their tokens do not.                         *)
Token(k) == [k |-> k]
Match(t) == [k |-> "test", test |-> t]
Logical(op, operands) == [k |-> op, of |-> operands]
Paren(inner) == [k |-> "paren", of |-> <<inner>>]

Matches(t, r) ==
    CASE t.op \in {"=", "=~", "|="} -> r[t.key] \in t.values
      [] t.op = "!=" -> r[t.key] \notin t.values
      [] t.op = ">" -> \A v \in t.values : r[t.key] > v

RECURSIVE Holds(_, _)
Holds(p, r) ==
    CASE p.k = "test" -> Matches(p.test, r)
      [] p.k = "not" -> ~Holds(p.of[1], r)
      [] p.k = "and" -> \A i \in DOMAIN p.of : Holds(p.of[i], r)
      [] p.k = "or" -> \E i \in DOMAIN p.of : Holds(p.of[i], r)

(* DataSource.Selectors, DataSource.Spanset and Pipeline. *)
Query(selectors, spanset, pipeline) ==
    [selectors |-> selectors, spanset |-> spanset, pipeline |-> pipeline]
NoQuery == Query(<< >>, {}, << >>)

Selected(q) ==
    {r \in Records :
        /\ \A i \in DOMAIN q.selectors : Matches(q.selectors[i], r)
        /\ \A p \in q.spanset : Holds(p, r)
        /\ \A i \in DOMAIN q.pipeline : Holds(q.pipeline[i], r)}

-----------------------------------------------------------------------------
(* The parsers.  A reading is a tree and the tokens after it, or none.        *)

Read(tree, rest) == [read |-> TRUE, tree |-> tree, rest |-> rest]
Refused == [read |-> FALSE]
Comes(k, s) == s # << >> /\ Head(s).k = k

Closed(inner) ==
    IF inner.read /\ Comes(")", inner.rest)
    THEN Read(Paren(inner.tree), Tail(inner.rest)) ELSE Refused

(* parseFieldOr, parseFieldAnd, parseFieldNot and parseFieldPrimary are the   *)
(* levels of TraceQL's grammar.                                               *)
Levels == <<"or", "and", "not", "primary">>

RECURSIVE parseField(_, _)
RECURSIVE parseFieldRest(_, _)

parseFieldRest(level, left) ==
    IF ~left.read \/ ~Comes(Levels[level], left.rest) THEN left
    ELSE LET right == parseField(level + 1, Tail(left.rest))
         IN  IF ~right.read THEN Refused
             ELSE parseFieldRest(level,
                     Read(Logical(Levels[level], <<left.tree, right.tree>>), right.rest))

parseField(level, s) ==
    CASE Levels[level] \in {"or", "and"} -> parseFieldRest(level, parseField(level + 1, s))
      [] Levels[level] = "not" /\ Comes("not", s) ->
             LET inner == parseField(level, Tail(s))
             IN  IF ~inner.read THEN Refused
                 ELSE Read(Logical("not", <<inner.tree>>), inner.rest)
      [] Levels[level] = "not" /\ ~Comes("not", s) -> parseField(level + 1, s)
      [] Levels[level] = "primary" /\ Comes("(", s) -> Closed(parseField(1, Tail(s)))
      [] Levels[level] = "primary" /\ Comes("test", s) -> Read(Head(s), Tail(s))
      [] OTHER -> Refused

(* LogQL's label filters: a comma and nothing at all are conjunctions too.    *)
filterPrec(k) ==
    CASE k = "or" -> 1 [] k \in {"and", ",", "test"} -> 2 [] OTHER -> 0

RECURSIVE parseLabelFilterExpr(_, _)
RECURSIVE parseLabelFilterRest(_, _)

parseLabelFilterOperand(s) ==
    IF Comes("(", s) THEN Closed(parseLabelFilterExpr(1, Tail(s)))
    ELSE IF Comes("test", s) THEN Read(Head(s), Tail(s)) ELSE Refused

(* Mutant: the right side takes an operator as loose as its own. *)
RestOfEquals(min, left) ==
    IF ~left.read \/ left.rest = << >> \/ filterPrec(Head(left.rest).k) < min
       \/ filterPrec(Head(left.rest).k) = 0
    THEN left
    ELSE LET k == Head(left.rest).k
             right == parseLabelFilterExpr(1, IF k = "test" THEN left.rest ELSE Tail(left.rest))
         IN  IF ~right.read THEN Refused
             ELSE parseLabelFilterRest(min,
                     Read(Logical(IF k = "or" THEN "or" ELSE "and",
                                  <<left.tree, right.tree>>), right.rest))

parseLabelFilterRest(min, left) ==
    IF ~left.read \/ left.rest = << >> \/ filterPrec(Head(left.rest).k) < min
       \/ filterPrec(Head(left.rest).k) = 0
    THEN left
    ELSE LET k == Head(left.rest).k
             right == parseLabelFilterExpr(filterPrec(k) + 1,
                          IF k = "test" THEN left.rest ELSE Tail(left.rest))
         IN  IF ~right.read THEN Refused
             ELSE parseLabelFilterRest(min,
                     Read(Logical(IF k = "or" THEN "or" ELSE "and",
                                  <<left.tree, right.tree>>), right.rest))

parseLabelFilterExpr(min, s) == parseLabelFilterRest(min, parseLabelFilterOperand(s))

(* parseLabelMatchers and parseStreamSelector: a list, which may end in a     *)
(* comma.  Order is no operator here, and the body is no label.               *)
InSelector(t) == t.op \in {"=", "!=", "=~"} /\ t.key # FieldBody

RECURSIVE parseLabelMatchers(_)
parseLabelMatchers(s) ==
    IF ~Comes("test", s) \/ ~InSelector(Head(s).test) THEN Refused
    ELSE IF Tail(s) \in {<< >>, <<Token(",")>>} THEN Read(<<Head(s).test>>, << >>)
    ELSE IF ~Comes(",", Tail(s)) THEN Refused
    ELSE LET more == parseLabelMatchers(Tail(Tail(s)))
         IN  IF ~more.read THEN Refused ELSE Read(<<Head(s).test>> \o more.tree, << >>)

(* checkSelector: PromQL wants a matcher that a missing label cannot satisfy. *)
matcherMatchesEmpty(t) == t.op = "!="
checkSelector(matchers) == \E i \in DOMAIN matchers : ~matcherMatchesEmpty(matchers[i])

IsLineFilter(s) == Len(s) = 1 /\ Comes("test", s) /\ Head(s).test.key = FieldBody

parseStage(s) == IF IsLineFilter(s) THEN Read(Head(s), << >>) ELSE parseLabelFilterExpr(1, s)

(* A whole text, as the braces and the stages say.  A body is tested by a     *)
(* line filter and nothing else.                                              *)
Whole(reading) == reading.read /\ reading.rest = << >>
BodyOutOfPlace(s) ==
    \E i \in DOMAIN s : s[i].k = "test" /\ s[i].test.key = FieldBody

Parses(lang, parts) ==
    /\ parts # << >>
    /\ CASE lang = "traceql" ->
              /\ Len(parts) = 1 /\ ~BodyOutOfPlace(parts[1])
              /\ parts[1] # << >> => Whole(parseField(1, parts[1]))
         [] lang = "promql" ->
              /\ Len(parts) = 1 /\ Whole(parseLabelMatchers(parts[1]))
              /\ checkSelector(parseLabelMatchers(parts[1]).tree)
         [] lang = "logql" ->
              /\ Whole(parseLabelMatchers(parts[1]))
              /\ \A i \in 2..Len(parts) :
                    /\ Whole(parseStage(parts[i]))
                    /\ BodyOutOfPlace(parts[i]) => IsLineFilter(parts[i])

-----------------------------------------------------------------------------
(* The resolvers. *)

(* resolveFieldExpr and resolveLabelFilterExpr: a parenthesis is the shape    *)
(* of the tree already.                                                       *)
RECURSIVE resolveExpr(_)
resolveExpr(e) ==
    CASE e.k = "test" -> e
      [] e.k = "paren" -> resolveExpr(e.of[1])
      [] OTHER -> Logical(e.k, [i \in DOMAIN e.of |-> resolveExpr(e.of[i])])

resolveSpanset(s) ==
    Query(<< >>, IF s = << >> THEN {} ELSE {resolveExpr(parseField(1, s).tree)}, << >>)

resolvePipelineExpr(parts) ==
    Query(parseLabelMatchers(parts[1]).tree, {},
          [i \in 1..(Len(parts) - 1) |-> resolveExpr(parseStage(parts[i + 1]).tree)])

Resolved(lang, parts) ==
    IF lang = "traceql" THEN resolveSpanset(parts[1]) ELSE resolvePipelineExpr(parts)

-----------------------------------------------------------------------------
(* Lowering a boolean expression into braces that hold a conjunction.         *)

RECURSIVE Alternatives(_)
RECURSIVE Leaves(_)
Alternatives(p) ==
    \/ p.k = "test" /\ p.test.op = "="
    \/ p.k = "or" /\ \A i \in DOMAIN p.of : Alternatives(p.of[i])
Leaves(p) == IF p.k = "test" THEN {p.test} ELSE UNION {Leaves(p.of[i]) : i \in DOMAIN p.of}

SameKey(tests) == \A t, u \in tests : t.key = u.key
Membership(tests) ==
    [key |-> (CHOOSE t \in tests : TRUE).key, op |-> "=~", values |-> UNION {t.values : t \in tests}]

(* FoldSameKeyDisjunction, and what it folds to. *)
Foldable(p) == p.k = "or" /\ Alternatives(p) /\ SameKey(Leaves(p))

Lowered(matchers, faithful) == [matchers |-> matchers, faithful |-> faithful]

Concat(sequences) == FlattenSeq(sequences)

RECURSIVE ConjunctiveMatchers(_)

(* Mutant: of a disjunction that does not fold, the alternatives that lower   *)
(* are kept.                                                                  *)
HalfDisjunctions(p) ==
    CASE p.k = "test" -> Lowered(<<p.test>>, TRUE)
      [] Foldable(p) -> Lowered(<<Membership(Leaves(p))>>, TRUE)
      [] p.k = "not" -> Lowered(<< >>, FALSE)
      [] OTHER ->
             LET of == [i \in DOMAIN p.of |-> ConjunctiveMatchers(p.of[i])]
             IN  Lowered(Concat([i \in DOMAIN of |-> of[i].matchers]),
                         p.k = "and" /\ \A i \in DOMAIN of : of[i].faithful)

ConjunctiveMatchers(p) ==
    CASE p.k = "test" -> Lowered(<<p.test>>, TRUE)
      [] Foldable(p) -> Lowered(<<Membership(Leaves(p))>>, TRUE)
      [] p.k = "and" ->
             LET of == [i \in DOMAIN p.of |-> ConjunctiveMatchers(p.of[i])]
             IN  Lowered(Concat([i \in DOMAIN of |-> IF of[i].faithful THEN of[i].matchers
                                                      ELSE << >>]),
                         \A i \in DOMAIN of : of[i].faithful)
      [] OTHER -> Lowered(<< >>, FALSE)

(* Mutant: the braces take every comparison. *)
EveryMatcher(matchers) == matchers

SelectorSpellable(matchers) == SelectSeq(matchers, InSelector)
Unspellable(matchers) == SelectSeq(matchers, LAMBDA t : ~InSelector(t))

(* flattenPredicate, for a LogQL filter that moves into PromQL's braces: only *)
(* a flat disjunction folds, and only what lowers is kept.                    *)
RECURSIVE flattenPredicate(_)
flattenPredicate(p) ==
    CASE p.k = "test" -> Lowered(<<p.test>>, TRUE)
      [] p.k = "and" ->
             LET of == [i \in DOMAIN p.of |-> flattenPredicate(p.of[i])]
             IN  Lowered(Concat([i \in DOMAIN of |-> of[i].matchers]),
                         \A i \in DOMAIN of : of[i].faithful)
      [] Foldable(p) /\ (\A i \in DOMAIN p.of : p.of[i].k = "test") ->
             Lowered(<<Membership(Leaves(p))>>, TRUE)
      [] OTHER -> Lowered(<< >>, FALSE)

-----------------------------------------------------------------------------
(* The validator.  It judges a span set as a whole, its comparisons, and      *)
(* every test of a body; and it puts line filters first where the target's    *)
(* stages are ordered.                                                        *)

RECURSIVE isConjunctive(_)

(* Mutant: alternatives for one key are refused like any others. *)
isPureConjunction(p) ==
    \/ p.k = "test"
    \/ p.k = "and" /\ \A i \in DOMAIN p.of : isConjunctive(p.of[i])

isConjunctive(p) ==
    \/ p.k = "test" \/ Foldable(p)
    \/ p.k = "and" /\ \A i \in DOMAIN p.of : isConjunctive(p.of[i])

TestsOf(q) == UNION {Leaves(p) : p \in q.spanset \cup Range(q.pipeline)} \cup Range(q.selectors)

checkSpanset(q) ==
    (IF target # "traceql" /\ \E p \in q.spanset : ~isConjunctive(p) THEN {"disjunction"} ELSE {})
      \cup (IF target = "promql" /\ \E p \in q.spanset : \E t \in Leaves(p) : ~InSelector(t)
            THEN {"comparison"} ELSE {})
checkMatcher(q) ==
    IF target # "logql" /\ \E t \in TestsOf(q) : t.key = FieldBody THEN {"body"} ELSE {}

TestsBody(p) == p.k = "test" /\ p.test.key = FieldBody
Ordered(pipeline) ==
    IF target # "logql" THEN pipeline
    ELSE SelectSeq(pipeline, TestsBody) \o SelectSeq(pipeline, LAMBDA p : ~TestsBody(p))

-----------------------------------------------------------------------------
(* The emitters. *)

Joined(parts, k) ==
    Concat([i \in DOMAIN parts |-> IF i = 1 THEN parts[i] ELSE <<Token(k)>> \o parts[i]])
Spelled(matchers) == [i \in DOMAIN matchers |-> <<Match(matchers[i])>>]
InParens(s) == <<Token("(")>> \o s \o <<Token(")")>>
Says(condition, note) == IF condition THEN {note} ELSE {}

(* TraceQL.  predicateText, logicalText; a test of the body leaves no text.   *)
Written(parts) == SelectSeq(parts, LAMBDA s : s # << >>)

RECURSIVE predicateText(_, _)

(* Mutant: a group inside another is written without its parentheses. *)
TextUngrouped(p, grouped) ==
    CASE p.k = "test" /\ p.test.key = FieldBody -> << >>
      [] p.k = "test" /\ p.test.key # FieldBody -> <<p>>
      [] p.k = "not" ->
             LET inner == predicateText(p.of[1], TRUE)
             IN  IF inner = << >> THEN << >> ELSE <<Token("not")>> \o InParens(inner)
      [] OTHER -> Joined(Written([i \in DOMAIN p.of |-> predicateText(p.of[i], TRUE)]), p.k)

predicateText(p, grouped) ==
    CASE p.k = "test" /\ p.test.key = FieldBody -> << >>
      [] p.k = "test" /\ p.test.key # FieldBody -> <<p>>
      [] p.k = "not" ->
             LET inner == predicateText(p.of[1], TRUE)
             IN  IF inner = << >> THEN << >> ELSE <<Token("not")>> \o InParens(inner)
      [] OTHER ->
             LET parts == Written([i \in DOMAIN p.of |-> predicateText(p.of[i], TRUE)])
             IN  IF grouped /\ Len(parts) > 1 THEN InParens(Joined(parts, p.k))
                 ELSE Joined(parts, p.k)

(* emitSource of TraceQL: one filter for the span set, one for each matcher.  *)
EmitSpanset ==
    /\ target = "traceql"
    /\ written' = Concat(SetToSeq({<<predicateText(p, FALSE)>> : p \in query.spanset}))
                    \o Spelled(query.selectors)
    /\ todo' = query.pipeline
    /\ notes' = {}

(* emitSource and applyDeferredFilters of LogQL.  An empty selector is no     *)
(* text that a stage could follow.                                            *)
EmitStreams ==
    /\ target = "logql"
    /\ LET lowered == {ConjunctiveMatchers(p) : p \in query.spanset}
           matchers == Concat(SetToSeq({l.matchers : l \in lowered}))
           braces == query.selectors \o SelectorSpellable(matchers)
           deferred == Unspellable(matchers)
       IN  /\ written' = <<Joined(Spelled(braces), ",")>>
                            \o (IF deferred # << >> /\ braces # << >>
                                THEN <<Joined(Spelled(deferred), "and")>> ELSE << >>)
           /\ notes' = Says(\E l \in lowered : ~l.faithful, "disjunction")
                         \cup Says(braces = << >>, "nothing selected")
                         \cup Says(braces = << >> /\ deferred # << >>, "comparison")
    /\ todo' = query.pipeline

(* foldableLeadingFilters: the filters that may move into the braces. *)
LabelOnly(p) == ~TestsBody(p)
Leading(pipeline) ==
    CHOOSE n \in 0..Len(pipeline) :
        /\ \A i \in 1..n : LabelOnly(pipeline[i])
        /\ n < Len(pipeline) => ~LabelOnly(pipeline[n + 1])

(* emitQuery and emitSource of PromQL. *)
EmitSeries ==
    /\ target = "promql"
    /\ LET lowered == {ConjunctiveMatchers(p) : p \in query.spanset}
           matchers == Concat(SetToSeq({l.matchers : l \in lowered}))
           n == Leading(query.pipeline)
           folded == [i \in 1..n |-> flattenPredicate(query.pipeline[i])]
           braces == query.selectors \o SelectorSpellable(matchers)
                       \o Concat([i \in 1..n |-> folded[i].matchers])
       IN  /\ written' = <<Joined(Spelled(braces), ",")>>
           /\ notes' = Says(\E l \in lowered : ~l.faithful, "disjunction")
                         \cup Says(Unspellable(matchers) # << >>, "comparison")
                         \cup Says(\E i \in 1..n : ~folded[i].faithful, "unfolded")
                         \cup Says(braces = << >>, "nothing selected")
           /\ todo' = SubSeq(query.pipeline, n + 1, Len(query.pipeline))

(* applyFilter of TraceQL conjoins into the braces. *)
ApplyToSpanset ==
    /\ target = "traceql"
    /\ LET filter == predicateText(Head(todo), FALSE)
       IN  written' = IF filter = << >> THEN written ELSE Append(written, filter)
    /\ notes' = notes \cup Says(\E t \in Leaves(Head(todo)) : t.key = FieldBody, "body")

(* filterText of LogQL: one stage, and no boolean inside another. *)
ApplyToStreams ==
    /\ target = "logql"
    /\ LET p == Head(todo)
           tests == IF p.k = "test" THEN <<p>> ELSE SelectSeq(p.of, LAMBDA x : x.k = "test")
           stage == Joined([i \in DOMAIN tests |-> <<tests[i]>>], p.k)
       IN  /\ written' = IF stage = << >> THEN written ELSE Append(written, stage)
           /\ notes' = notes \cup Says(p.k # "test" /\ Len(tests) < Len(p.of), "nested")

(* applyFilter of PromQL: past the braces only a value can be compared. *)
ApplyToSeries ==
    /\ target = "promql"
    /\ notes' = notes \cup {IF TestsBody(Head(todo)) THEN "body" ELSE "unfolded"}
    /\ UNCHANGED written

-----------------------------------------------------------------------------
(* The author.  Operands and operators stand where some grammar admits them;  *)
(* a LogQL text goes on with another stage.                                   *)

Length == FoldSeq(LAMBDA part, n : n + Len(part), Len(text) - 1, text)
Current == Last(text)
Depth(s) == Cardinality({i \in DOMAIN s : s[i].k = "("})
              - Cardinality({i \in DOMAIN s : s[i].k = ")"})
Fits(n) == Length + n + Depth(Current) <= MaxTokens   \* and the parentheses still to close
Put(s) == text' = Append(Front(text), Current \o s)
Boolean == source = "traceql" \/ Len(text) > 1
Operand ==
    IF Current = << >> THEN TRUE ELSE Last(Current).k \in {"and", "or", "not", "(", ","}

WriteOperand ==
    /\ phase = "writing" /\ Operand
    /\ \/ \E t \in Tests : Fits(1) /\ Put(<<Match(t)>>)
       \/ Boolean /\ Fits(3) /\ Put(<<Token("(")>>)
       \/ source = "traceql" /\ Fits(2) /\ Put(<<Token("not")>>)
    /\ UNCHANGED <<source, target, phase, query, verdicts, written, todo, notes, reread>>

WriteOperator ==
    /\ phase = "writing" /\ ~Operand
    /\ \/ \E k \in {"and", "or"} : Boolean /\ Fits(2) /\ Put(<<Token(k)>>)
       \/ source # "traceql" /\ Fits(2) /\ Put(<<Token(",")>>)
       \/ Boolean /\ Depth(Current) > 0 /\ Put(<<Token(")")>>)
       \/ \E t \in Tests : source = "logql" /\ Boolean /\ Fits(1) /\ Put(<<Match(t)>>)
       \/ source = "logql" /\ Fits(2) /\ text' = Append(text, << >>)
    /\ UNCHANGED <<source, target, phase, query, verdicts, written, todo, notes, reread>>

(* Parse and Resolve, or the parser's error. *)
Resolve ==
    /\ phase = "writing"
    /\ IF Parses(source, text)
       THEN phase' = "resolved" /\ query' = Resolved(source, text)
       ELSE phase' = "refused" /\ UNCHANGED query
    /\ UNCHANGED <<source, target, text, verdicts, written, todo, notes, reread>>

Validate ==
    /\ phase = "resolved" /\ phase' = "validated"
    /\ verdicts' = checkSpanset(query) \cup checkMatcher(query)
    /\ query' = [query EXCEPT !.pipeline = Ordered(@)]
    /\ UNCHANGED <<source, target, text, written, todo, notes, reread>>

EmitSource ==
    /\ phase = "validated" /\ phase' = "emitting"
    /\ EmitSpanset \/ EmitStreams \/ EmitSeries
    /\ UNCHANGED <<source, target, text, query, verdicts, reread>>

ApplyFilter ==
    /\ phase = "emitting" /\ todo # << >>
    /\ todo' = Tail(todo)
    /\ ApplyToSpanset \/ ApplyToStreams \/ ApplyToSeries
    /\ UNCHANGED <<source, target, phase, text, query, verdicts, reread>>

(* The emitted text; rendered.String joins TraceQL's filters. *)
Output == IF target = "traceql" THEN <<Joined(written, "and")>> ELSE written

Reread ==
    /\ phase = "emitting" /\ todo = << >>
    /\ IF Parses(target, Output)
       THEN phase' = "translated" /\ reread' = Resolved(target, Output)
       ELSE phase' = "unreadable" /\ UNCHANGED reread
    /\ UNCHANGED <<source, target, text, query, verdicts, written, todo, notes>>

Stop == phase \in {"refused", "translated", "unreadable"} /\ UNCHANGED vars

Init ==
    /\ \E pair \in Translations : source = pair[1] /\ target = pair[2]
    /\ phase = "writing" /\ text = <<<< >>>> /\ query = NoQuery /\ verdicts = {}
    /\ written = << >> /\ todo = << >> /\ notes = {} /\ reread = NoQuery

Next ==
    \/ WriteOperand \/ WriteOperator \/ Resolve
    \/ Validate \/ EmitSource \/ ApplyFilter \/ Reread \/ Stop

Spec == Init /\ [][Next]_vars

-----------------------------------------------------------------------------
(* Properties *)

Emitted == phase \in {"emitting", "translated", "unreadable"}
Translated == phase = "translated"

(* What a part of a text says, token by token: it is divided at the last of   *)
(* its loosest connectives that no parenthesis encloses, and two tests side   *)
(* by side are both asked for.                                                *)
Spaced(s) ==
    Concat([i \in DOMAIN s |->
        IF i > 1 /\ s[i].k = "test" /\ s[i - 1].k \in {"test", ")"} THEN <<Token("and"), s[i]>>
        ELSE <<s[i]>>])
Outside(s, ks) == {i \in DOMAIN s : s[i].k \in ks /\ Depth(SubSeq(s, 1, i)) = 0}
LastOf(S) == CHOOSE i \in S : \A j \in S : j <= i
Before(s, i) == SubSeq(s, 1, i - 1)
After(s, i) == SubSeq(s, i + 1, Len(s))

RECURSIVE Asks(_, _)
Asks(s, r) ==
    LET ors == Outside(s, {"or"})
        ands == Outside(s, {"and", ","})
    IN  IF s = << >> THEN TRUE
        ELSE IF ors # {} THEN Asks(Before(s, LastOf(ors)), r) \/ Asks(After(s, LastOf(ors)), r)
        ELSE IF ands # {} THEN Asks(Before(s, LastOf(ands)), r) /\ Asks(After(s, LastOf(ands)), r)
        ELSE IF Comes("not", s) THEN ~Asks(Tail(s), r)
        ELSE IF Comes("(", s) THEN Asks(Front(Tail(s)), r)
        ELSE Matches(Head(s).test, r)

AskedBy(parts) == {r \in Records : \A i \in DOMAIN parts : Asks(Spaced(parts[i]), r)}

(* A query resolved from a text that parses selects what the text says, and   *)
(* so does the translation read again (parseFieldOr and parseLabelFilterExpr, *)
(* resolveFieldExpr and resolveLabelFilterExpr): or binds loosest, then and   *)
(* in its three spellings, then not.                                          *)
ParsedAsWritten ==
    /\ phase \notin {"writing", "refused"} => Selected(query) = AskedBy(text)
    /\ Translated => Selected(reread) = AskedBy(Output)

(* Filters that TraceQL's braces take side by side, one of them an or.        *)
LooseFilter == target = "traceql" /\ Len(written) > 1 /\ \E s \in Range(written) : Outside(s, {"or"}) # {}

(* A translated filter selects the records the author's did, unless the       *)
(* emitter noted what it left out (the three emitters' applyFilter and        *)
(* emitSource), or conjoined an or without grouping it.                       *)
FilterKept == Translated /\ notes = {} /\ ~LooseFilter => Selected(reread) = Selected(query)

(* No exception: TraceQL's applyFilter, by its comment, "conjoins a predicate *)
(* into the span set's braces."                                               *)
FiltersConjoined == Translated /\ notes = {} => Selected(reread) = Selected(query)

(* LogQL's stage that lost an alternative of its or. *)
HalfAnOr ==
    /\ target = "logql" /\ "nested" \in notes
    /\ \E p \in Range(query.pipeline) : p.k = "or" /\ \E i \in DOMAIN p.of : p.of[i].k # "test"

(* A filter that is left out, whole or in part, leaves the query wider:       *)
(* nothing the author asked for is lost (ConjunctiveMatchers: "half a         *)
(* disjunction is a different query").  LogQL's filterText is the exception:  *)
(* it drops a nested alternative and keeps the others.                        *)
LossOnlyWidens == Translated /\ ~HalfAnOr => Selected(query) \subseteq Selected(reread)

(* What PromQL's braces can hold of a stage: conjunctions, and alternatives    *)
(* for one key as long as they are not grouped among themselves.              *)
RECURSIVE FoldsFlat(_)
FoldsFlat(p) ==
    \/ p.k = "test"
    \/ p.k = "and" /\ \A i \in DOMAIN p.of : FoldsFlat(p.of[i])
    \/ Foldable(p) /\ \A i \in DOMAIN p.of : p.of[i].k = "test"

(* The filters an emitter leaves out that the validator does not judge: a     *)
(* boolean within another in a stage of LogQL's (filterText); a stage that    *)
(* PromQL's braces cannot hold, or that comes after a test of the body        *)
(* (flattenPredicate, applyFilter); and an ordered comparison with no LogQL   *)
(* selector to follow (applyDeferredFilters).                                 *)
NestedStage ==
    /\ target = "logql"
    /\ \E p \in Range(query.pipeline) : p.k # "test" /\ \E i \in DOMAIN p.of : p.of[i].k # "test"
UnfoldedStage ==
    /\ target = "promql"
    /\ \E n \in DOMAIN query.pipeline :
          /\ LabelOnly(query.pipeline[n])
          /\ \/ ~FoldsFlat(query.pipeline[n])
             \/ \E m \in 1..n : TestsBody(query.pipeline[m])
UnselectedComparison == target = "logql" /\ "nothing selected" \in notes

(* The validator refuses a filter when the emitter leaves it out, and only    *)
(* then (isConjunctive: "the two cannot disagree"), but for three kinds of    *)
(* filter it does not judge.  Those are left out with a note and without a    *)
(* verdict; that there is no other kind is what this says.                    *)
VerdictsMatchNotes ==
    Emitted /\ todo = << >> =>
        /\ "disjunction" \in verdicts <=> "disjunction" \in notes
        /\ "body" \in verdicts <=> "body" \in notes
        /\ "comparison" \in verdicts => notes \cap {"comparison", "disjunction"} # {}
        /\ "comparison" \in notes => "comparison" \in verdicts \/ UnselectedComparison
        /\ "nested" \in notes <=> NestedStage
        /\ "unfolded" \in notes <=> UnfoldedStage

(* The target's parser reads every translation, but one that selects nothing, *)
(* PromQL's braces with only matchers a missing label satisfies, and those an *)
(* ordered comparison of LogQL's was moved into.                              *)
TranslationIsRead ==
    phase = "unreadable" =>
        \/ "nothing selected" \in notes
        \/ target = "promql" /\ \A t \in {x.test : x \in {y \in Range(Output[1]) : y.k = "test"}} :
                                   matcherMatchesEmpty(t)
        \/ source = "logql" /\ target = "promql" /\ \E t \in TestsOf(query) : t.op = ">"

=============================================================================
