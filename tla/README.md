# PolyQL in TLA+

PolyQL translates queries between PromQL, LogQL and TraceQL: a query is parsed,
resolved into a telemetry IR, validated against the target language, emitted as
text, and reported on. `polyql-proxy` puts that translation in front of a backend.
This directory holds TLA+ modules for the parts of that program in which the order of
steps, or the shape of what is built, matters, the configurations that check them with TLC, and proofs checked
with TLAPS. `PROJECT.json` maps every definition to the lines it models.

    tlc -workers 2 -config LogQLOrder.cfg MCLogQL     # any run: the module is in PROJECT.json
    tlapm Proxy_proof.tla

## 1. The system

| Component | State | Operations | Talks to |
|---|---|---|---|
| Parsers (`pkg/compiler/parser`) | cursor, error list | `Parse` | the resolver, by AST |
| Resolver (`pkg/compiler/resolver`) | the IR tree it is building | one `resolveX` per construct, folding the outer construct into the inner one's query | registry; hands the tree over |
| IR (`pkg/compiler/ir`) | queries, pipelines of stages, one flag and reason per node | `Walk`, `InspectPath` | shared by every later phase |
| Validator (`pkg/compiler/validator`) | issue list; the tree's flags and pipelines | preorder walk, per-node checks, `checkPipelineOrder`, `report` | mutates the tree in place |
| Emitters (`pkg/compiler/emitter`) | text so far, its phase, notes | `emitQuery`, one `applyX` per stage type | reads the mutated tree |
| Fidelity reporter (`pkg/compiler/fidelity`) | rows and counts | `Generate`, `GenerateWithIssues`, `Aggregate` | reads flags and issues |
| Compiler (`pkg/compiler/compiler.go`) | none of its own | `Translate`, `Complete`, `Lossless` | runs the phases in order |
| Registry (`pkg/registry`) | the installed definitions, behind an RWMutex | `Load`, `LoadDir`, `Get`, `List`, `Default` | everyone reads it |
| Proxy (`pkg/proxy`, `cmd/polyql-proxy`) | one goroutine per request; the server | `handleQuery`, `forward`, `serve` | clients, a backend, the compiler |
| Dashboard (`pkg/dashboard`) | a panel tree, panel reports | `Translate`, Grafana fetch | parsers, resolver, validator, emitters |
| Command line (`cmd/polyql`) | exit code, output files | `translate`, `dashboard`, `registry` | all of the above |
| Telemetry, browser build, page | spans; the page's form | start and end; translate | the compiler |

**What is hard about it.** The phases share one mutable tree. The resolver *folds*: an
outer construct is appended to its operand's query, so several modifiers of nested
expressions compete for one field. The validator sorts pipelines while it walks them,
on the assumption that the emitter applies stages in the sorted order and that nothing but
filters can tell. The emitter's text is a state machine of its own (a log
expression becomes samples, once), with one flag shared by all nested queries. What cannot be
expressed is decided twice, by the validator for the report and by the emitter for the
text, and the proxy's gate believes the report. The proxy runs one handler per request
against clients that leave, stall or send two queries, a backend that times out or
breaks off, and a drain with a deadline. The registry is read and replaced by goroutines that share
one lock, from a directory somebody may be editing. The commands write files one
after the other and say what happened in one number.

**What makes it correct.** A translation drops nothing without a note; a reorder that changes
meaning is flagged; the report holds every verdict once and its flags are the worst; what
the report calls complete was written. A text is read as the language's table says, and its
translation groups and filters as it did. What is installed in the registry can be used, and a question is
answered from one set of definitions. An exit code of 0 means that nothing was lost and
everything was written. The proxy sends the backend nothing it may not
ask, never the caller's own text, changes nothing else of a request, and always answers.

## 2. Modules

| Module | Models | State and actions against the code |
|---|---|---|
| `IR` | `ir.go`, `types.go` | `query`, `stage`: the heap the tree lives in; `Children` is `InspectPath`'s order |
| `Dialects` | `registry/*.yaml` as read through `registry.go` | one record per language; no state |
| `PipelineOrder` | `pipeline_order.go` | operators: `rankOf`, the stable sort, `crossedProducer` |
| `Resolver` | `resolver.go`, `resolve_promql.go`, `resolve_logql.go` | one action per `resolveX`, on a stack of resolved operands |
| `Validator` | `validator.go` | `toVisit` is the recursion of `InspectPath`; `VisitQuery`, `VisitStage`, `VisitMatcher`, `VisitWindow`, `VisitOther` run the checks of a node, `Report` records one verdict |
| `LogQLEmitter` | `emitter/logql/emitter.go`, `emitter.go` | `frames` is the recursion of `emitQuery`; one action per `applyX` |
| `Compiler` | `compiler.go`, `reporter.go` | composes the four above: `pc` is the phase of `translate` |
| `Grouping` | operators in both metric parsers, both resolvers and both emitters | `calls` is the recursion of `parseExpr`; one action per token read or call returned; then the translation, read by the same actions with the target's table |
| `Filters` | label matchers, label filters and span set expressions in all three languages | the phases of one translation over predicates; the parsers and lowerings are operators |
| `LanguageDefinition` | `decode.go`, `parseDefinition` and `loadFiles` of `registry.go` | operators: which files load, and what they make |
| `Registry` | `registry.go`, `set.go` | callers, each at a place in a call; the lock as Go's, with readers shut out behind a writer; the directory and its editor |
| `DefinitionStore` | nothing: the abstract promise of the registry | a set is replaced, a question is answered from it |
| `Dashboard` | `translator.go`, `Aggregate` | `toWalk` is the recursion of `walkPanels`; one action per panel and per outcome of a target |
| `Commands` | `translate.go`, `dashboard.go`, `render.go`, `main.go`, `grafana.go` as a way to read | `pc` is the step of the command; one action per step and outcome, and `Kill`; composes `Dashboard` |
| `Proxy` | `server.go`, `proxy.go`, `cmd/polyql-proxy/main.go` | per request: its content, handler phase, parameters, what went upstream, the answer; plus the server's life |
| `Gate` | nothing: the abstract promise of the proxy | a request is posed, perhaps asked of the backend, answered once |
| `MC...` | | what expressions, texts, files, flags and requests are built from in each run |
| `Proxy_proof` | | theorems about `Proxy`: the gate and its refinement; what is sent and told |
| `Compiler_proof`, `CompilerOrder_proof`, `CompilerLosses_proof`, `CompilerRefusals_proof`, `CompilerEmission_proof` | | theorems about a whole translation, each module building on the one before: the sort of one pipeline, types and verdicts; the order of stages; modifiers and the shapes of pipelines; the validator against the emitter; what comes out |
| `Registry_proof`, `Commands_proof` | | theorems about `Registry` and `Commands` |

**Recursion.** The code recurses over trees. Where the steps of a recursion matter, the modules visit the same
nodes in the same order with a stack (`Resolver`, `Grouping`), a worklist (`Validator`,
`Dashboard`) or frames (`LogQLEmitter`). In `IR` the tree is stored flat, by id; stage ids
are allocated in the order a query is written, which is how a property can speak of the
original order after the sort. `Grouping` and `Filters` are about what a tree computes to,
and use recursive operators over trees.

**Inputs.** In `Compiler` the resolver's actions choose the expression: a behaviour is one
translation of any expression of the allowed constructs. Guards on the types of operands
are those of the two languages' parsers, so only queries that parse are built. A PromQL
`bool` is forbidden where the parser forbids it; a LogQL range function requires an unwrap exactly
where `parseRangeAggregation` does. In `Grouping` and `Filters` the author writes a text
token by token and the parser decides; texts it refuses are among them.

**Data.** A name, a matcher or a number appears only as far as a check asks about
it. Functions the target treats alike share a representative. An author's modifier is
the number of its occurrence, so that which of two survived is visible. In `Compiler` text is the set of
nodes it holds; in `Grouping` and `Filters` it is a sequence of tokens. Spelling, quoting
and label names are left out. In the proxy a query is the class of what `compiler.Translate`
makes of it, and so is an expression in `Dashboard` and `Commands`. A comparison of
`Filters` is a set of values for a key, and a filter means the records it selects, out of
all those the tests can tell apart. A definition file keeps one function, one claim and one
spelling of each kind its checks tell apart.

**Files and streams** (`Commands`). A destination is the sequence of documents written to it; opening
a file empties it, and a write may take part of its document. One path may be named for several purposes.

**Order left open.** The checks of one visit judge different nodes, so `Report` takes their verdicts in any
order. Within the proxy every step of every handler interleaves, and within the registry every
step of every caller with every edit.

## 3. Runs

Passing runs:

| Run | Question | Bounds |
|---|---|---|
| `LogQLOrder` | Is a pipeline sorted stably, every dangerous exchange flagged, and re-emitting LogQL as LogQL never refused? | one selector, five stages: enough for an unwrap, a range function, a group aggregation and two stages around them |
| `LogQLOperators` | Types; is the one known way of losing a stage in silence the only one; does a translation end? | three queries, four stages: an operator, both operands, and what follows it |
| `PromQLVerdicts` | Does a node keep its worst verdict, and does the report keep them all and agree with the emitter? | two queries, three stages, one modifier: up to three verdicts on a node |
| `PromQLModifiers` | Which modifiers survive resolution, and which lost offsets are noted? | two queries, two stages, three modifiers before nesting stops: each may meet itself |
| `Grouping` | Are texts read by the precedence table, and translations grouped as the original and read again? | eight tokens, an operator of each way to bind, three pairs of languages: a grouped operand under another, on either side, with a sign or a modifier |
| `Filters` | Does a filter mean what it says, does its translation, and does the report agree with what was left out? | seven tokens, five tests, all nine pairs: `a and (b or c)`, with three connectives or two stages after the selector |
| `Registry` | Can a goroutine wait on itself, can something unusable be installed, what does a load see, is the `DefinitionStore` implemented? | two callers, two files, four versions of a file, two edits: an edit on either side of a read, a load between the two looks of a question |
| `Commands` | What do exit codes, files and dashboards say of each other? | two queries; four panels of which one is a row's; every flag that changes a step; a failure or a kill at any step |
| `ProxyRequests` | Is the gate closed, one parameter rewritten, the cost reported, the `Gate` implemented? | one request of about 1,100 shapes: handlers share nothing but the server's life |
| `ProxyDrain` | Are answers final, requests concluded, drains ended? | two requests, four shapes, so that a drain meets two handlers in different places |

Every bound is a constant of the model: `MaxQueries` and `MaxStages` limit what one
expression allocates, `MaxModifiers` stops subqueries nesting, `MaxTokens` ends a text,
`MaxEdits` the editing; `Constructs`, `Operators`, `Tests`, `Versions`, `Dashboards` and
`Contents` choose the inputs. A translation is straight-line code over one tree, so a larger
query adds repetitions of what these already contain.

Runs that end in a counterexample each hold one sentence of the repository
against the code (the quotes are in `PROJECT.json`, `findings`):

| Run | The code does |
|---|---|
| `FilterLoosened` | LogQL `{a="2"} \| a="1" or b="2"` becomes TraceQL `{ .a = "2" && .a = "1" \|\| .b = "2" }`, whose `&&` takes one half of the `or` |
| `ProxyBrokenAnswer` | a backend that breaks off a chunked answer is shown as complete |

### Departures written into passing properties

The other departures the modules show are exceptions, each named and as narrow as the property
allows, so that the property says there is *no other* of the kind:

- `rate({a}[5m]) * 2 > 5` in LogQL: the comparison sorts ahead of the operator, whose text
  replaces it, with no note; `CONTRIBUTING.md:277` asks that nothing is lost silently
  (`SilentLossOnlyByReorder`; `logql/emitter.go:797`);
- `sum(rate(x) > 1)` becomes `sum(rate(x)) > 1`: `crossedProducer` looks for parsers and formatters,
  and an aggregation is neither (`SwappedPairFlagged` is stated over the pairs it considers;
  `pipeline_order.go:215`);
- `@` is dropped with an unsupported note while `Complete` holds, so the proxy forwards the query
  (`RefusalsAreUnsupported`; `logql/emitter.go:102`, `compiler.go:77`);
- an aggregation flagged PARTIAL because the target has it on another axis is not written
  at all (`RefusalsAreUnsupported`, `OtherAxis`; `logql/emitter.go:333`);
- LogQL's parser reads `> bool 5` and LogQL's emitter writes `> 5`, also from LogQL into LogQL, with a note and
  a PARTIAL verdict (`SameLanguageIsComplete` and `RefusalsAreUnsupported`, `Reworded`; `logql/emitter.go:763`);
- an offset written for one operand hides the note for the one dropped from another
  (`DroppedOffsetsNoted`; `logql/emitter.go:141`);
- nested offsets, instants and subquery ranges overwrite each other, `5 > x` is resolved as
  `x > 5`, and `bool` between two series has no field to live in
  (`LossesAreKnown`; `resolve_promql.go:538`, `:388`, `:419`);
- a reordered stage is listed under two spellings of its path, and so twice in the report, although "findings
  already visible from the flags are not repeated" (`EveryVerdictReported` excepts the sort's verdicts and
  checks that no other is repeated; `pipeline_order.go:232`, `reporter.go:166`);
- a comparison with a number, and a join, are written without grouping what they stand on and
  are not grouped where they stand: `-(x > n)` becomes `-x > n`
  (`GroupingKept`, `Exposed`; `promql/emitter.go:490`, `:639`);
- LogQL's parser takes `5 or x` and `5 > 5`, whose PromQL text does not parse
  (`TranslationIsRead` of `Grouping`, `Untypable`; `logql/parser.go:237`);
- three kinds of filter are left out with a note and without a verdict, so that the translation counts as complete:
  a boolean inside another in a LogQL label filter (`NestedStage`; `logql/emitter.go:640`); a stage that PromQL's
  braces cannot hold, such as `{a="1"} | a="1" or b!="1"`, or that comes after a test of the body (`UnfoldedStage`;
  `promql/emitter.go:787`); an ordered comparison that would follow an empty LogQL selector
  (`UnselectedComparison`; `validator.go:305`). `VerdictsMatchNotes` says of the first two exactly when they
  occur, and that there is no other kind;
- of an `or` with a boolean inside LogQL keeps the rest, which selects less (`LossOnlyWidens`, `HalfAnOr`;
  `logql/emitter.go:640`);
- LogQL `{b="2"} | a > 1` becomes PromQL with `a>"1"` in its braces,
  TraceQL `{ .b != 1 }` PromQL with only `b!="1"`; neither is read by PromQL's parser
  (`TranslationIsRead` of `Filters`);
- text output that was cut, a file whose `Close` failed, and a report given the dashboard's own path, end in
  exit 0 (`DoneMeansWritten`, `TextCut`, `Unclosed` and `ReportedOver`; `render.go:59`, `render.go:21`,
  `dashboard.go:232`, `:228`);
- exit 0 allows partial translations unless `--fail-on-partial` says otherwise, and `dashboard`
  does not look at mismatched signals (`NoQueryLostQuietly`, `Exact`; `main.go:31`);
- with `query` and `q` both in the URL, Tempo is sent a `q` the proxy did not translate
  (`BackendRunsTranslation`, `OneParameter`; `server.go:234`);
- a body past 8 MiB is forwarded cut short (`OneParameterRewritten`; `server.go:209`);
- a body that never arrives holds its handler until the drain
  (`RequestConcluded` asks for the body or the caller's leaving; `main.go:184`);
- "a slow client must not hold a connection open indefinitely" (`main.go:183`), but only the headers have a
  deadline: a caller that stays connected and does not read the backend's answer holds its handler in `io.Copy`
  until the drain (`RequestConcluded` excepts a caller that has stalled, `Stall`; `server.go:310`).

**Fairness.** `Compiler` has weak fairness on the phases after resolution: they run in the
caller's goroutine and wait for nothing. `Proxy` has weak fairness on each handler's own steps
(`Step(r) /\ ~Stalled(r)`), since a goroutine that can run is scheduled, but not while it writes to a caller that does
not read, which no timeout ends; on the backend's side only through
`FailUpstream` and `BreakResponse`, which the HTTP client's timeout guarantees, and on the drain and its deadline.
There is none on a client's sending its body, reading its answer or leaving, nor on a signal. `Commands` has weak fairness on the
command's own steps, a fetch from Grafana being one because it has a timeout, and none on
whoever writes into its pipe. `Registry`, `Grouping` and `Filters` state safety only.
Deadlock is checked in every run: a finished translation, a command that has exited and an
exited server stutter explicitly; the registry's callers always have a call to make or one to finish.

## 4. Theorems

`Proxy_proof`, for any set of requests, any contents and either policy:

- `TypeCorrect`: `Spec => []TypeOK`.
- `FailsClosed`: `Spec => []FailClosed`. `FailClosed` is not inductive: that something
  went upstream says nothing of how it got there. The invariant `GateInv` adds, for each request,
  what its handler has established at the point it has reached: once read, the parameters are those
  received; at `sending` or later the query has been judged and is one the policy lets
  through; an answer of the backend's means the request was sent. Each action disturbs one
  request (`StepFrame`), so the step is proved for that one (`GateStep`) and framed for the rest.
- `AnswersAreFinal`: an action property, from the types and the phases alone.
- `ProxyImplementsGate`: initial states map to initial states, and every step to
  `Pose`, `Ask`, `Answer` or a stutter, using `TypeOK` and `GateInv`.

- `BackendNeverRunsTheOriginal`, `RewritesOneParameter` and `CostsAreTold`:
  `Spec => []BackendRunsTranslation`, `[]OneParameterRewritten` and `[]CostIsReported`. Once a query is
  rewritten the parameters as read are gone, and once a request is answered its phase no longer
  tells how. Told means both ways: an answer costed is one of a translated query, and a refused caller who has had its
  answer, and has not left before it, has been told the cost. `ContentInv` therefore says what a handler holds, has sent and has told in terms of what its
  caller sent, for each phase. What `findQuery` finds and what the backend takes for the query
  are looked up in different orders; `FoundWhere`, `SetPlaces` and `BackendSees` compare the two over
  the places a parameter can be in.

`Compiler_proof`, first, for pipelines of any length, any target and any heap:

- `SortKeepsStages`: the reordering is a permutation. A stage's new position is one more
  than the number that precede it; `Precedes` is a strict total order, so positions are
  distinct, and a one-to-one map of `1..n` into itself is onto.
- `SortIsStable`: the result is in rank order, stages of a rank in the order written.
- `ExchangedPairReported`: if the sort exchanges two stages of which one rewrites what
  the other reads, both are in `crossedProducer`.

then, for any set of constructs, either source language, any bounds, and hence any expression:

- `TranslationTyped`, `CompilerTypeCorrect`: `Spec => []Typed`, and `TypeOK` from it. `TypeOK` is not
  inductive: that a stage's operands exist says nothing of the worklist, the frames or a verdict that is
  waiting. `Typed` says that whatever any of them refers to has been allocated, that a frame that waits
  stands at a stage of its query, that a reason is always given with the same flag, and that a phase finds
  its predecessor's state finished. The many `resolveX` are proved to be one of five kinds of step
  (`ResolverMoves`: fetch a query, begin one, fold a stage in, change a query's fields, join), so that what follows
  is proved of the kinds.
- `NodesCarryTheWorst`, `ReportIsEveryVerdict`: `Spec => []FlagIsWorstVerdict` and
  `Spec => []EveryVerdictReported`, from `Judged`. A row that hides an issue carries its flag because the
  reason determines it, and a row is there once because only the sort's verdicts have a path of their own (`Judgement`).

`CompilerOrder_proof`, for the same:

- `PipelinesLeaveSorted`, `SwapsAreFlagged`: `Spec => []StableSorted` and `Spec => []SwappedPairFlagged`, from
  `OrderInv`. Its parts are: while it is resolved a pipeline is in the order it was written in, and after
  that stages of a rank are, and of two stages turned around and in conflict one is flagged or about to be (`OrderOK`);
  a set of queries that holds the operands on the stack and is closed under operands is the set of
  all queries (`Rooted`); and, during the walk, there is a set of queries visited and sorted such that whatever its
  stages refer to is in it or still ahead (`SortOK`). When nothing is ahead that set is closed and holds the
  root, so by `Rooted` it is every query: no nested pipeline escapes the sort. This is again a claim
  about a tree of any depth without induction on it. That the verdict on a pair is the right one is
  `ExchangedPairReported`, carried from one pipeline to the walk that judges it.

`CompilerLosses_proof`, for the same:

- `ModifiersSurvive`: `Spec => []LossesAreKnown`. `LossesAreKnown` is not inductive: a LogQL range sets the
  offset of its query outright, and loses none only because a log expression has had none given to it.
  `ModifiersOK` adds that (`LogsUnset`), and what it takes to stay true: no two operands share a query, since they stand in
  the order their queries were allocated (`OperandsAscend`), and a modifier belongs to a query that exists
  (`HomesOK`). Each `resolveX` is proved to satisfy `Resolves`: one operand is left on top with its own query or
  a fresh one, what is written is written for it, and a field that changes has been written again.
  `ResolvesKeeps` needs no more.
- `ShapesThroughout`, the lemma the next two modules stand on: what the parsers' types of operands leave of the
  possible pipelines. An operator over queries of its own, or a bare number, is the first stage written in its query and
  the query then has no selector (`OriginsFirst`); a query without a subquery has at most one stage that turns
  records into samples, and a selector to feed it (`OneRange`); what reads log records stands under a selector
  (`LogStagesSourced`). None of it is inductive without what an operand's type says of its query
  (`OperandsOpen`): a `log` operand has a selector and no producer yet.

`CompilerRefusals_proof`, for the same:

- `EmitterAgreesWithValidator`: `Spec => []RefusalsAreUnsupported`. The validator and the emitter decide what LogQL
  cannot say in two walks over the tree that share no state but the flags, and the proof has to show that the second never
  refuses what the first let pass. Three invariants meet. `JudgedOK`: during the walk there is a set
  of queries visited whose checks have been made and whose stages' checks have been made or are ahead, so at the end every
  check of every node has been made (again without induction on the tree). `FittingOK`: a verdict on a stage is of a kind the checks can reach, so that
  a flag tells which check raised it. From the two, an expression nothing of which was flagged UNSUPPORTED
  is `Plain`: every stage has a spelling, every grouping has samples before it in its pipeline, every offset has a range.
  `RefusalOK` then says what the emitter's calls know of a plain expression: a call writes a log expression exactly as long
  as its query has a selector and no stage passed has made samples of it (`InPhase`), the offset is written once the range
  it goes with is (`Reached`), and whoever waits for a call stands at an operator (`Awaiting`). With the shapes and the sort's rank order
  it follows, stage by stage, that the emitter finds itself in the phase it asks for, and that every
  note it leaves is one of the two departures the property names, or is about a `bool` that the report shows as partial.

`CompilerEmission_proof`, for the same:

- `SameLanguageLosesNothing`: `Spec => []SameLanguageIsComplete`: nothing is refused, and the only notes are those about a
  `bool` written as a filter, each of them reported. It holds provided no construct makes numbers of its own or combines
  queries (`Constructs \cap Number = {}`). The hypothesis is the property's own scope and not a convenience of the proof:
  with operators LogQL into LogQL is *not* always complete. Joins are refused, and in
  `sum(rate(x) + 1)` the query that holds the grouping has no samples of its own, those being its operand's, so
  `checkAggregationOperand` refuses it. `LogQLOrder`, which checks the property, has no such construct either. The invariant
  `SameOK` says that whatever the resolver builds the language can spell, that each grouping was written after a producer of its
  own query (`Fed`; the sort keeps it there, `SortKeepsFed`), that each offset is one of a range that has been or is about to be read
  (`OffsetsRanged`), and that no verdict refuses (`SameJudged`).
- `StagesLostOnlyByReorder`, `OffsetsAreNoted`: `Spec => []SilentLossOnlyByReorder` and `Spec => []DroppedOffsetsNoted`, from
  `EmissionOK`: there is a set of queries whose text is finished, the root being among them once the emitter returns, such that
  every stage of theirs is in some text, noted, or was put ahead of an operator by the sort, and the operands of those stages are
  finished too (`Finished`); every call under way has done as much for the stages behind it (`Underway`), and expects from the
  call inside it the operands it has not had yet (`Expects`). `Spare` is why the reorder is the only silent loss:
  an operator overwrites its call's text, and all that can be in it by then are stages the sort moved. When the emitter has
  returned, the finished queries and those lost with a join are closed under operands and hold the root, so by `Rooted` they are all there
  are. `OffsetHeld` ties the one flag all the calls share to some text that really has an offset.

`Registry_proof`, for any goroutines, files, definitions and number of edits:

- `NobodyWaitsOnItself`: `Spec => []NeverWaitsOnItself`.
- `WhatIsInstalledIsUsable`: `Spec => []InstalledUsable`, from `LoadedIsWhole`: what
  `loadFiles` accepts is not empty and can be used together.
- `UneditedDirectoriesLoadWhole`: `Spec => UneditedReadIsDisk`, an action property, from `DirectoryInv`: of a directory not
  edited since it was listed, what has been read is what the files hold, and what has been read and what is left are all the
  files there are. That the next file is one of those left, for any numbers of files, is the least-number principle, which
  `LeastOf` draws from the library's well-foundedness of the natural numbers.
- `RegistryImplementsStore`: every step maps to `Replace`, `Ask`, `Answer` or a stutter; a load's
  answer is nothing the store knows of.

All but the third rest on `RegistryInv` alone. What is installed being usable says nothing of a load that
is about to install; who holds the read lock, and that it cannot be shut out as well, depends on
where its call is; and the store answers at the moment the lock is given up, so a reply
prepared earlier must still be the right one. The invariant therefore says, for each place
in a call, what the call has in hand: what it is about to install is whole, a caller that holds or
waits for the lock is at a place that may, a miss is still a miss while the lock is held, and a
reply is what the store would say now. A step disturbs its own caller only (`StepOf`), but for `Install`,
which nobody holding the lock can meet.

`Commands_proof`, for any invocations, lists of queries, and dashboards of any shape:

- `CommandsTyped`: `Spec => []TypeOK`.
- `SuccessIsWritten` and `GivingUpChangesNothing`: `Spec => []DoneMeansWritten` and
  `Spec => []AbandonedChangesNothing`, from `FilesInv`. An exit code speaks of writes that lie several
  steps back, so the invariant says what is on disk at each step: until the first write every destination
  is as found; at `reporting` the dashboard is written whole; a list given inline has one query, which
  is why its failure may still be answered without touching a file. `WorstIsOne` says of which
  results the worst code comes.
- `EveryPanelKeepsItsOwn`: `Spec => []PanelsKeepTheirs`, from `WalkInv`: there is a set of panels
  seen so far, such that the panels within a seen one are seen or ahead, their targets are ahead or done
  with, each once, and no other target is touched. When nothing is ahead the set is closed, and
  `DashboardsAssumption` (every panel stands in one place and is reached from the dashboard) makes
  it the whole dashboard. That is how a claim about a tree of any depth is proved without
  induction on it.
- `ReportsFollowThePage`: `Spec => []ReportsInPageOrder`, from `PageInv`: the worklist stands in the order of the page
  and every report comes before all that is ahead (`Comes`, `InLine`). The order is between ways to panels, and
  `WayTo` is defined by recursion on the tree. That there are ways, and one to each panel, is proved of the least set of
  pairs that holds the dashboard's own way and is closed under going on into a panel (`WaysGoOn`): a panel without a way, or
  with two, would leave a smaller set just as closed. What a pop puts in place of a panel is then in line because ways
  that part stay parted however far they go on (`DivergesOn`).
- `SuccessLosesNothing`: `Spec => []NoQueryLostQuietly`, from `QuietInv` (a report says of its expression what the compiler made
  of it) and `WalkInv` (every expression that is not blank has a report). An exit code speaks of all the
  results through their worst code, and of a dashboard through two sums; `SumOfNothing` says that a sum of counts is nothing only if each is,
  over any finite set, whatever order the fold takes its members in.

The assumptions are those the modules name (`PolicyAssumption`, `ContentsAssumption`,
`BoundsAssumption`, `LanguagesAssumption`, `EmbeddedAssumption`, `NamesAssumption`,
`DashboardsAssumption`, `QueryListsAssumption` and their like) and
nothing else; TLC evaluates them in the runs.

The theorems about a translation keep `EmittedTarget`: the emitter modelled is LogQL's.

**Model-checked only.**

- Liveness (`TranslationReturns`, `RequestConcluded`, `DrainEnds`, `CommandEnds`): fairness and
  `ENABLED` are outside what the prover handles.
- The properties of `Grouping` and `Filters`: they compare what recursive operators make of trees and texts. The
  prover loses its back end for arithmetic and sets in a module that declares such an operator.

That is every liveness property of the project and what recursive operators compute; every safety and action property of
`Compiler`, `Registry`, `Proxy` and `Commands` that a passing run checks is a theorem.

**Induction.** The library's induction theorems take an operator as a parameter, which no installed prover can instantiate.
Where a proof needs induction, the claim is put as a set: the least number of a set that is not empty (`LeastOf`), a set of subsets
that grows member by member and so holds all of them (`EverySubset`), the least set closed under a step (`WaysGoOn`, `TotalsAdded`), or a
set of nodes seen that is closed once nothing is ahead.

Modules with a theorem use no recursive operators.

## 5. Not modelled

- TraceQL's structural operators, aggregates and metrics, as a source and as a target; calls, windows,
  histograms and aggregations in PromQL and TraceQL as targets. `Compiler` emits LogQL only (`EmittedTarget`).
- Spelling: quoting, durations, number formats, label flattening.
- The emitter's notes about windows, metric names and join labels, which no property needs.
- Lexing of characters, and how a parser goes on after an error to find more of them: a text
  with an error yields no query either way.
- In the proxy: a listener that fails to open, a write to a live caller that fails (it looks like the caller's
  leaving; one that waits for its reader is modelled), HEAD (read as GET), repeated values of one parameter.
- In the registry: that `Load` returns the map it installs and `Get` pointers into it. No caller in the repository
  changes them, and the model's definitions are values.
- In the commands: flag parsing, layout of the output, the `registry` commands, which print what `Registry` holds.
- Parser and emitter registries are filled before `main` and only read afterwards; telemetry, the browser build,
  the page and its generator keep no state a property could be about.

## 6. Plan

1. *Done:* the compiler core (PromQL and LogQL into LogQL), the proxy, the gate, their first theorems.
2. *Done:* the registry, its store and the proof that the one implements the other.
3. *Done:* dashboards and the two translating commands, with the proofs of what they write.
4. *Done:* grouping and filters, from text to text.
5. `TraceQLResolver` and `TraceQLEmitter` over an IR with span set relations; PromQL as a target of
   `Compiler`; a round trip as a composition of two translations.
6. Parsers' error recovery and its termination, as a state machine over token classes.
7. *Done:* proofs of the compiler's types, verdicts, order and modifiers for every bound, and of what the
   proxy sends and tells.
8. *Done:* proofs that the emitter refuses only what the validator did, that LogQL comes out of LogQL whole, and that nothing
   else is lost unsaid but by the reorder.
9. *Done:* proofs of a directory's loads, the order of a dashboard's reports and what success says of sums and worst codes.
10. Proofs for 5: `Shapes` and `Plain` for PromQL as a target, whose emitter has no phases but an order of its own.
