# A formal model of proposit-core

proposit-core is the engine of an argument-mapping application: it stores arguments as
premises over logical variables, binds those variables to versioned claims, keeps the
claims' own graph of citations and axioms, evaluates and forks arguments, lets one argument
respond to another, records what arguments were made from, and turns text into arguments
through pipelines of language-model calls. This directory holds TLA+ models of the parts whose
correctness depends on orders, failures and cross-references, TLC configurations that check
them on small instances, and proofs that TLAPS checks for every value of their constants.

Paths below are relative to `src/src/lib` unless they start with `docs`. `PROJECT.json`
maps each definition to the lines it stands for, and lists every hazard at its line with the
properties that catch it.

## 1. The system's parts

| Part | State it keeps | Operations | Interacts with |
| --- | --- | --- | --- |
| **Pipeline scheduler** `pipelines/scheduler.ts`, `stage-runner.ts`, `scheduling.ts`, `dag.ts` | the record map of a run, the pool of started stages, failures, the captured configuration error | `executePipeline`; the descriptor helpers `computeDagProgress`, `isStageEligible` | calls each stage's `run`, emits events synchronously to an observer, shares one abort signal |
| **Durable driver** `pipelines/single-stage.ts` | none of its own: an orchestrator persists the outcomes | `executeStage`, `launchStage`, `completeStage`, `executeFinalize` | the same stages, across invocations |
| **LLM stage** `pipelines/llm-stage-helpers.ts` | attempt number, correction suffix, response id seen | `llmStage`, `runLlmStageAttempt`, `validateLlmOutcome` | provider calls and their callbacks; runs inside a scheduler stage or a turn |
| **Providers** `../extensions/openai`, `../extensions/chat-completions` | open requests, polls, rounds of a tool loop | `respond` in five transports | the network; callbacks of the stage |
| **Conversation** `conversation/*` | id of the last accepted response, closed flag | turns, close | LLM stages over a wrapped provider |
| **Claim libraries** `core/versioned-library.ts`, `claim-library.ts`, `claim-citation-library.ts`, `claim-axiom-library.ts` | claims with their versions; two sets of connections | create, update, freeze, connect, disconnect, snapshots | connections look claims up; each library validates itself only |
| **Argument library and forking** `core/argument-library.ts`, `core/proposit-core.ts`, `core/fork.ts`, `fork-namespace.ts` | engines by id, fork records by kind | register, remove, `forkArgument` | claims, both connection libraries, engines |
| **Origin library** `core/origin-library.ts`, `utils/origin-text.ts` | documents, links, anchors, indexes, the violations known to be there, two caches | add, update, remove, validate, snapshots | arguments by id and version |
| **Argument engine** `core/argument-engine.ts`, `argument-validation.ts`, `argument/*` | premises, variables and their bindings, conclusion, the shared expression index | premise and variable edits, roles, snapshot, rollback | calls into premise engines, which call back to validate |
| **Premise engine, expression manager** `core/premise-engine.ts`, `expression-manager.ts` | one tree of operators, formulas and variable expressions, with positions, recorded slots and cached checksums | add, append, insert, wrap, reparent, remove, change operator, toggle negation | index and bindings of the engine |
| **Grammar and normalization** `grammar/*` | none: rules, rewrites, population and repairs over an argument | AN-1 to AN-4 to a fixpoint, `populateFrom`, repairs, validators of four tiers | run at the end of every premise mutation in assistive behaviour |
| **Evaluation** `core/evaluation/*`, `core/relationships.ts` | assignments over four truth values (unknown, true, false, contested) | propagation, satisfiability, validity, reports | reads the argument |
| **Responses** `core/response/*` | a response pinned to a version of another argument | classify, rebase, check, carry answers | two arguments and what they refer to |
| **Change sets and diff** `core/change-collector.ts`, `utils/changeset-*.ts`, `core/diff.ts` | a change set per mutation | record, compose, order, compare | produced by the engine, run by a caller against a store |
| **Sub-pipeline stage** `pipelines/stage-helpers.ts` | none | `subPipelineStage` | runs `executePipeline` inside a stage |
| **Parsing, ingestion, builder, citations, structured output** | none that persists | conversions of text | pipelines |
| **Command line and storage** `../cli/*` | files | one command at a time | everything above |

### What is hard in it

* **Concurrency and failure** live in the pipelines: stages settle in any order while other
  stages read the shared record map; an observer can abort in the middle of a synchronous
  turn; a provider call can end in many ways, each with its own retry rule; a background
  response goes on without the client that submitted it; an out-of-process orchestrator can lose
  an invocation between submitting a request and persisting its id; turns of one conversation may overlap.
* **Cross-references** are hard in the data model: arguments pin claim versions, connections
  pin both ends, responses pin expressions of a version, fork records pin originals, and every
  library validates only itself. Whether the whole is consistent depends on the rules of every operation.
* **Partial validation** is hard in the engine: engine mutations validate everything and roll back,
  premise mutations validate little, so a premise edit may leave what a later engine call is
  punished for. The origin library is stranger: it tolerates what was already wrong when it was
  restored, and must still be repairable.
* **Partial failure** is hard in forking: several libraries are written one after another without a
  rollback.
* **Reordering** is hard in change sets: the changes of many calls become one sequence of statements, each of
  which a store with foreign keys must accept.
* **Fixpoints in an arbitrary order** are hard in normalization and evaluation: which match or step comes
  first is left to the order of random ids, and must not be seen in the result.

### What makes each part correct

* Scheduler and durable driver: the run ends; nothing is skipped without a reason; a clean result
  means every stage completed; both promise the same outcomes.
* LLM stage, providers, conversation: retries only what was opted into, quotes the latest refusal
  (outside a conversation), settles with the right reason; the events tell of one call; a refused or lost response is never gone on from.
* Claims: connections resolve, have the right types and form no cycle; what is frozen stays.
* Forking: copies support, stays independent of everything but what a response shares.
* Origins: caches hide nothing; what is damaged can be taken out.
* Engine: never reaches a state its own validation refuses; cascades are complete; the index agrees.
* Expression trees: parent links form a tree under every operation, sibling positions are distinct
  and keep their order, the assistive rules tidy and preserve meaning.
* Derivations: populating gives the form the grammar asks for; repairs cure and take no more than they must.
* Evaluation: the closure is unit propagation whatever the order; a valid argument is never reported refuted.
* Responses: what is moved silently means the same; the check answers what entailment does.
* Change sets: every statement is accepted and the store ends where the engine was.

## 2. The modules

| Module | Models | Uses |
| --- | --- | --- |
| `PipelineDag` | the stage graph and the helpers of `scheduling.ts` | |
| `PipelineContract` | abstract: what a pipeline run promises, whichever driver runs it | `PipelineDag` |
| `PipelineScheduler` | `executePipeline` with `runOneStage` and `runFinalize` | refines `PipelineContract` |
| `DurablePipeline` | the single-stage functions under a crashing orchestrator | refines `PipelineContract` |
| `LlmStage` | LLM stages sharing a signal, over an external provider | |
| `Providers` | the code's providers in place of the external one, over an external service | `LlmStage` |
| `Conversation` | the turns of a conversation over those stages | `Providers`; refines `LlmStage` |
| `ClaimGraph` | claims, versions, citation and axiom connections | |
| `ForkArgument` | `PropositCore.forkArgument` and the argument library | `ClaimGraph` |
| `OriginText`, `OriginLibrary` | normalization of an origin text; documents, links and anchors | |
| `ArgumentEngine` | one argument: premises, variables, index, conclusion, rollback, loading, `forkArgumentEngine` | |
| `ExpressionManager` | sibling positions, the flat store of a premise's expressions and its operations; the mutations of `PremiseEngine` over it | |
| `AutoNormalization` | AN-1 to AN-4, their driver, the Presentable rules of a tree | `ExpressionManager` |
| `PremiseTree` | one premise under edits, in both behaviours, and `normalize()` | `AutoNormalization`, `Belnap` |
| `Grammar` | the rules of the four tiers, as sets of violations | `AutoNormalization` |
| `Derivations` | derivation premises created, populated, edited by hand and repaired | `Grammar` |
| `Belnap` | the four-valued connectives | |
| `FormulaTree` | the finished trees evaluation and responses read | `Belnap` |
| `Evaluation` | one evaluation for a reader: what granted steps force, satisfiability, the report; validity | `Relationships` |
| `Relationships` | how premises relate to a focused one | `FormulaTree` |
| `ResponseLinks` | links, their positions and faults; the check | `FormulaTree` |
| `CarriedAnswers`, `Rebase` | agreement carried into the target; classification and moving | `ResponseLinks` |
| `Response` | a response through two versions of what it answers | the two above |
| `Changeset` | recording, composing and ordering changes; the diff | |
| `Persistence` | a caller that edits and keeps a relational store beside the engine | `Changeset` |
| `*Proofs` | the theorems of section 5 | the module they are named after; `LibraryProofs` is about `ClaimGraph`, `ForkArgument` and `OriginLibrary`, `ArgumentProofs` about `ArgumentEngine`, `Relationships` and `Evaluation` |

Each `MC*` module gives its specification a small instance for TLC. Definitions whose name ends in
an underscored phrase (`wouldCreateCycle_NotTransitive`) are faulty variants of the definition
below them. They are never used by a specification; each is the plausible bug that some property
is there to catch, and substituting it makes TLC report that property.

### Pipelines

**Scheduler.** `records` is the shared map of terminal outcomes, with `"none"` for no entry. `work`
folds the scheduler's `remaining` set and its `pool` map into one function: `"remaining"`, `"running"`
(the stage's `run` is pending), `"leaving"` (its record is written, its promise has not yet taken it
out of the pool) and `"done"`. `phase` is where the scheduler's single thread is. The gap between
`"leaving"` and `"done"`, and between a stage leaving and the race resolving (`woken`), are real
microtask boundaries: other stages settle in them. `Skip` and `SkippedAll` are the first loop of a turn,
`Start` and `StartedAll` the second. `Complete`, `Fail`, `FailOnConfig` and `SkipOnAbort` are the ways
`runOneStage` settles, and only happen while the loop awaits, since JavaScript runs the synchronous part of
a turn without interruption. `Abort` does interleave there, because `emit` calls the observer
synchronously. Which eligible stage starts first is left open; the code follows declaration order.

**The contract.** `PipelineContract` says in one page what both drivers promise: one outcome per
stage, each with its reason, and one verdict. The scheduler implements it by a `verdict` computed
from its phase and output; the durable driver by a `verdict` computed from its `conclusion`, with `stored` for the
outcomes. `MCPipelines` holds both, and the first step of a behaviour is the call of one or the other.

**Durable driver.** `DurablePipeline` has the orchestrator of the documentation: it creates a run (`CreateRun`), persists each
outcome, asks `computeDagProgress`, and re-launches by the documented predicate. `Crash` loses what an
invocation had not persisted; a response it had submitted goes on upstream. After `CallerAborts` an invocation
of `executeStage` may report its stage as skipped, as `runOneStage` does for an aborted signal.

**LLM stages.** `LlmStage` keeps one record per provider call (the refusal its prompt quoted, how the call
ended), so that properties can look back over attempts. A call ends with an output that passes, one the
schema or `checkOutput` refuses, or a thrown error by its `retryReason` tag. Stages in `Run` share the
signal and nothing else.

**Providers** replaces the end of a call by the code's own steps. `call[r].at` is where `respond` is:
posting, streaming, sleeping between polls, reading a poll's answer, and so on. `responses` is what the
service has accepted; the service may refuse a request, lose any answer, end a response in each way the code
tells apart, and go on with a background response nobody asks for any more. The tool loop repeats the POST,
chained on its own previous response, up to `MaxRounds`.

**Conversation.** `previous[r]` is what a turn's wrapped provider chains on, read when the turn begins,
`captured[r]` the id its wrapper saw last, and `lastResponseId` the head the next turn reads. The wrapper puts
the turn's own `previousResponseId` and the caller's own message into every request, retries included: what the
stage appends to a message on a retry never leaves a turn. `quotedBy` is the refusal a request quotes, none for a turn;
`StageStarts` runs a stage outside a conversation, as a pipeline does, and its requests quote what the stage says.

### Claims, forks and origins

**`ClaimGraph`** has one variable for the versioned library and one for each connection library. A claim
is its type and its sequence of versions; a version is its content and whether it is frozen.
`ReachableFrom` is the depth-first search as the least closed set, which needs no recursion and can be
proved about. A refused operation is a disabled action.

**`ForkArgument`** extends it with the argument library. An argument is what its variables pin in each of
its versions, and what it answers. `released` keeps the versions of removed arguments, since a caller may still
pass a snapshot of one to the fork of its answer (`respondsToSnapshot`); a removed argument has none older when its id is used anew. `forkArgument` is one action, because the code is one synchronous
call, but it has the code's three ways out: full success, the new id being taken (clones stay
behind), and the new id having been forked into before (the engine stays registered, the
record is refused).

**`OriginLibrary`** is a record with the snapshot part, the indexes by argument and by target, the
violations known to be there (`knownViolationKeys`) and the two caches of `validate()`. An operation gives
the library it leaves and whether it was refused: `withValidation` compares the violations after the call with the
known ones and rolls back on new ones. `OriginText` works on code points, abstracted to the classes its rules look at.

### The argument engine

`Commit` is `withValidation`: the new state if `Valid` holds of it, else the old one, with the name of
the undone call in `undone`. `Valid` is what the validation asks of references, bindings, the conclusion and the
index. What it asks of each premise's own tree is left to `PremiseTree`; a premise edit can leave a tree it
refuses (findings 3 and 4), and a later call of the engine is then rolled back for that. Premise operations (`appendExpression`, `updateExpression`,
`removeExpression`) run `LightlyValid` instead, as `validateArgumentAfterPremiseMutation` does.
A variable is bound to a claim, a premise of this or another argument, or (in a response) an answered
expression. The operator tree above the variable expressions is abstracted: `removeExpression` takes any set
of the premise's variable expressions, which covers every subtree.

### Trees, rules and derivations

**State.** `store` is what `ExpressionManager` holds: `tree`, the expressions by id; `slots`, the
positions recorded as taken under each parent (`childPositionsByParentId`), which the code
keeps beside the tree and consults instead of it; `dirty`, the ids whose checksums are to be
computed at the end of the call; and `stale`, a ghost: the ids whose stored checksum does not
belong to what they contain. `behavior` is the engine's, `edits` counts calls, and
`breaches`, which no action reads, remembers which of the two calls of finding 4 were made.

**Operations are operators, not actions**, because the code composes them: a toggled negation is a
removal or an insertion, and an AN rule is a series of premise calls. Each takes a store and returns the set of
stores the call can leave, empty when it throws. `PremiseTree` turns each call of a premise
into one action; in assistive behaviour the action includes the normalization that follows the call, and
is undone with it.

**Normalization.** A rule rewrites the first match in the order of random ids, so the model takes any match;
that makes confluence part of what the properties check. `afterPasses` follows the driver's
loop, and `applyANToFixedPoint` keeps what settles within `MAX_AN_ITERATIONS`.

**`Derivations`** uses the same operators on an argument of several premises. Each of `createDerivation`,
`populateFrom`, a rewrite by hand and the repairs of D-1 to D-3 and P-1 is one engine call, with the follow-up
normalization of the whole argument after every mutation inside it in assistive behaviour. `Grammar` gives each rule as the
set of premises that break it.

**Abstractions.** A position is exact integer arithmetic where the code divides doubles. Ids are
`1..MaxNodes`, and a new expression gets the least free one. Extra fields, change records
and the owner check of an expression are left out.

### Evaluation and responses

`Evaluation` gives a reader an argument, answers for some claims and decisions for some steps; accepted operators are
visited in sweeps, in any order, and `closure` is what is known so far: a value for each variable and which
step forced which component. `Loaded` says what a reader is given: parts resolve, and no expression rests on itself, through its
children and the premises its variables stand for, nor a premise, through what is in it; the engine keeps that (`StaysValid`). Values of a tree, the steps of a visit and
the numbering of the rows are recursive functions. The code numbers rows in bits of a 32-bit integer, where the model has whole
numbers: a table of more than thirty columns is out of reach of the code's loop as well. `Response` starts from a scenario (a response, the versions of its target, what they refer to
elsewhere, what callers decide); classifying, rebasing, checking and carrying are actions, `last` is the
call and what it returned. A `Loaded` response has trees that keep their parts, variables that are bound, and versions of its target told apart by number;
`order` lists its premises, and those that are gone hold no place in it that matters. The versions are `Answerable`: evaluation
accepts each of their premises and none is read through itself. What checking or carrying does with a target, or checking with a
response, that evaluation refuses is not claimed. Both work on finished trees, since nothing they call changes one.

### Change sets

`Changeset` has a change set as one map from the id of a changed row to its bucket (added, modified, removed) and its
latest row, which is what the maps of a collector hold, kind by kind; ids of different kinds differ. The order in which a map lists its
entries is left open. A row is a record of the columns that refer to other rows or that a property reads. `topologicalSortExpressions` chooses an
order with parents first; the code finds one depth first, with a guard against cycles that never
fires, since the rows of one change set form a forest (proved, section 5).

`Persistence` has the engine's calls with their cascades. A call works on a draft, the rows and the changes recorded so
far; its steps record what the code records, in that order. What the caller has not committed is composed in `pending`;
`Commit` turns it into `todo`, the ordered statements, and `Run` executes one against `store`. The caller makes no further call
before the statements have run. `sound` says what rows an engine can hold, and is all that `Starts` is asked for. Removing an
expression leaves its parent as it is, as in the code; promotion is a call of its own. Assistive normalization is a series of
such calls whose changes are composed in the same way.

## 3. What TLC checks

All passing runs finish on the complete state space. Deadlock checking is off, since every run really
stops: a pipeline that returned, a stage that settled, a reader who was told, bounded counters used up.

| Run | Distinct states | Shows |
| --- | --- | --- |
| `pipelines` | 38 027 | one pipeline, in process or across invocations that crash: it ends, honestly, and keeps the contract |
| `llm_stage` | 271 832 | stages and turns over the code's providers in every transport behave as `LlmStage` says |
| `libraries` | 750 557 | claims, forks and origins stay in agreement and repairable |
| `argument` | 205 530 | no sequence of edits leaves references and bindings that the full validation refuses; eight arguments read, every answer and decision, every order of visits |
| `premise_tree` | 42 661 | any two accepted edits of seven small premises, in both behaviours, with `normalize()` |
| `derivations` | 49 109 | derivations populated, edited by hand, normalized and repaired |
| `responses` | 267 | fourteen scenarios of six responses; each state is a whole call and what it returned |
| `change_sets` | 675 484 | up to four calls composed and committed statement by statement |
| `background_abort` | violation | finding 1 below |
| `origin_text` | violation | finding 2 below |
| `crowded_premise` | violation | finding 3 below |
| `split_premise` | violation | finding 4 below |

**Properties.**

* `CleanEndIsComplete`: a run that ends `completed` with no failure completed every stage.
* `KeepsContract` and `DriveKeepsContract`, `Terminates` and `Concludes`: refinement and progress of the two drivers.
* `AsksWithLatestRefusal`, `SettledHonestly`: what the requests of an attempt quote, in every round of its tool loop and also
  when a transient error came between two refusals, and that those of a turn quote nothing; the reason a stage settles with.
* `EventsTellTheCall`: the events of an attempt tell of one call; the id they carry is the one whose output was
  judged, also after several rounds.
* `ChainsOnAccepted`: no request goes on from a response that was refused or lost, whatever overlaps or is retried.
* `StageContract`: the composition of conversation and providers implements `LlmStage`, liveness included.
* `CompletedWasChecked`: out of process, too, only a checked output completes a stage.
* `GraphSound`, `FrozenIsForever`: the claim libraries.
* `RefsSound`, `ForkCopiesSupport`, `ForkSharesOnlyAnswered`: forks.
* `SameVerdictAfresh`: the origin library judges itself, and finds its links and anchors, as one restored from its
  snapshot does, after any additions, removals, refusals and rollbacks.
* `StaysRepairable`: from any state, also a damaged one, an anchor can be taken out, then links and documents nothing needs.
* `StaysValid`, `OnlyRebindIsUndone`, `IndexAgrees`: the engine's references, bindings, conclusion and index, without what is
  inside the premises' trees.
* `StaysStructural`: through any combination of insertion, promotion, merging, splitting and normalization a premise stays
  free of cycles and of orphans, with parents that can have children, one child of a formula, at most two of an implication or a
  biconditional, and checksums of what its expressions contain. A negation has one child, and the premise one root, until the call of
  finding 4 that breaks it.
* `KeepsOrder`: spreading crowded siblings reorders none, and no edit puts two siblings on one position as long as
  every position is recorded as taken. What happens when one is not is finding 3. Both hold up to zero, where a spread that
  crosses it can leave two siblings.
* `NormalizeTidies`, `NormalizeKeepsMeaning`: after normalization P-1 to P-5 hold (P-3 except for a formula
  directly around a formula, see section 4; all of them unless a negation was given two children), with the same value under
  all sixteen assignments and the variables read in the same order (but for two operands that meet at zero, see section 4).
* `PopulateGivesTheForm`, `RepairCures`, `NormalizeKeepsDerivable`, `ChecksAgree`: populating never fails half way, and derivations
  have the form D-1 to D-3 ask for with exactly the connected claims; a repair leaves no violation of its rule and takes no claim it need not;
  tidying costs no derivation its form; the rules and evaluation's own check agree.
* `ClosureIsUnitPropagation`: the closure is what unit propagation forces, whatever the order of visits.
* `SearchMatchesFlatWalk`: splitting the search into groups answers as one walk over all columns would, unless the premises reach more
  variables than the ceiling. (Reach, not name: a premise bound to the conclusion reaches the conclusion's variables, so that
  counting the variables the premises name is not enough, as the proof of section 5 made plain.)
* `ValidIsNeverRefuted`: when the argument is reported valid, no reader who strikes nothing, contradicts no source and is left with
  nothing contested is told that the premises hold and the conclusion fails. The last condition is needed: beside an unknown variable a
  contested one can make a whole formula read clean (contested and unknown is false and not true), which no row of a table of
  true and false repeats. The proof of section 5 failed without it, and the run's argument with a contested variable shows such a reader.
* `RelationsFollowShortestWay`: how premises relate is read off shortest ways.
* `UnchangedMeansSame`: a link moved without asking fixes the same things in both versions, however far its references go.
* `RebaseDoesWhatWasListed`: a rebase leaves every binding resolved, removes exactly what was listed and touches nothing else.
* `CheckIsEntailment`: "follows", "asserted", "clash" and "undetermined" mean what they say, read off the values evaluation gives
  the premises of the response; two links that support each other support nothing. The premises said to clash are minimal
  if the search can decide all it is asked, and not always otherwise (section 4).
* `CarriedValuesSayIt`: in every world where the values a link carries hold, and the axioms do, its expression has the value the
  link says, provided that evaluation reads all that is fixed (section 4 says when it does not). A granted step is one by which its
  premise holds, a struck one is one evaluation lets a reader strike, and values of different links never disagree.
* `StoreAccepts`, `StoreCatchesUp`: each ordered statement is accepted by a store that checks foreign keys on every
  statement and cascades nothing, and at the end the store holds what the engine held.
* `DiffTellsAll`: a premise is listed as modified exactly when what it says, or what its variables are, changed.

**Bounds and why they are enough.**

* Pipelines: five stages with two roots, a required chain, an optional join and a stage with both
  kinds of dependency; two slots, so that an eligible stage waits for the pool. Every rule of the
  loop is about one stage and its dependencies, and the proofs below cover every other graph. Out of process two of the stages
  are LLM stages, with two launches each and one crash at every point. Two launches let a crash fall in a
  re-launch; more of each is covered by the proofs.
* LLM stages: one stage or turn over each of the five transports with and without a tool; a policy of three attempts that
  opts into rate limits, which puts a transient error between two refusals; the degenerate
  `maxAttempts` 0; two turns that overlap; three in a row, which is what going on from a wrong response takes.
  Two rounds of the tool loop, the second being the last one allowed; one chunk of text per call.
* Libraries: the first state chooses one of three situations. Claims: three citation claims can close a cycle of each length
  up to three; one normal and one axiomatic claim are enough for each type rule. Forks: a standard argument with two versions, a response
  pinned to the first, a free id and one with an old fork record; a claim with two versions, so that the
  version a fork clones is not the one the source binds. Origins: two documents, two links, two anchors; a sound snapshot
  and two damaged ones, a changed text under an old digest and rows of an older format among the damage.
* Argument: the first state chooses whether it is edited or read; the two share no variable. Edited: two premises, three variables
  and two expressions, so that two premises can be bound in a circle, each through a variable expression, with a
  variable left over. At most one variable at a time (`OneOther`) stands for a claim, an answered expression or a
  premise of another argument, which may have the id of one of this. `SavedWith` limits the moment of the snapshot to one where rolling back both
  adds and drops premises. Variable and expression ids are symmetric; premise ids are not, since the conclusion falls to the lowest.
* Premise: seven loaded trees, chosen so that two edits reach each rule: an implication, a connective
  under a connective (AN-1), a formula under a negation (AN-2, AN-3), a formula around a like operator
  (AN-4), a crowded run of siblings (`mc_Crowded`, the only one finding 3 needs) and one that is spread across zero
  (`mc_AroundZero`). `AskedKinds` has one kind of each arity class. Positions go
  from -2 to 11, callers name the position 1, and a premise has at most six expressions before buffers (`MaxEdited`), nine with them
  (`MaxNodes`). No call the code accepts is left out.
* Derivations: two normal claims, one of them with two citations, one cited twice, and an axiom; up to two premises, one of
  which may read the other; two rewrites by hand between any calls, which is what breaking two rules at once takes.
  Read: eight arguments over at most five variables: a chain to a conditional conclusion, parity, a contradiction,
  a premise read through a variable, derivations, a circle, a contested variable beside an unknown one and one evaluation refuses. `Ceiling` 2 and `MaxRows` 8 are small enough
  that the limits are met. The reader decides every operator but a negation (`MCDecidable`), and none of the conclusion of the
  argument with the most operators.
* Responses: the scenarios hold each kind of link (statement and step, at the root and nested), each kind of change between
  versions (a consequent replaced, parentheses added, the conclusion moved, a reference two arguments away), links that
  support each other, premises that clash, an answer to an answer, a step in parentheses, an axiom beside another claim, a
  statement no single values express, a claim read only through a derivation without support, and a premise that reads more
  columns than the search walks.
* Change sets: two premises, three variables, three expressions and three symbols; four calls are enough to remove, add again and move
  a row between two commits, and to commit twice.
* Origin text: every text of three code points.

**Fairness.** The scheduler's own steps and each stage's settling are weakly fair: the event loop runs
microtasks, every provider call has a timeout and every retry loop a bound. No fairness is assumed
for `Abort`, nor for a caller's beginning a run, a stage or a turn. In the LLM stage the loop, the backoff timer and the end of a call are fair; in the composition the last
is no longer assumed but follows from fairness of the provider's own steps and of the service, which answers or fails.
In the durable model the orchestrator is invoked again after a crash while there is
something to do, and the upstream service ends every response; a crash and `CallerAborts` are not fair, and crashes are bounded.
Evaluation runs to its end in one synchronous call. The other models have safety properties only.

## 4. Findings

1. **An abort while a poll is being read leaves the background response running**
   (`../extensions/openai/openai-http.ts:105`, run `background_abort`). `parseJsonOrThrowTransient` turns
   whatever reading the body throws, the abort included, into a transient error. `runBackground` cancels the
   response upstream only for an abort, so this one goes on, and is paid for, although the comment in the
   `catch` says that an abort at any point of the loop cancels.
2. **Normalizing an origin text is not idempotent** (`utils/origin-text.ts:176`, run `origin_text`). A joiner
   before U+2194 is kept, since a pictograph follows; composition then joins U+2194 with a following U+0338 into
   U+21AE, which is none, and a second pass strips the joiner. The comment at line 154 and the README say "idempotent".
   `addDocument` refuses such a text, as its own normal form is not normalized.
3. **A formula put around an expression loses its position** (`core/expression-manager.ts:1190`, run `crowded_premise`).
   `wrapInFormula` records the child's position for the formula, and the `reparent` that follows frees it again, where the comment
   at lines 1186-1187 says that the slot stays owned by the formula. From then on `addExpression` accepts that position by
   number, and `addExpressionRelative` takes it when it finds no room even after spreading the siblings; two siblings share one,
   which `validate()` reports. "A composite never leaves a Structural violation" (lines 395-397) and S-9, "mutations that would
   produce a collision throw" (`docs/Proposit_Grammar.md:353`), say otherwise. Spreading a crowd across zero, where the new
   positions are truncated from either side (line 764), puts two siblings on one position without a formula. The crowded premise the run
   starts from takes some thirty insertions at one place, each halving the gap.
4. **Some edits of a premise leave a tree its own validation refuses** (`core/premise-engine.ts:1163`, run `split_premise`).
   "Structural violations roll back and throw" (lines 299-301), but after an edit of a premise that belongs to an argument only
   references are validated. `changeOperator` splits two of three operands off into a `not`, which has two children then (S-12,
   `docs/Proposit_Grammar.md:386`), and `addExpressionRelative` accepts a sibling of the root (`core/premise-engine.ts:450`), next to
   which an implication can be moved below another expression (S-5). The call succeeds, `validate()` reports the premise, and the next
   call of the engine that validates in full is rolled back for it.

The following disagreements with a document or a comment were met while modelling. No run has one of them for its subject.

* A cancelled nested pipeline is reported as a failure (`pipelines/stage-helpers.ts:102`): the outer stage throws
  `SubPipelineFailedError`, where `docs/api-reference.md` says "Aborted stages surface as `skipped`, not `failed`".
* A durable re-launch ignores `retryOn` (`pipelines/llm-stage-helpers.ts:461`): `failureRetryReason` never reads the policy,
  where `docs/api-reference.md` says core "already did the `retryOn` filtering".
* Merging a degenerate operator (`mergeDissolvingOperator`) loses a recorded slot in the same way as finding 3.
* `normalize()` throws in a tight but ordinary gap (`grammar/an-rules.ts:405`): AN-4 spreads the siblings only when the gap is at most
  the number of absorbed children, and forgets the formula that still sits in it.
* AN-4 can swap two operands (`grammar/an-rules.ts:464`): it truncates the places it gives the absorbed operands toward zero, and of
  two that come to zero the later one is put before the earlier one, where the comment at lines 380-382 says that the
  order under the outer operator "matches the inner's pre-absorption ordering".
  (`NormalizeKeepsMeaning` sets these two apart; the connectives AN-4 absorbs are symmetric, so that the value stays.)
* A rename that takes a symbol another rename gives up later breaks the uniqueness of symbols for one statement
  (`utils/changeset-order.ts:281`): renames run in the order the variables were first changed, where the comment at
  lines 102-107 names such cases only for waiting deletes. (The store of `Persistence` checks foreign keys and not symbols.)
* A failed GET of a poll gives up on a background response that is still being generated, where the documentation of `backgroundMode`
  on the provider interface says that a lost connection costs nothing.
* A background response that ends `cancelled` without an abort fails the stage with `LLM_NON_RETRYABLE_ERROR`
  in process and settles it as skipped out of process.
* `README.md:907` says S-14 cannot be broken by a call; `appendExpression` and promotion do not guard it. `README.md:284` names
  `assertNotConsequentExpression`, which does not exist.
* `skills/proposit-core/docs/grammar.md` says that an assistive mutation keeps a Presentable argument Presentable; removing the consequent of
  a derivation does not.
* A link may carry less than it says without a word (`core/response/carry.ts:459`, `docs/api-reference.md:1827`: "The link carries exactly
  those fixed values"). A column is carried through the variables that evaluation reads, and those named only in a derivation
  without support are not among them; when a variable is bound to such a derivation, the combined formula still reads its claim. If that
  is fixed, its value is dropped and nothing is reported in `notCarried`, as long as another column is carried. (The
  scenario `parenthesized` has such a link; `CarriedValuesSayIt` sets it apart.)
* The premises reported as unsatisfiable need not be "a set from which no single premise can be removed"
  (`core/response/check.ts:242`) nor "a minimal set that cannot: removing any one of them lets the rest be true"
  (`docs/api-reference.md:1658`). A removal that leaves a group of more columns than `SATISFIABILITY_VARIABLE_CEILING` is undecided, so
  the premise stays; when a later removal makes that group small enough to clash on its own, nothing goes back to the premise that
  stayed. In the scenario `crowded` two of the three premises reported clash without the third; `CheckIsEntailment` claims
  minimality only where every group of the premises can be walked.
* `core/relationships.ts:396` calls a premise a constraint that the code reports as unrelated.

Met while modelling, where no text of the repository settles what should happen:

* `insertExpression` with a left operand below the right one closes a cycle; the flush at the end of the call
  then never returns. The model gives such a call no result.
* A formula directly around a formula satisfies AN-3, whose search starts at the child, and
  not P-3, whose search starts at the formula and stops at the inner one, so that `normalize()` leaves it and the
  validator reports it.
* `appendExpression` after a child at the largest position throws.
* An id used in two premises overwrites the entry of the shared index.
* A refused call of the engine replaces its premise engines, so that a handle a caller kept is no longer the argument's.
* The first premise becomes the conclusion also when it is a derivation, which D-6 reports.
* Of two overlapping turns the one that ends later sets the head of the conversation; each is still chained on what it found.
* The wrapper of a turn sends the caller's own message on a retry, without the correction suffix (`conversation/turn.ts:91`): the model
  is asked again without being told what was wrong. A test asks for that, and `AsksWithLatestRefusal` says it.
* The poll loop has no limit of its own.
* Adding a missing document to a damaged origin library can be refused, because violations it hid come to light with it.
* An observer that throws turns a completed stage into a failed one; a `concurrencyLimit` of 0 is reported as a dependency cycle.

## 5. What is proved

**`PipelineSchedulerProofs`**, for every finite acyclic graph and every positive limit
(`DagAssumption`, `LimitAssumption`; the first is what `validateDag` checks, the second is the
options' contract):

* `TypeCorrect`, `NeverExhausted` (the error "Unreachable stages remain at scheduler exhaustion" cannot occur),
  `RunsOnSettledDeps`, `CleanEnd`, `StableReads` (what a running stage reads through `ctx.get` cannot change under it).
* `SchedulerKeepsContract`: every step is a step of `PipelineContract` or a stutter.

The properties are not inductive alone. `IInv` adds that a stage has no record exactly while it waits or
runs (`RecordFollowsWork`); that with an empty pool at the start pass nothing is left to skip
(`NothingLeftToSkip`), which is what makes `NeverUnreachable` hold: the lemma `SomethingCanStart` takes
a minimal remaining stage and shows it eligible; that after the loop nothing remains (`Drained`); that
every skipped stage has its reason (`SkipExplained`) and every failed one its entry
(`FailedIsAccounted`); and what the end of the run implies (`EndIsExplained`). `RecordsAreFinal` shows
that no record is ever overwritten, on which stability of reads and most of the step lemma rest.

**`DurablePipelineProofs`**, for every graph, every split into LLM and deterministic stages and every number of launches and
crashes (`DagAssumption`, `DurableAssumption`):

* `CheckedBeforeRecorded`, `SpendCorrect` (the responses submitted for a stage never exceed its launches plus the crashes),
  `TypeCorrect`.
* `OrchestrationKeepsContract`: every step is a step of `PipelineContract` or a stutter, so both drivers promise the same.

The invariant adds that a stage with a job is one whose dependencies still call for it (`JobsAreDue`), that a response cancelled
upstream is known (`CancelIsKnown`), and that an open stage without a job has paid for no response beyond its
launches and the crashes (`OpenIdlePaid`). The argument: `OutcomesOf` says what `completeStage` makes of each end of a response;
`RecordsStep` that only an open stage gets a record; from it `StaysEligible` and `DueStays`: a stage that was due when
its job began is due when it ends, whatever was recorded between, which is what the refinement needs of every outcome. Without
`JobsAreDue` a stage could complete after its dependency was skipped.

**`ConversationProofs`**, first of stages alone, for every set of them on one signal, every policy and every provider that reports
ids and streams text (`LlmAssumption`):

* `SuffixCorrect`, `SettledCorrect`, `RetriesAreOptedIn`, `TypeCorrect`.

The invariant says of each stage that only its last call may be open, and is while it calls (`AttemptsInOrder`); that every call it went
on from ended for a reason the policy names (`OptedIn`); that each attempt, and the next one, quotes the latest refusal before
it (`SuffixQuotes`, where the next one is what makes it inductive); and why it settled (`SettledSo`). By `StageContract` the run
`llm_stage` connects these theorems with the code's providers on its instance.

Then of conversations, for every set of turns, policies and settings and every bound on the rounds of a tool loop
(`LlmAssumption`, `ProviderAssumption`):

* `ProvidersRefineStage`: every step of a conversation over the code's providers is a step of `LlmStage` or a stutter. With it
  `TurnsSettleHonestly` carries what a stage settles with over to every transport, and `AsksLatestRefusal` says of every request
  sent to the service what it quotes: the stage's latest refusal, or nothing when a turn sends it.
* `EventsTell`, `ChainIsAccepted`.

The invariant joins `IInv` of the stage with where each call is (`CallInv`: an id is reported early only by a call of one round,
and is the id it goes on reading), what its events tell so far (`LogInv`), what a turn found when it began (`TurnInv`) and what the
service was asked to go on from (`ChainInv`). The argument: `CallStepIs` reduces the twenty steps of the five transports to four,
"fails", "resolves", "goes on" and "opens"; each keeps the invariant, and only the first two are steps of the stage. `EndTells` does the same for
events: whatever order a call ends in, what it appends fits the log of an open call. An answer that a turn may go on
from is one a returned turn completed with, which no later step takes back.

**`LibraryProofs`**, first of claims and forks, for every set of claims, contents, arguments, snapshots and bounds. `ClaimAssumption`: the snapshot is one the
library wrote. `ForkAssumption`: what an argument is bound to when it is registered is a version (`Bindable`), and ids are ids.

* Of the claim libraries alone: `GraphTypes`, `FrozenStays`, `StaysSound`, `CheckIsExact` (the cycle check refuses exactly what closes a
  cycle).
* Under forks: `ForkInvariant`, `PinsResolve`, `SoundUnderForks`, `FrozenUnderForks`, `ClonesStandForOriginals`, `ForksShareOnlyAnswered`.

The invariant of the graph is `GraphTypeOK /\ GraphSound`. The argument: `ReachableIsClosed` and `ReachableIsLeast`
characterise the search; `CycleIffReachable` shows that a new connection closes a cycle exactly if its
dependent claim is found from its supporting one; `ClaimsStep` shows that no step drops a version or
changes a type, hence `RefsStayResolved`, hence `SoundStep`. `CheckIsExact` also justifies the shortcut
that waves normal claims through: `NormalIsNotReached`. A fork adds its clones and their connections past every check of the
libraries, so its soundness is a matter of the fork alone: `AcyclicClones` maps a cycle among originals and clones back to one among originals.
`ForkInv` adds that pins resolve and that every record names a claim; without the record part a fork could take the id of a
record for a free one, and the records of clones would no longer be those of this fork.

*Origins*, for every set of ids, texts, inputs and snapshots, damaged ones included; what normalizing
and slicing do to a text plays no part:

* `OriginsStaySound`, `JudgesAsAfresh`, `OriginsStayRepairable`.

The invariant `Sound` says that a text remembered as verified is in order as long as it is its document's (`CacheTrue`), that both
indexes are what they would be built to be (`IndexesTrue`), and that the violations known are the violations there are. The last is
the one that is easy to lose: `ValidationKeepsSound` shows that an accepted call leaves the known list exact because it may only
remove from it. `NoneNewIsTaken` with `AnchorCanGo`, `LinkCanGo` and `DocumentCanGo` gives repairability: removing in this order can bring no new
violation to light.

**`ArgumentProofs`**, first of the argument edited, for every set of premises, variables, claims, expressions and foreign premises (`EngineAssumption`: finite
sets, at least one premise id):

* `EngineInvariant`, `EngineTyped`, `EngineStaysValid`, `EngineIndexAgrees`, `EngineUndoesRebindsOnly`.

`StaysValid` is inductive only with types, with the index in agreement, since the light validation of premise edits reads it, and with the
same of the snapshot a rollback restores (`SavedIsSound`). The argument: most edits only take edges from the graph of bound premises
(`FewerAcyclic`); appending or changing a variable expression adds edges that the light check looks at
(`CheckSuffices`); a fork renames ids one to one (`RenamedAcyclic`). `CommitKeeps` then shows that the final validation can fail only for a rebind,
which is `EngineUndoesRebindsOnly`: as far as references, bindings and the conclusion go, all other roll-backs of the code are
dead. (Those for what is wrong inside a tree are not, see finding 4.)

Then of the argument read, for every argument that is `Loaded`, answers, decisions and limits (`EvaluationAssumption`):

* `EvaluationInvariant`, `ValidNeverRefuted`, `ClosureExact`, `SplittingPreserves`, `RelationsShortest`.
* `DoubleNegation` and `Regrouping`, which need no assumption: AN-2 and AN-4 keep the value of what they rewrite over all four
  values. `Regrouping` holds of `xor` because the code writes it from the components of a
  value; composed from the other connectives it would not (the faulty variant in `Belnap` breaks
  `NormalizeKeepsMeaning`). Each connective gets a lemma that says what its result is told, and two
  values told the same are the same (`SameTold`).

Induction in these proofs is by a least counterexample: a nonempty set of numbers has a least one (`LeastNumber`), a nonempty set of
expressions has one that reads none of the others (`Loaded`). `Recursion` gets from the latter that a recursive definition over the tree is
defined at every expression, which every statement on values of trees rests on.

*A valid argument is never refuted.* Every operator is monotone in the order of information (`OperatorKeeps`), and with it the value of every
expression (`ValuesKeep`). A reader's values, of which none is contested, extend to a row of the table (`RowsCover`,
from `EveryChoiceIsARow`: the bits of a row number make any choice). If the reader were told that premises hold and the
conclusion fails, the row would be told so (`RefutationShows`, `RefutationSpreads`) and the search would have met it.

*The closure is unit propagation.* `ForcedIsUnitForced` compares each rule of the code with what it stands for: c is forced into a child
if and only if some reading of the siblings refutes the operator with the child reading the opposite. For parity this takes counting
(`ParityCounts`, `ParityFlips`). What is forced is monotone (`ForcedKeeps`), so that a visit never leaves a valuation its step
adds nothing to (`VisitStaysBelow`), and one that changes nothing, although it reads values while it writes them, has found its step settled
(`VisitSettles`). Unit propagation by rounds ends after as many rounds as there are components to gain (`PropagationEnds`) with
the least valuation above the seed to which no granted step adds (`UnitPropagationIsLeast`). The invariant `ClosureInv` says that the closure stays
below every such valuation and that what was visited in a sweep without a change is settled; when a sweep ends without one, the
closure is that least valuation.

*The search may be split.* "Every reduction here is answer-preserving" (`satisfiability.ts`). No premise rests on itself, so what each reaches is
defined (`ReachResolves`), and two rows that agree on what a premise reaches give it the same value, which is never contested
(`RowsAgree`, from `ValuesKeep` both ways). Merging premises that share a column, again and again, leaves groups that share none after as
many rounds as there are premises, since a group that is not complete grows (`GroupsGrow`, `GroupsEnd`). The best
choice of columns for each group can then be put together into one (`VerdictsCombine`). `SplitIsFlat` adds the ceiling.

*Relations follow shortest ways.* `Searching` says of the search, with the distance of every premise seen: those in the queue are in the
order of their distances, at most one step apart and no nearer than any premise handled; what was handled leads nowhere unseen; and
the match a queue entry carries is the parity of the turns on some way of that length. One turn keeps this (`HandleKeeps`). A
way to the premise sought leaves what was handled through the queue (`WayOut`), so the first arrival is by a shortest way
(`FoundIsShortest`), and an empty queue means that there is none. Each turn handles one premise more and never the one sought, so the
search ends (`HandlesFew`). That a list in order exists at all rests on premises having distinct ids (`SortedExists`).

**`PremiseTreeProofs`**, for any ids, positions, variables and caps (`PositionAssumption`, `StoreAssumption`, `LoadedAssumption`, `TreeAssumption`) and for loaded trees
that are `Structural`, of any shape and size, and every call the code accepts:

* `AlwaysStructural`, `NormalizeAlwaysTidies`.

The inductive invariant is `Good(breaches, store)`: the store has the shape of one, its tree is `Sound`, nothing is marked dirty and no stored
checksum is stale. What `Sound` asks of the children of a negation and of the number of roots, it asks only as long as the
call of finding 4 that breaks it was not made; the rest, that there is no cycle first of all, holds of a
premise broken in that way too. `Sound` asks of the tree what `Structural` does and what makes it go on: that the way from each expression upwards ends at the
root. Each operation of `ExpressionManager` keeps it, and so does each rewrite of the four rules, whichever match it takes, with every
intermediate store of a series of calls; loops over passes and matches are recursive functions, which keep it by a least
counterexample. Nothing is said of what normalization *changes*: meaning stays with TLC.

*What normalization leaves is tidy.* The driver stops when no rule has a match (`SettledIsTidy`). For most rules of Presentable that is
what they ask for. P-3 looks for a connective from the formula down, AN-3 from its child: what the second finds, with no
formula on the way, the first finds too (`BinaryBelow`), since whatever is above an expression is a chain (`Chain`, `Antisymmetric`).

**`ResponseProofs`**, for every response that is `Loaded`, any versions of its target, snapshots of other arguments and decisions of
callers (`ResponseAssumption`):

* `ResponseInvariant`, `RebaseIsAsListed`, `CarriedValuesAreSaid`, `CheckIsEntailed`.

The invariant says that the response stays `Loaded`: its trees have their parts and no part twice, every leaf has a bound variable, and
no expression is added, so that none has the id of one of the target. A
rebase removes the premises listed with what is dropped, with each the variables bound to it, and with each of these the
expressions that use it, collapsing what is left with one child. The property says that the last two steps find nothing to do beyond what was listed. The
argument: each round of the cascade that adds anything adds a premise, so that after as many rounds as there are premises
what is listed is closed under use (`ListedIsClosed`); each removed variable is then used in removed premises only
(`VariablesGone`, `UsesGoToo`), and deleting it from a premise that does not use it leaves the premise as it was (`NothingLeaves`, by
a least expression that does not stay itself). `StayApart` shows that no two bindings come to name the same referent, for which
version numbers must be unique, and `MovedIsRebased` puts the steps together.

What is carried is right because two readings of an argument agree. The code decides what a link fixes on a combined formula, in which
premises are put in place of the variables bound to them, and evaluates the argument premise by premise. Both are recursive functions;
`Answerable` says that no tree and no premise goes round in a circle, so each has the value its definition gives (by a least
part that does not) and the truth of the combined formula at an expression is the value evaluation gives it, in every world
(`TruthsAre`). That truth depends on the expression's own columns alone (`OwnColumnsDecide`). The code recognizes a cube by counting:
the rows kept all agree on the fixed columns, and if there are as many as there are choices of the others, they
are all such rows. So a world with the fixed values has a kept row. An axiom is not carried, but is fixed to true or the link
is refused. Finally, leaving out what clashes and what comes of it leaves no two values that disagree.

What a check reports is what its premises entail, in four steps. *The formulas are the premises.* A response and its target read as one set
have no circle either (`JoinedWellFormed`), every column is an atom of the world (`WorldHasColumns`), and the truth of a premise's formula
is the value evaluation gives it, the target's values put in for statement bindings (`ResponseValuesAre`); so the readings of the world are
the rows with the forced columns true (`ReadingsAreRows`). *The search is right.* The groups are the smallest sets of formulas closed under
sharing a column (`GroupsAre`: each round keeps them within every closed set and makes those that are not closed grow), so that rows
of different groups can be put together (`SearchYes`, `SearchNo`). If all groups of the premises can be walked, so can those of any
fewer and of a denial of one (`FewerAreWalked`); hence a coherent response is one about which every question the check asks is decided
(`CoherentIsDecided`), although the code asks each of them anew. *What is taken out one by one.* The set kept only shrinks, and a premise
left at the end could not be taken from the larger set there was at its turn (`MinimiseIs`); entailment being monotone, it cannot
be taken from what is left. *Links.* Equal keys of two links are equal keys of their leaves (`GroupIs`), and what is grounded is
what the premises that are not links and the asserted links entail (`GroundIs`).

**`PersistenceProofs`**, for all finite sets of ids, any sound arguments to start from and any number of calls between commits
(`PersistenceAssumption`: the ids of different kinds differ, what a run starts from is `sound`):

* `ChangesTellTheDifference`, `StoreAcceptsAlways`, `StoreCatchesUpAlways`, `DiffTellsAllAlways`.

The inductive invariant, `PersistenceInvariant`, says that the rows are sound at the last commit and now; that the pending changes are
exactly the difference between the two (`Tells`: an entry for every row that differs, in the bucket that
fits, with the row as it is now, or as it was when removed); that the removed expressions form a forest (`RemovedForest`); and that the
statements still to run bring the store to what was committed, each accepted on the way (`Brings`). The argument has three parts.

*What a call records.* Each step of a draft keeps its rows sound, up to what the same call repairs, and its changes telling. `ComposedTell` does
the same for composing: if the first change set tells the difference from a to b and the second from b to c, the composed one tells that from a to c, which takes a case for
each pair of buckets. An id that is removed and used again for another row is where a plausible bucket rule loses something.

*What the order brings.* `orderChangeset` is cut into its phases, and a predicate on the store between two phases says which rows are as
they were, detached or as they will be. For each phase a lemma shows that its statements, in any order of the map, lead from
one predicate to the next and that each leaves no reference dangling; deletes of expressions go by children first, which is possible by
`RemovedForest`. Late updates and held deletes give two ways through the last phases. `OrderBrings` chains them. It is here that an update
must wait if it names a new premise as well as if it names a new variable.

*What the diff tells.* Between two sound states a premise reads the same exactly when no expression of it is added, removed or modified
and none reads a modified variable.

**Only model-checked.** Liveness (`Terminates`, `Concludes`, the liveness in `StageContract`): the proof system does not
handle fairness and ENABLED here. `KeepsOrder`, `NormalizeKeepsMeaning` and what is
checked of derivations: nothing keeps the provers from it, but each rests on what a recursive function over trees or a fold over sets
computes, which takes an induction by least counterexample like those for `Evaluation` and `Response`, one per function.
`UnchangedMeansSame` is no theorem: the
comparison of two versions does not tell a variable bound to one empty premise from a variable bound to another, so it stays
a property of the scenarios.

## 6. What is not modelled

* Events and token totals of the scheduler, prompts and clamping of the LLM stage: data that no
  control decision reads. The observer is assumed not to throw.
* The sub-pipeline stage: it adds to the scheduler only how a nested result is mapped, see section 4.
* The retrieval helpers and `submitBackgroundResponse` of the OpenAI extension, beyond what `DurablePipeline` uses of them.
* Checksum text and hashing. Which checksums are computed again is modelled in `ExpressionManager`.
* In `Grammar`, the rules no call of the engine can break, which only data loaded from elsewhere does (S-2, S-3, S-6, S-10, S-11, E-3), those
  of responses (S-15, E-8 to E-10) and enthymemes (P-6), and those that report nothing (S-7, E-4); `removeUnresolvableVariables`.
* Public helpers nothing in the library calls, `mergeChangesets` among them; custom comparers of the diff; review helpers that render reports.
* Fork records of premises, expressions and variables, which are written like those of claims; reactive snapshots; extras.
* Text: parsing, ingestion, prompts, builder, citation formatting, structured output. These are functions of their
  input with no state that a later call reads.
* The command line: one process, one command, files.

## 7. What is left

1. A run for the symbols of a store, once the order of renames is settled.
2. The trees of several premises under one engine together with its index: an id used in two premises.
3. Conversation and durable driver together: a turn whose response is retrieved by another process.
