# ProspectEngine in TLA+

ProspectEngine evaluates *prospective scenarios*: an engine is asked for a
baseline and then for the outcome of every intervention of a batch; the outcomes
are scored, compared, decided upon and turned into evidence that others read.
Two things must never go wrong.  The story told about the calls: which
candidates the engine saw, what it returned, whether the batch may be ranked.
And the readings: a document that a reader accepts is one that the producer can
have written, and what it decides is decided again.  Besides, the repository
holds exact solvers and decision models whose shortcuts must not change their
answers.

The first story is kept by a cooperative evaluator (in memory), by an execution
journal (in a file, across failures and crashes) and by a restart path (across
processes).  The readings are kept by some fifteen readers of records, evidence,
catalogs, KV and FLAT documents.  All of these, and the solvers, are modelled and
checked here; the evaluator, the decision set, publication, elastic
transactions, the journal of a process with its inspectors, and the chain of a
run and its continuation are also proved correct.

Paths below are relative to `src/crates/`:

| short | path |
|---|---|
| `controlled.rs` | `prospect-scenario/src/controlled.rs` |
| `journal.rs` | `prospect-dispatch/src/execution/record/journal.rs` |
| `evaluation.rs` | `prospect-dispatch/src/execution/record/journal/evaluation.rs` |
| `recovery.rs` | `prospect-dispatch/src/execution/record/journal/recovery.rs` |
| `continuation.rs` | `prospect-dispatch/src/execution/record/journal/recovery/continuation.rs` |
| `assembly.rs` | `prospect-dispatch/src/execution/record/journal/recovery/continuation/assembly.rs` |
| `execution_journal.rs` | `prospect-cli/src/execution_journal.rs` |

## 1. Inventory

| Component | State it keeps | Operations | Talks to | What is hard |
|---|---|---|---|---|
| Controlled evaluation (`controlled.rs`) | a report (baseline, outcomes, pending iterator, status); a shared cancellation flag; a deadline | admit, checkpoint (clock, then token, then quota), call the baseline, call a candidate, progress and terminal callbacks | an engine, callbacks, other threads that hold the token, the monotonic clock | cancellation and deadline race every step; failure must win over a pending cancellation; no candidate may be lost between the iterator, the outcomes and the status |
| Journal format, emitter, inspector (`journal.rs`) | emitter: sequence number, previous digest, byte count. inspector: a lifecycle | append an entry; read a log line by line into a summary | a `JournalSink`; anyone with a file | writer and reader implement one grammar twice; a log may be cut anywhere |
| Journaled evaluation (`evaluation.rs`) | session: the first journal error, the next candidate; the evaluator's report | header, intent before each call, result after it, terminal entry; what the caller is handed | evaluator, engine, codecs, emitter | an append may fail at any line, a codec may refuse a value already computed, the process may die anywhere |
| File journal (`execution_journal.rs`) | open file, poison latch, byte count | `create_new`; `append_record` = write, then `sync_all` | the file system | a line can be in the file although its append failed; a torn last line |
| Restart preflight (`recovery.rs`) | none | compare a captured log with retained anchors; list the blockers | inspector | a stale or foreign log; a blocker too many strands a run, one too few repeats a call |
| Typed continuation (`continuation.rs`) | plan (restored outcomes, remaining suffix); child session; child report | prepare; execute the child; inspect a child journal | inspector, evaluator, engine, codecs, emitter | outcomes are rebuilt from a dead process's file; the child has a lifecycle of its own |
| Assembly (`assembly.rs`) | none | rebuild one batch from the parent's and the child's files | both inspectors | four derivations of the same facts must agree |
| Execution records (`execution/record.rs`) | none | capture from a report, verify against a bundle | evaluator's report | a third statement of the lifecycle; overlong payloads |
| Plain batches, scoring, `best_by_policy` (`prospect-scenario/src/lib.rs`) | none | fold with first-error semantics, tie rule | engines, metrics, policies | repeated ids are not rejected here |
| Decision sets (`prospect-scenario/src/decision.rs`) | the alternatives assessed so far, the schema | constraints, Pareto front, witnesses, lexicographic choice | batches, an assessing callback | mixed directions, ties, a schema founded by the first admissible vector |
| Multi-trace (`prospect-scenario/src/multi_trace.rs`) | none | align batches over traces, score each trace | batches | the same candidates, in the same order, on every trace |
| Evidence (`prospect-evidence`) | none | capture; read; recompute the decision | decision sets, batches, matrices | the reader decides again in code of its own |
| Adapters, registries, catalogs (`prospect-adapter`, `prospect-registry`, `prospect-dispatch/src/catalog.rs`) | registration maps | register, look up, export, read, preflight | dispatch | a catalog is older than the host that executes, and may have been altered |
| Scenario bundles (`prospect-bundle`) | sorted distinct scenarios | construct, read | dispatch, journal, records | strict canonical JSON |
| Dispatch (`prospect-dispatch/src/lib.rs`, `execution.rs`, `execution/controlled.rs`) | none | resolve requirements to an adapter; execute | registries, evaluator | preflight and resolution are separate code |
| Publication and preflight commands (`prospect-cli`) | a temporary file and a destination | write, sync, hard-link, remove; check a bundle against a catalog file | file system, other publishers | a crash between link and removal; a process id used again |
| KV campaign suite and read budget (`prospect-cli/src/kv_campaign_suite.rs`, `input.rs`, `prospect-kv-position-campaign`) | a read budget | verify a directory of campaigns against pinned digests | file system, an exporter writing meanwhile | files read one by one, some twice; files longer than their metadata say |
| Campaign specification (`prospect-cli/src/kv_campaign_spec.rs`) | none | validate what a campaign will run | the verifier of its results | two readers of one specification |
| KV hand-offs, effect, heuristics (`prospect-kv`, `prospect-kv-selection`, `prospect-kv-position`) | none | read and replay a partition, its bytes and its effect | KVLab's exports | three formats of one thing; byte products at the word limit; tolerances |
| Observed KV records (`prospect-kv-observed`, `-selection-observed`, `-position-observed`) | none | read, compare | hand-offs | closeness is not transitive; an infinite difference of finite values |
| FLAT routers and executed evidence (`prospect-flat`) | none | read routers, runs, measurements and sweeps | KVLab's exports, `flat_attention` | a last page that is partly filled; medians, gates and ratios that must agree |
| Elastic probes, comparison, gate, evidence (`prospect-elastic`) | none between calls: the caller holds set, comparison, plan and outcome | build a probe set, compare with the no-op, rebind at action time, capture | a prospective model, a policy, an external runtime | the set, the plan and the policy may have changed when they are presented again |
| Exact solvers and propagators (`prospect-commercial-advanced`: `solver.rs`, `integer_solver.rs`, `constraint_propagation.rs`, `cp_*.rs`) | a search stack or domains, an incumbent, a node budget | enter a node, bound, propagate, backtrack | - | a bound that equals the incumbent; values removed in place while others are revised; a budget that ends anywhere |
| Integer decision models (`prospect-commercial`, `prospect-commercial-advanced`) | none | thirty-odd decisions by shortcut | - | ties, truncation toward zero, tails cut within an outcome |
| Causal identification and learning (`causal*.rs`, `learning.rs`) | none | adjustment sets, front doors, instruments; integer estimators | - | path criteria computed by graph surgery |
| Core vocabulary, elastic bridge, f64 models, TDI adapter, scripts and CI | none | types, conversions, numerics | - | section 9 |

### What makes each component correct

* **Controlled evaluation.**  The successes, the failed or in-flight candidate
  and the pending ones are always the input in its order; the report pairs
  every outcome with what the engine returned; the quota bounds the calls; a
  request to stop costs at most one call, and none when it comes from a
  callback; failures are never masked; a rankable batch is complete.
* **Journaled evaluation.**  No call without an acknowledged intent; nothing
  happens after a journal failure; the file left by any failure or crash is one
  the inspector accepts, and its summary is the truth about the engine.
* **Inspectors and record reader.**  They accept exactly what an evaluation, or
  the child of the given parent, can leave behind.
* **Restart, continuation, assembly.**  Over both processes the engine sees
  each call at most once and in order, and at most one batch is released, made
  of the engine's own values; an interrupted run can be continued; a completed
  child can be assembled.
* **Host.**  What passes a preflight resolves later; what is executed is what
  the bundle asks for; a published record is whole, whoever crashed.
* **Decisions and evidence.**  Only comparable vectors are compared; the
  selection is the earliest of the best and is on the front; whatever is off the
  front is improved by something on it, and the witnesses say by what; evidence
  that is accepted records a decision, whoever wrote it.
* **Elastic transactions.**  A probe is chosen only if it improves on the no-op;
  the runtime only gets a plan that is the intent of the chosen probe; evidence
  says what was done.
* **KV and FLAT documents.**  A reader accepts what an exporter can have written
  and nothing else; derived quantities are what follows from the rest; what is
  compared was measured in one setting.
* **Campaign suite.**  An accepted suite is the preregistered one, whatever is
  written to its directory meanwhile, and reading it costs what the budget says.
* **Solvers and decision models.**  No search drops the part of the space in
  which the answer lies; the answer is what trying everything gives.

## 2. The modules

```
BatchContract            EngineLedger                   abstract specifications
     ^ implements             ^ implements
ControlledEvaluation     RestartChain --------------------+
     ^ INSTANCE               | INSTANCE                  | EXTENDS
     +-- JournaledRun <-------+--- JournaledProcesses --->|
     +-- ContinuationRun <----+    (INSTANCE of both)     v
              |   |                                  Continuation
              |   +-- JournalEmitter (INSTANCE)           | EXTENDS
              +-------------------------------> JournalLifecycle

Checks <- Contracts <- BoundExecution     -> RecordPublication
                    <- MCControlledEvaluation -> ControlledEvaluation
                    <- JournalGrammar     -> Continuation
                    <- Evidence           -> DecisionSet
Checks <- KvHandoffs <- KvObserved <- FlatDocuments <- KvDocuments
                                   <- CampaignSuite
Checks <- BranchAndBound, FiniteDomains, Propagators, RiskDecisions,
          OperationsDecisions, CausalLearning   (all INSTANCEd by MCSolvers)

MCControlledEvaluation <- ControlledEvaluationProofs
DecisionSet            <- DecisionSetProofs
BoundExecution         <- BoundExecutionProofs
CampaignSuite          <- CampaignProofs
ElasticCommit          <- ElasticProofs
JournaledProcesses     <- JournaledProcessesProofs
RestartChain           <- RestartSteps <- RestartProofs
                               | INSTANCE (once for each process)
                               v
                          JournaledProcessesProofs
```

(`A <- B` reads: B EXTENDS A.)  `ElasticCommit` stands alone: it starts from the
input of a probe set.

| Module | Models | State and actions in terms of the code |
|---|---|---|
| `BatchContract` | what a controlled evaluation promises, whichever engine runs it | calls issued and answered, and a verdict; no clock, token, callback or value |
| `ControlledEvaluation` | `evaluate_with_clock`, `EvaluationControl`, `CancellationToken` | `pc` is the position in the loop.  `ReadClock` and `Checkpoint` are the two halves of the checkpoint (`now()` is an argument of `interruption_at`, so the clock is read before the token).  `CallBaseline`, `CallScenario`, `ReturnBaseline`, `ReturnScenario`, `Fail` are the two ends of an engine call, `Progress` and `Finish` the callbacks.  `Cancel` and `PassDeadline` are other threads and the clock, enabled between any two steps.  `called` and `notices` are histories read by properties only. |
| `JournalLifecycle` | entries, the digest chain, codecs, `inspect_execution_journal`, `Lifecycle::accept` | `ReadLine` folds over the lines; `Inspect` is the summary, or `NoValue` for an error |
| `JournalEmitter` | `Session::emit`, `Emitter::append`, `FileJournal::append_record` | one append: refused after an earlier failure, over a limit, failed write (with or without a torn tail), written and not yet synchronized (`wpc = "sync"`), synchronized, failed synchronization.  `Lost` is what a crash leaves. |
| `JournaledRun` | `evaluate_registered_bundle_journaled`, `RecordingEngine`, `Session`, `invoke`, `JournalRun` | `ControlledEvaluation`'s own actions plus the wrapper's position `wpc`; the evaluator's engine call becomes intent, append, real call, codec, append, answer.  `engine` is the history of the real engine. |
| `Continuation` | preflight, prepare, the child inspector, assembly | pure functions of files and retained expectations |
| `ContinuationRun` | `execute_typed_continuation`, `ContinuationEngine`, `ChildSession`, `ContinuationRun` | as `JournaledRun`, over the remaining suffix; the baseline is answered from the plan and not journaled |
| `JournaledProcesses` | one journaling process, a run or a child | the two modules above under one next-state relation and one fairness |
| `EngineLedger` | what a run and its continuation promise together | the engine's calls, and the batch released |
| `RestartChain` | parent process, capture, prepare, child process, assembly | one set of process-memory variables used by the parent and then, reset, by the child; the two files and the engine's history outlive both |
| `JournalGrammar` | the two inspectors against the language of honest logs, and the record reader against both | a log grows by any correctly chained event until it is refused |
| `Checks` | the order of a reader's checks, what a text can be apart from its fields; bounds of linear constraints, and `KeepBest`: the loops that keep the best of a list | a document is a record; its field `form` says whether its text is canonical |
| `Contracts` | ids, versions, upstreams, capabilities, the three registries, requirements; batches and scoring; `capture_record`, `verify_against_bundle` | pure functions with their errors; the reader of a record rebuilds the lifecycle |
| `MCControlledEvaluation` | besides its instance: the controlled evaluation of a bundle, recorded | `ControlledEvaluation`'s specification; the record is a function of its report |
| `BoundExecution` | `ScenarioBundle`, `DispatchCatalog`, preflight, `resolve`, `execute_registered_bundle` and its controlled form | `RegisterAdapter/Metric/Policy`, `Export`, `Alter` (a catalog in transit), `Refuse`, `Execute`, `Evaluate`, `HandOver` to publication |
| `RecordPublication` | `publish_execution_record` | per publisher `Begin`, `Open`, `WriteAll`, `SyncAll`, `Link`, `Drop` and their failures; `Crash` kills a process, whose id may be used again |
| `DecisionSet` | `assess_decision_set`, `validate_objectives`, `lexicographic_best`, `pareto_front`, `pareto_dominance_witnesses` | `Admit` is the duplicate scan; `Reject`, `Accept`, `Refuse` are `push_assessment` for each answer of the callback; `Look` is one turn of the selection's loop |
| `Evidence` | batches, scores, multi-trace matrices, and the capture, reading and recomputation of decision, score, matrix and constrained evidence | `DecisionSet`'s actions, then `CaptureScores`, `CaptureMatrix`, `CaptureDecision`, `Alter` |
| `ElasticCommit` | `ElasticProbeSetV1::new`, `compare_before_commit` with `evaluate_batch` and `best_by_policy`, `execute_selected_probe`, `capture_elastic_execution_evidence` | `Build`, `EvaluateBaseline`/`Evaluate`, `Compare`, then `Refuse`, `KeepNoOp` or `EnterRuntime` with any probe set and any plan, `Cycle` or `RuntimeFails` for the external runtime, `Capture` with any policy |
| `KvHandoffs` | the readers of the three hand-offs, `prospect-kv`'s simulated effect and its comparison of heuristics | every check in its order, replays included |
| `KvObserved` | the readers and comparisons of the three kinds of observed record, the campaign specification and its verified pack | as above |
| `FlatDocuments` | the router hand-off, routing evidence, executed evidence, sweeps | as above |
| `KvDocuments` | documents on their way to these readers | `Edit` replaces a field of an exported document, `Hold` keeps an accepted one for a comparison |
| `CampaignSuite` | `verify_kv_campaign_suite` and the read budget | one action per read, in the code's order; `Rewrite` is an exporter replacing one file |
| `BranchAndBound`, `FiniteDomains`, `Propagators` | `solver.rs`, `integer_solver.rs`, `constraint_propagation.rs`, `cp_*.rs` | one step per node or per revision; the call stack is a sequence of nodes |
| `RiskDecisions`, `OperationsDecisions`, `CausalLearning` | the integer decision models | `Answers` is what the code returns, `Justified` what its user relies on, stated without the code's shortcut |
| `MCSolvers` | all of these, one at a time, besides its instance | a search's own steps, or `Refuse`/`Decide` |
| `MC*` | TLC instances | constants only, and the symmetry and view of `RestartChain` |
| `*Proofs` | theorems | section 6 |

In the modules, operators commented *Fault:* are not part of any specification:
each is a plausible bug of the definition it stands beside, used to show that
the properties are able to fail.

## 3. Abstractions and assumptions

* Interventions, states, signatures, errors and payloads are values of small
  sets; the quota, the counts and the sequence numbers are naturals.
* SHA-256, FNV and canonical JSON are injective: a digest is its content.
  Because an entry's own `previous` was compared when it was accepted, `Digest`
  keeps one link.  A journal line that is not a canonical entry is `Malformed`;
  a document's text is one of four forms (canonical, the same values written
  otherwise, another shape, another schema).
* Byte limits of the journal are not counted: *any* append and *any* payload may
  be the one that does not fit (`EmitOverLimit`, `CodecFails`).  The entry-count
  limit is counted exactly (`MaxEntries`, `MaxContinuationEntries`), and so is
  the read budget of a suite.
* A codec either refuses or is injective, and decoding inverts encoding.
* The file system keeps a written line whole, in part or not at all when the
  process dies before `sync_all` returned, and whole when it did return.  A hard
  link is atomic and never replaces anything.
* Panics and kills are one thing: the process stops between two steps.
* The log a controller captures is that of a process that has stopped, and it
  starts at most one child per parent.  Both are obligations the documentation
  puts on the controller; nothing in the code enforces them, and no property
  here says otherwise.  Copies taken earlier, a foreign build and a wrong run
  id *are* presented to the code, which must refuse them.
* Engines return.  Nothing is assumed of what they return.
* The word in which byte products are checked is `MaxWord`; an `f64` of the KV
  documents is an integer of at most `MaxFloat`.  A sum, difference or square
  past it is `Infinite`, sums are taken in the order of the code, and whatever is
  computed from `Infinite` is `Infinite`: the model overflows where the code
  does, also in a partial sum.  One value stands for both infinities and for the
  not-a-number two of them leave, which only the reader of a single effect can
  meet and refuses alike.  Distances are kept squared; tolerances are absolute,
  where the code scales them by magnitude, but infinite where a computed number
  is (`Near`), which is what that scaling comes to.  FLAT ratios are compared as
  products, gates as integers.
* The fingerprint of a record is its text: two records of one fingerprint are one
  record.  Signatures are compared whole, fingerprint and policy included; so a
  comparison's baseline, which carries the fingerprint of its *first* record, is
  not the same in every order of the records, and `OrderIsIrrelevant` claims that
  of everything else in it.  The campaign suite compares baselines without
  policy and fingerprint (`BaselineIdentity`).
* Probabilities and rates are integers out of `Scale` (a million in the code);
  divisions truncate as `i128` division does.  The sums of a run are far below
  128 bits, so the code's `ArithmeticOverflow` errors never arise.
* Crowding distances (`RiskDecisions`) are exact fractions over the product of
  the ranges.

## 4. Runs

| Run | Question | Instance, and why it is enough |
|---|---|---|
| `controlled_evaluation` | What may the report say, and the record made of it, under every interleaving of cancellation, deadline, quota and engine error; does the evaluator implement `BatchContract`; does every evaluation end? | Batches of 0 to 3 candidates with and without repetitions (adjacent, not adjacent), quotas 0 to 4 (zero, below, equal, above), two signatures so that a mispairing shows, one error.  20,964 states.  The theorems of section 6 remove the bound for safety. |
| `journal_grammar` | Is what the inspectors accept exactly the set of prefixes of honest runs, and of honest children of three parents; does the record reader judge the same evaluations alike? | Three candidates (a first, a middle and a last one), quotas 0 to 4, deadline or none; every log of correctly chained events up to its first refusal; parents with three, two or one candidate left.  16,973 states. |
| `journaled_processes` | Do file, engine and report agree whatever fails, in a run and in a child, and is the report always handed back? | A bundle of three candidates; quotas 0, 1, 3; a failure of any kind at any append, a crash at any step; children of parents that stopped after the baseline or after one success; two builds, so that admission is exercised.  286,290 states. |
| `restart_chain` | Over both processes: each call once, in order; one batch; no dead ends | Two candidates, quotas 1 and 2 (an interrupted and a completing run), two signatures, two builds; parent and child fail or die anywhere; 615,628 states up to symmetry.  The shortest bundle for which the parent can stop before, between and after candidates and the child still has one of its own. |
| `restored_only_acknowledged` | The documented claim that only acknowledged payloads are restored | Violated: section 7. |
| `decision_evidence` | Are selection, front and witnesses right whatever the callback answers; does evidence of a decision, of scores, of a matrix, altered or not, say what was decided? | No to three scenarios, with and without repeated ids; two objectives of opposite directions with three and two values, so that ties, trade-offs and chains of dominance occur; every structural defect of a vector; two traces; one change of a text, of every kind a reader checks.  60,835 states.  The theorems of section 6 remove the bounds of the decision. |
| `elastic_commit` | Can what is presented later lead to an act or a record that was not decided? | Sets of no to two probes, listed in either order, with a repeated id, with the no-op's id, or re-probed with another plan or rollback; plans with each defect; three utilities under three policies; every combination of a cycle's records; 114,992 states.  Two probes and the no-op are the fewest for which ties between probes, and of both with the no-op, differ. |
| `kv_documents` | Which KV and FLAT documents do the readers accept, and what may then be compared? | Caches of up to three tokens, bytes per token 0, 1, 3 and a word of 8, so that a part fits and the whole does not; routers of two bits and up to three pages; a measured cache whose last page holds one token; caches whose loss, norms, output or one partial sum pass the largest number; any two fields replaced, so that a consistent lie is told, not only a single wrong field; up to three records held, the fewest for which pairwise differs from *with the first*.  690,342 states. |
| `kv_delta` | The error message's claim that a stated delta is the difference | Violated: section 7. |
| `campaign_suite` | What does an accepted suite still guarantee, and what did reading it cost? | Two campaigns of two policies; three exports, one with another candidate and one with another baseline, four rewrites between and from nothing; every damage of one file (absent, a link, too large, larger than it says, another form).  Files of one unit, a limit of two per file, totals of 16 and 17: one unit below what an intact suite takes, and exactly that.  167,848 states. |
| `bound_execution` | What does a preflight promise, what is executed, what is published? | Two versions of one adapter and another adapter, one that promises nothing; two metrics and two policies of one id; bundles with every requirement and defect; a catalog altered once; two publishers, two process ids (one used again), one crash.  104,920 states. |
| `solvers` | Do searches that prune and propagate, and models that take shortcuts, answer what trying everything, or the definition path by path, would? | Problems of two to four variables, solved exhaustively by the property; budgets that end in the middle; one of every refusal; probabilities out of 4; every graph on four variables whose arcs go up and three on five (the smallest with a collider below two paths).  17,434 states. |

`RestartChain` is checked with a symmetry and a view.  The two signatures are
opaque to the program and to the properties, so permuting them is sound.  The
view keeps every variable except the *contents* of the evaluator's histories
`called` and `notices`: the actions read only `Len(called)`, which the view
keeps, and no property of this run reads either, so two states with one view
have the same successors up to the view and satisfy the same properties.

Deadlock is checked wherever a process runs to its end: a state in which the
program has returned, or a log has been refused, stutters by an action of its
own.  It is not checked in `kv_documents`, `kv_delta`, `campaign_suite`,
`bound_execution` and `solvers`: a reader that has read its document, a verifier
with its verdict, publishers with no attempt left and a solver with its answer
stop, and there is nobody they could keep waiting.

**Fairness.**  `controlled_evaluation` assumes weak fairness of `Evaluator` and
`journaled_processes` of `~crashed /\ Step`: one thread, which its caller waits
for, executes these steps, and engine calls, codecs and file operations return.
Cancelling, passing the deadline and crashing are never fair: nobody has to.
`Termination` says that the evaluation then ends, which fails as soon as one
path of the loop re-enters it without progress.

## 5. What the properties say

*Evaluator* - `ReportIsFaithful` (every candidate is accounted for, every
outcome paired with what the engine returned, the quota respected);
`StopsAreObeyed` (a request not seen by a checkpoint costs at most the call that
checkpoint admitted, one made in a callback costs none, and the reason reported
was there, by the precedence of the controls); `RankableIsComplete`;
`ReportIsTold` (the callbacks and the record say what the report says);
`FailureNotMasked`; `ImplementsContract`; `Termination`.

*Journal* - `AcceptsExactlyRuns`, `RecordsAgreeWithJournals`; `WriteAhead`,
`NothingAfterJournalFailure`, `InspectionIsTrue`, `ReportAgrees` (counts,
suffix, released batch and entry limit included), `Termination`.  In
`JournaledProcesses` each of them is the property of the run or of the child,
which are separate code.

*Restart* - `PlanIsTrue`, `ChainGoesOn` (an interrupted run can be continued, a
completed child assembled), `ImplementsLedger`.

*Decisions and evidence* - `Comparable`, `SelectionIsEarliestBest`,
`FrontIsExplained` speak of an objective's *worth* (its value, negated when it
is minimized) and never use the code's comparisons.  `DecisionIsRecomputed` says
that any accepted evidence *is* a decision set's in these three senses, whoever
wrote it, and that what was captured is accepted.  `TracesAreAligned` and
`ScoresAreAccountedFor` do the same for matrices and scores.  A reader that does
not sort a list of sources or candidates would refuse what another writer lists
in another order: acceptance is compared up to that order.

*Host* - `PreflightPredicts`: what passes against any earlier export resolves
now, and preflight and resolution give the same verdict on one catalog.
`ExecutionIsBound`: the engine, metric and policy are those asked for, the
scenarios in the order of their ids; the record is accepted with this bundle and
with no other.  `PublishedIsWhole`: a destination holds a whole record or a
stranger's file; who was told *ok* finds its own.

*Elastic* - `ChoiceBeatsNoOp`, `ActsAsSelected`, `EvidenceIsTrue`.  A probe set
that binds the chosen id and rollback to another plan passes the gate: the
comparison keeps no plan intent.  `ActsAsSelected` therefore claims the
prospective improvement only of a set that equals the compared one.

*KV and FLAT* - `HandoffsAreReplayed`: acceptance is equivalent to being the
export of some cache and some kept set, and the formats agree.
`EffectsAreRecomputed`: an accepted effect is the weight of what was evicted, an
accepted comparison names the policy that loses least, and an executed router's
page, token and kept-token counts are those of some set of pages, its decision
that of its gates and medians.  `SpecAndPackAgree`: the command that validates a
campaign and the reader that verifies its results agree.  `ComparisonIsFair`:
records accepted for one comparison are comparable pairwise.

*Campaign suite* - `AcceptedSuiteIsPreregistered`, `VerdictIsRight`,
`BudgetBoundsReading`, and `BaselineIsShared`, which holds only as long as no
file is replaced after it has been read: the baseline a suite names comes from
the second reading of the records, the metrics it reports from the first.

*Solvers* - `NothingIsLost` speaks of every intermediate state: the optimum is
the incumbent or below a node still on the stack, no solution was ever removed
from a domain.  `AnswersAreExact` compares the final answer with exhaustive
search.  `DecisionsAreBest` compares each decision with its definition: every
alternative tried, every path of the graph looked at, every outcome summed.

Every property of a passing run is accompanied in `PROJECT.json` by a mutant of
the code's model that violates it.

## 6. What is proved

`ControlledEvaluationProofs` proves, for every batch, quota, set of signatures
and errors, and every interleaving:

| Theorem | States |
|---|---|
| `TypeCorrect` | `Spec => []TypeOK` |
| `Invariance` | `Spec => []Inv`, the inductive invariant |
| `NothingIsLost`, `ReportIsTrue`, `QuotaHolds` | the three parts of `ReportIsFaithful` |
| `ReportIsAlwaysFaithful` | `ReportIsFaithful` |
| `StopIsHonoured`, `CallbackIsObeyed`, `InterruptionIsJustified` | the three parts of `StopsAreObeyed` |
| `StopsAreAlwaysObeyed` | `StopsAreObeyed` |
| `RankableBatchIsComplete` | `RankableIsComplete` |
| `FailureIsFinal` | `FailureNotMasked` (an action property) |
| `Refinement` | the evaluator implements `BatchContract` |
| `ReportIsAlwaysTold` | `ReportIsTold`: the callbacks and the reader of the record tell the same report |

They use the assumptions of `ControlledEvaluation`: batches are sequences of
ids, quotas are naturals, the baseline is not an id, an `Ok` is not an `Err`,
and `NoValue` is none of these; `ReportIsAlwaysTold` also that `NoValue` is no
batch (`BatchAssumption`).  TLC evaluates them in every run of the module.

None of the properties is inductive by itself: whether the candidates are
accounted for after a return depends on which one is in flight, which depends on
how many were taken, which depends on how many calls were answered.  `Inv` says
these things: *Shape* relates the control point, the report, the iterator and
the length of the call history; *Admitted* that a batch with repetitions gets no
call; *Ordered* and *Awaiting* that the calls, with their results, and the
outcomes are the input's prefix; *Quota* that the quota admitted what was taken;
*Requests* that only the last call can have begun after a request to stop, and
that the next checkpoint is bound to see it; *Justified* and *Notified* what
the checkpoint had seen when it gave its reason.  Each conjunct is shown
preserved by a lemma with one step per action; the safety theorems then follow
from `Inv` alone, and `Refinement` from `Inv` and the step relation.

`ReportIsAlwaysTold` composes the evaluator with other code: the capture of a
record and its reader, which knows a bundle and a record and nothing of the
evaluation.  `Told` adds to `Inv` that a verdict has its ground (*Verdict*: who
says *duplicate* has one, who says *failed* was answered with an error) and that
the notices are those of the calls.  At the end of an evaluation the checks of
the reader are taken one by one, in its order, each shown not to fire
(`RecordIsAccepted`): ids and interventions of the record are those of the
bundle because the outcomes are a prefix of the input, the suffix the reader
works out is the one the evaluator did not take, and the terminal entry is one
of the states the reader would itself arrive at.  The counts then agree because
the outcomes, the failed call and the pending candidates are the input.

`DecisionSetProofs` proves, for every batch, every set of objective vectors over
the integers (any length, ids and directions), every reason for rejection and
every answer of the callback:

| Theorem | States |
|---|---|
| `TypeCorrect` | `Spec => []TypeOK` |
| `Invariant` | `Spec => []IInv`, the inductive invariant |
| `AlwaysComparable` | `Comparable` |
| `EarliestBestSelected` | `SelectionIsEarliestBest` |
| `FrontAlwaysCovers`, `WitnessesAlwaysExplain` | the two parts of `FrontIsExplained` |
| `FrontAlwaysExplained` | `FrontIsExplained` |

The assumptions are that vectors are sequences of objectives, that batches are
sequences, and that `None` is no reason, error, vector or schema.  Of these
properties only `TypeOK` is inductive.  `IInv` adds *OneSchema*: every
admissible vector was validated and has the established schema (which is why a
comparison can look at the left vector's directions only); *Phases*: the
selection starts from nothing; and *BestSoFar*, the loop invariant: nobody
looked at so far beats the best, and it beats everybody before it.  That a turn
of the loop keeps *BestSoFar* rests on the order being lexicographic
(`LexTotal`, `LexAsymmetric`, `LexAbove`) and on `compare_vectors` computing that
order (`CompareIsLex`).  For the front, improvement implies beating
(`ImprovesBeats`), and a set of alternatives always has a member nobody in it
beats (`SomeBest`, by the least prefix that would have none): the best of those
that improve an alternative is on the front, so the front covers it.

`BoundExecutionProofs` proves, for every registry, bundle text, policy, engine and
altered catalog:

| Theorem | States |
|---|---|
| `PreflightAlwaysPredicts` | `PreflightPredicts`: what a preflight against a catalog says is what the host will say |
| `ExecutionIsAlwaysBound` | `ExecutionIsBound`: what is executed, scored, selected and recorded is what the bundle asks for |
| `PublishedIsAlwaysWhole` | `PublishedIsWhole` |

`HostAssumption` says what the types of the code say: offered metadata has the
fields of `AdapterMetadata` and an id; metrics and policies are offered with ids
and versions that were checked when they were made; scenarios, metric and policy
of a bundle are a list and two options; scores of policies and limits are
numbers.  Of bundle texts nothing else is assumed: any may be malformed, out of
order or name a thing twice.

The code sorts wherever it makes a list.  `ById` is a rank (the position of an
entry is the number of smaller ids), and `Sorting` shows that ranks number the
entries of a list that names each id once, in the order of the ids; so two lists
of the same entries have the same sorted form, and sorting one in order changes
nothing.  `HostInv` is then small: each registry holds what was offered and names
each id once (`RegistriesOk`), and an exported catalog that nobody altered is
*Truthful*: what it says of an id is what the registries say of it.
Registration only adds (`LookupStays`), so a truthful catalog stays truthful,
and what it finds is still found after more was registered (`TruthfulPredicts`);
that it finds the *same* thing is what the order of the sorted entries and
`OnceEach` give.

For an execution the facts are followed through one step.  A resolution that
succeeded has found an engine that `Fits`: id, kept version, upstream
(`ResolvedFits`).  `UpTo` and `CallsAre` say which positions were called before
the first failure, `ScoresAre` and `SelectionIs` what was worked out from the
answers: the loop of `best_by_policy`, a recursive function over the outcomes,
ends at the first of the best (`BestIsFirst`, by induction over positions), which
is the one of the lowest id because the scenarios of a readable bundle are in the
order of their ids (`ReadableIsInOrder`).  The record needs both directions.
`ReportsEnd` lists the four ways a report can end; for each, the eleven checks of
the reader are shown to pass (`RecordIsAccepted`), and with any other bundle of
the host the binding check is shown to fire (`OtherBundlesAreRefused`), whatever
came before it.

The third theorem, `PublishedIsAlwaysWhole`, is about any number of publishers,
process ids, attempts and crashes, from the assumptions that the stranger is no
publisher and the destination no temporary name.  The difficulty is that a process id is used again after a crash, so that a temporary
name says nothing about who wrote the file.  `PublicationInv` therefore speaks
of authors: *Held*, whoever stands between open and drop holds a file it wrote
itself, by a name of its own; *Written*, what is about to be linked is whole;
*Arrived*, hence so is what is at the destination; *Reported*, *FirstTime*, results
follow what happened there; *Traced*, every other name has a holder or was
abandoned by a crash.

`CampaignProofs` proves three of the suite's four properties for any number of
campaigns and policies, all sizes of files, advertised and real, every budget,
and whatever is written to the directory meanwhile: `BudgetAlwaysBoundsReading`
(`BudgetBoundsReading`), `AcceptedSuiteIsAlwaysPreregistered`
(`AcceptedSuiteIsPreregistered`) and `BaselineIsAlwaysShared` (`BaselineIsShared`).
`SuiteAssumption` says that there are campaigns, policies and exports, listed,
that limits and the sizes damage gives a file are naturals, and that a damaged
file is neither empty nor turned into the file of another export.

* *The budget.*  The property is not inductive: what an accepted suite has cost is
  known only from what remains, and a read beyond the limit is only harmless
  because it is the last.  `Inv` says where the verifier stands (*Standing*), that
  files keep sizes (*Sizes*), and how the accounts hang together (*Accounts*): as
  long as no read has failed, what was spent and what remains are the total, and no
  read went beyond the limit; once one has failed, the verdict is an error.
  `ReadKeepsTheBooks` shows this once for a read, and every step of the verifier is
  such a read, a quiet step or an error.
* *The preregistered suite.*  `Progress` says that what was read of the present
  pack passed the checks so far (*Gathered*), that the finished packs passed all of
  them (*Archived*) and are as many as the verdict needs (*Counted*).  The rest is
  about data: a pack with nothing against it has the pinned specification's digest
  in its manifest, the manifest pins each record by its digest, and equal digests
  are equal texts, so that files read one by one while an exporter was writing are
  those of one export (`PinnedPack`, `AcceptedPack`).
* *The baseline.*  `Readings` says that as long as no file was replaced after it
  had been read, a file read twice is found as it was (*Witnessed*, *Reread*), and
  that the campaigns that were closed agree with the first (*Shared*).  Within a
  campaign the baselines are one because the comparison accepted the records
  (`ComparedAlike`), across campaigns because of the identity the verifier keeps.

`ElasticProofs` proves all three properties of `ElasticCommit`, for any probes,
plans, policies and model answers: `ChoiceIsBest` (`ChoiceBeatsNoOp`),
`OnlyTheSelectedActs` (`ActsAsSelected`), `EvidenceStandsUp` (`EvidenceIsTrue`).
Assumed: ids are integers, a probe list is a sequence, and `NoValue` is none of
the values that may be missing.  `ElasticInv` says what survives until it is
used: *Chosen*, the choice is the no-op or the first of the best outcomes, and
the probe it was made from still stands at its position; *Passed*, what the
runtime got went through the gate with the set and plan that are still there;
*Captured*, so did the evidence through its checks.  Two facts about data carry
the rest.  The loop of `best_by_policy` finds the *first* maximum
(`BestIsFirst`, by induction over the outcomes), which is the one of smallest id
only because the set was sorted: `AscendingSorts`, where a record's position is
the number of smaller ids and a pigeonhole argument shows every position taken
once.  (`Ascending` and the loop stand in the model in place of the standard
modules' `SortSeq` and fold, which the prover has no definition of or cannot
unfold.)

`JournaledProcessesProofs` proves, for every bundle, quota, engine, codec and
plan, any failure of storage, codec or limit at any line, and a crash at any
step, of a run *and* of a continuation:

| Theorem | States |
|---|---|
| `JournalIsKept` | `Spec => []JournalInv`, the first inductive invariant |
| `IntentsComeFirst` | `WriteAhead` |
| `FailureIsFinal` | `NothingAfterJournalFailure` (an action property) |
| `InspectionIsKept` | `Spec => [](JournalInv /\ InspectionInv)`, the second |
| `InspectionTellsTheTruth` | `InspectionIsTrue` |
| `ReportIsKept` | `Spec => [](JournalInv /\ InspectionInv /\ ReportInv)`, the third |
| `ReportsAgree` | `ReportAgrees` |
| `PreparedPlan` | what any plan that `prepare_typed_continuation` yields looks like |
| `AcceptedIsLawful`, `ChildAcceptedIsLawful` | what *any* accepted log looks like, whoever wrote it |
| `SuccessesAreFound` | what the loop over the successes of a log finds |

Assumptions: the bundle is a non-empty sequence of distinct ids, none of them the
baseline's (`ScenariosAssumption`; the bundle's reader refuses anything else);
an `Ok` is no `Err`, and `NoValue` and a malformed line are none of the values
they stand beside (`ValuesAssumption`); a plan is one that `Prepare` returned for
some log of `Logs`, expectations and identity (`PlansAssumption`; the type has no
other constructor).  `Logs` may hold any file: nothing is assumed of the log a
plan was prepared from.

A run and a continuation are instances of two modules.  The proofs first show
that every step of either is one of some twenty *moves* (`StepsMove`), which
name the variables the journal depends on; the invariant is then shown once per
move.  `JournalInv` ties together five counters that the code keeps apart: the
entry number, the lines in the file, the engine's calls, the candidates taken,
and `next`.  *Latched* says which positions of the wrapper a journal failure
leaves; *Position* that a clean process has written `2 * Calls + 1` entries
between two calls; *InStep* that the call in flight is the one that is due;
*Filed* that the even lines of the file are the intents of the engine's calls.
`WriteAhead` is not inductive without them: that the next intent goes to line
`2 * Calls + 2` depends on no step having been skipped after a failure.

`InspectionInv` adds the inspector's view.  *Agreement* says that reading the
file of a clean process yields its own position (*Known*: header, active call,
failed call, terminal, counts); *Recorded* that every recorded return is that of
its call; *Accepted* that the file, wherever it ends, is read without an error.
That one more line, of the kind the process is about to write, is accepted again
(`WrittenLineIsRead`) is where writer and reader, which are separate code, meet.
The inspector is a function over the lines, defined by recursion.  That it reads
`n + 1` lines as it reads `n` and then one more (`ReadOn`) holds because a
recursive function over `0 .. n` exists (`ReadingExists`) and is unique
(`ReadingAgrees`), both by induction on `n`; `Induction` is derived from the least
member of a set of naturals, since a library theorem that takes a predicate as
its parameter cannot be instantiated.

`ReportInv` adds what the report needs.  *Sent* counts: between two calls the
engine has received exactly what the evaluator's iterator is past, and at the
report one call less if the candidate taken was blocked before the engine; so
the candidates not reported as never started are those the engine was called
with.  *Fits* says that whoever has not failed has room for the entry at hand.
It is not inductive alone, as a run takes the next step before it writes: *Room*
follows from the first two invariants (`2 * Calls + 3` entries for the candidates
there are), and its primed form gives the step of *Fits*.  *Kept* says that each
outcome, and the baseline, stands in the file as the value of a return.
`ReportsAgree` then compares two counts of the same candidates: the evaluator
lists its unread suffix, the inspector subtracts starts from the size of a set
(`RestIsCounted`).

`RestartSteps` and `RestartProofs` prove the three properties of `RestartChain`,
for every bundle, quota, engine and codec, and for every failure and crash in
either process:

| Theorem | States |
|---|---|
| `PlansTellTheTruth` | `PlanIsTrue` |
| `ChainHasNoDeadEnd` | `ChainGoesOn`, its two parts being that an interrupted run can be prepared and a completed child assembled |
| `ChainImplementsLedger` | `ImplementsLedger`: the chain implements `EngineLedger` |

The one assumption besides `Continuation`'s is `ValuesAssumption`: the values of
each process are as `JournaledProcesses` assumes.  The chain is not proved anew:
`JournaledProcessesProofs` is instantiated twice (`P`, `C`), and its theorems hold of the
parent as it stands and of the child once the engine's history is replaced by
the child's own part of it (`ChildCalls`, what follows the restored calls).
`ParentRuns` and `ChildRuns` show that a step of the chain is a step of such a
process; for the child this needs the files of the parent, which a child's
inspector reads, to be the ones its plan was prepared from.  `ChainInv` then says
for each phase what is known: in *parent*, the run's own invariants; in
*captured*, that what was kept of the file is the file (`Captured`) and nothing
of the child is there yet (`Fresh`); from *prepared* on, that the plan is the
truth about the engine's first calls (`Truthful`), which no later step can make
wrong (`StaysTruthful`); in *child*, the child's invariants over its part of the
history.  A plan becomes truthful when it is prepared, from a log that is the
captured file (`OnlyTheCapturedLog`: a copy taken earlier is refused) and whose
successes are the engine's values (`StoppedIsTruthful`, by `InspectionIsTrue` and
`SuccessesAreFound`).  A step of either process maps to a call, a return or a
stutter of the ledger, and assembly to the release of the whole batch
(`AssembledIsWhole`): its outcomes are those restored and those of the child,
which together are the bundle's.

Only model-checked: liveness, which is beyond the prover; what the inspectors do
*not* accept, and that they judge as the reader of records does
(`AcceptsExactlyRuns`, `RecordsAgreeWithJournals`), since a statement about every
log that no run leaves behind is one about all the ways of being malformed; of
the suite, `VerdictIsRight`, which says of every error that an honest suite does
not meet it; the evidence, and the KV and FLAT readers, whose properties compare
a reader with its exporter over the texts of an instance; the searches of the
solvers, and the decision models.  The readers of those documents and the solvers are defined with
`SelectSeq`, folds and `@@`, which the prover has no definition of or cannot
unfold.  `RiskDecisions`, `OperationsDecisions`, `CausalLearning` and
`Propagators` hold recursive operators, which the prover does not accept in a
module it is to prove about.

## 7. Findings

**Restored payloads** (`restored_only_acknowledged`).
`prepare_typed_continuation` decodes the payload of every complete
`call_succeeded` line of the captured log (`continuation.rs:179-183`).  A line
that was written and whose `sync_all` failed, or had not returned when the
process died, is complete and was never acknowledged; its payload is restored.
`docs/TYPED-CONTINUATION.md:21` says that only acknowledged `call_succeeded`
payloads are decoded, and the module's comment says the same.  It does no harm
to the ledger: the call did return that payload (`PlanIsTrue` holds), the file
merely carries no mark by which a reader could tell acknowledgement from
presence.

**An infinite delta** (`kv_delta`).  `nearly_equal` of
`prospect-kv-selection-observed/src/lib.rs:579` scales its tolerance by the
larger magnitude and does not ask whether the difference is finite.  When
`candidate_value - baseline_value` overflows to infinity, the tolerance is
infinite too and *every* stated delta passes.  The reader's own error message
calls such a record inconsistent, and its two siblings have the guard:
`prospect-kv-observed/src/lib.rs:761` with a comment that names this very
comparison, `prospect-kv-position-observed/src/lib.rs:584` without.

The comparison of heuristics has the same weakness, and `kv_documents` models it.
What each policy loses is recomputed and the stated loss held against it with the
same kind of `nearly_equal` (`heuristic_comparison.rs:290-296`, `428-431`), again
without asking that the recomputed one be finite: when it overflows, every stated
loss that is finite and not negative passes and infinity is kept, although the
comment at `heuristic_comparison.rs:336-339` says that the numerical consequence of
the random result, which cannot be replayed, was revalidated there.  The reader of
a single effect refuses the same overflow (`synthetic_effect.rs:431`).
`EffectsAreRecomputed` says what remains: a finite kept distance is the loss and
the stated one is near it, an infinite one comes only from a loss or a sum that
overflows, and the best policy loses no more than any whose distance is finite.

## 8. Plan

1. Done: evaluator, journal, continuation, assembly, the chain; decision sets,
   evidence, multi-trace; elastic transactions; registries, catalogs, dispatch,
   records and their publication; KV and FLAT documents; the campaign suite;
   solvers, propagators, integer decision models, causal criteria.
2. Done: proofs about the evaluator and the reader of its record, the decision
   set, hosts, executions and publication, elastic transactions, the journal of
   runs and continuations, their chain, and an accepted suite with its read
   budget.  Next: `VerdictIsRight`, and the constrained evidence, once its
   selection and its folds are written in a form the prover can unfold.
3. Operations still missing: reading elastic evidence back from JSON; opening
   the journal file with `create_new`; the preflight command's summary; the
   restart command, which reads two files and calls the modelled preflight.
4. Larger instances where time allows: three candidates in `restart_chain`,
   three publishers.

## 9. Not modelled, and why

* **f64 numerics** of `prospect-commercial-advanced`: simplex and mixed-integer
  programs, Kalman filters, time series, evolution strategies, Bayesian updates,
  bootstrap intervals, contextual bandits.  Iterations over floats without a
  discrete core that either tool could check faithfully.
* **Overflow errors** of the integer models: every sum is checked in `i128`, and
  no instance a run can enumerate comes near.  The one sum that is not checked,
  the first trend of Holt's smoothing (`learning.rs:139`, in `i64`), is listed as
  a hazard without a property: the model's integers do not wrap.
* **External code**: `flat_attention`'s signatures and masks, the ElasticXxx
  runtime, the TDI crate.  They appear as an environment, or as the operators
  the readers use.
* **Elastic bridge** (`prospect-elastic/src/lib.rs`): finiteness and blank-name
  checks on maps of floats.  **Core vocabulary**: types and traits.
* **Wording**: argument parsing, printing, JSON layout beyond the four forms of
  a text, certificates and fingerprints of graphs.
* **Scripts and CI**: run once over published artifacts; no state.
