------------------------------ MODULE Contracts ------------------------------
(***************************************************************************)
(* What adapters, metrics and policies promise and bundles ask for: ids,   *)
(* versions, upstreams, capabilities, and the registries they are kept in. *)
(* An id is its place in the order of ids, from 1; 0 is a text that is no  *)
(* id.  An optional value is a sequence of at most one.  Then what is      *)
(* evaluated under these promises, and the record that is made of it.      *)
(***************************************************************************)
EXTENDS Checks

(* The entries in the order of their ids, equal ones as they were.         *)
ById(entries) ==
  LET rank(i) == Cardinality({ j \in DOMAIN entries :
                                 entries[j].id < entries[i].id
                                   \/ (entries[j].id = entries[i].id /\ j <= i) })
  IN  [k \in DOMAIN entries |-> entries[CHOOSE i \in DOMAIN entries : rank(i) = k]]
IdsIn(entries) == { e.id : e \in entries }

(* Fault: the minor version is not compared.                               *)
SupportsMajor(version, required) == version.major = required.major

(* ContractVersion::supports.                                              *)
Supports(version, required) ==
  version.major = required.major /\ version.minor >= required.minor

(* ContractVersion::new and NamespacedId::new, as they meet in an entry.   *)
EntryError(entry) ==
  FirstError(<< <<entry.version.major = 0, "ZeroMajorVersion">>,
                <<entry.id = 0, "InvalidNamespacedId">> >>)

(* AdapterUpstream::new, AvailableUpstream::new, UpstreamBinding::new.     *)
UpstreamError(upstream) ==
  FirstError(<< <<\E u \in Elements(upstream) : u.revision = 0, "EmptyRevision">>,
                <<\E u \in Elements(upstream) : u.component = 0, "InvalidNamespacedId">> >>)

(* An upstream that is asked for has to be there, in the same revision.    *)
UpstreamFits(offered, required) == required # <<>> => offered = required

(* AdapterMetadata::new: what it refuses, and what it makes.               *)
MetadataError(metadata) ==
  FirstOf(<< UpstreamError(metadata.upstream),
             FirstOf([i \in DOMAIN metadata.capabilities |->
                        EntryError(metadata.capabilities[i])]),
             FirstError(<<
               <<metadata.version.major = 0, "ZeroMajorVersion">>,
               <<metadata.capabilities = <<>>, "EmptyCapabilities">>,
               <<~Distinct([i \in DOMAIN metadata.capabilities |-> metadata.capabilities[i].id]),
                 "DuplicateCapability">>,
               <<metadata.id = 0, "InvalidNamespacedId">> >>) >>)
MetadataOf(metadata) == [metadata EXCEPT !.capabilities = ById(@)]

----------------------------------------------------------------------------
(* Registries: sets of entries, at most one of an id.                      *)

(* Fault: the newer registration replaces the older.                       *)
RegisterReplaces(registry, entry) == { e \in registry : e.id # entry.id } \cup {entry}

(* register: an id is never registered twice.                              *)
Register(registry, entry) ==
  IF entry.id \in IdsIn(registry) THEN registry ELSE registry \cup {entry}

EntryOf(registry, id) == CHOOSE e \in registry : e.id = id

(* MetricRegistry::resolve, DecisionPolicyRegistry::resolve, of an         *)
(* optional requirement.                                                   *)
LookupError(registry, required) ==
  IF required = <<>> THEN NoError
  ELSE IF required[1].id \notin IdsIn(registry) THEN "MissingId"
  ELSE IF ~Supports(EntryOf(registry, required[1].id).version, required[1].version)
  THEN "IncompatibleVersion" ELSE NoError

----------------------------------------------------------------------------
(* Batches without control: one evaluation of the baseline and of every    *)
(* scenario in turn, their scores and their ranking.  An engine is         *)
(* [baseline, evaluate], what it answers for the state it is given and for *)
(* every intervention in it; a scenario is [id, intervention].             *)

(* evaluate_batch: the first failure is all that is returned; ids may      *)
(* repeat.                                                                 *)
EvaluateBatch(engine, scenarios, failure) ==
  IF failure \in {engine.baseline} \cup
                 { engine.evaluate[scenarios[i].intervention] : i \in DOMAIN scenarios }
  THEN failure
  ELSE [baseline |-> engine.baseline,
        outcomes |-> [i \in DOMAIN scenarios |->
                        [scenario |-> scenarios[i],
                         signature |-> engine.evaluate[scenarios[i].intervention]]]]

(* The positions it evaluates, 0 for the baseline: up to the first failure. *)
PositionsCalled(engine, scenarios, failure) ==
  LET answers == <<engine.baseline>> \o
                   [i \in DOMAIN scenarios |-> engine.evaluate[scenarios[i].intervention]]
      failing == { i \in DOMAIN answers : answers[i] = failure }
      last == IF failing = {} THEN Len(answers) ELSE CHOOSE i \in failing : \A j \in failing : i <= j
  IN  [i \in 1 .. last |-> i - 1]

(* score_against_baseline; a metric is a sequence that names it, empty when *)
(* there is one only, and its score of a pair is its name and the pair.     *)
ScoreAgainstBaseline(batch, metric) ==
  [i \in DOMAIN batch.outcomes |->
     [id |-> batch.outcomes[i].scenario.id,
      score |-> metric \o <<batch.baseline, batch.outcomes[i].signature>>]]

(* best_by_policy: the position of the outcome, 0 for None, from what the   *)
(* policy gives each outcome.                                               *)
Improve(scores, best, i) == IF best = 0 \/ scores[i] > scores[best] THEN i ELSE best
BestByPolicy(scores) ==
  LET best[i \in 0 .. Len(scores)] == IF i = 0 THEN 0 ELSE Improve(scores, best[i - 1], i)
  IN  best[Len(scores)]

----------------------------------------------------------------------------
(* The record of one bounded evaluation of a bundle: how it is captured    *)
(* from the evaluator's report, and what a reader who has only the record  *)
(* and the bundle's own text accepts.  The reader rebuilds the lifecycle   *)
(* of the evaluation from what is recorded.                                *)
(*                                                                         *)
(* A bundle is [id, seed, adapter, scenarios]; its digest is the bundle    *)
(* itself.  A payload is [value, long], long when it is over               *)
(* MAX_ENCODED_PAYLOAD_BYTES.                                              *)

(* RecordWire, apart from its identities.                                  *)
RecordOf(baseline, outcomes, pending, terminal, limit, deadline) ==
  [form |-> "good", baseline |-> baseline, outcomes |-> outcomes, pending |-> pending,
   terminal |-> terminal, limit |-> limit, deadline |-> deadline]

(* What a record says of the bundle and the adapter.                       *)
Bind(record, run, bundle, metadata) ==
  [form |-> record.form, baseline |-> record.baseline, outcomes |-> record.outcomes,
   pending |-> record.pending, terminal |-> record.terminal,
   limit |-> record.limit, deadline |-> record.deadline,
   run |-> run, digest |-> bundle, bundle |-> bundle.id, seed |-> bundle.seed,
   adapter |-> metadata, codecs |-> TRUE]

Succeeded(record) == [i \in DOMAIN record.outcomes |-> record.outcomes[i].scenario]

Listed(bundle) == [i \in DOMAIN bundle.scenarios |-> bundle.scenarios[i].id]

(* What is left of the bundle once the successes, and the failed candidate *)
(* if there is one, are consumed.                                          *)
Unfinished(record, bundle) ==
  SubSeq(Listed(bundle), Len(record.outcomes) + 1, Len(bundle.scenarios))
NeverStarted(record, bundle) ==
  IF record.terminal.state = "failed" /\ record.terminal.scenario # <<>>
  THEN SubSeq(Listed(bundle), Len(record.outcomes) + 2, Len(bundle.scenarios))
  ELSE Unfinished(record, bundle)

(* verify_against_bundle: the text, the binding, the adapter's contract.   *)
BindingError(record, bundle) ==
  FirstError(<<
    <<record.form = "long", "record exceeds byte limit">>,
    <<record.form = "shape", "Json">>,
    <<record.form = "noncanonical", "noncanonical record or duplicate/missing fields">>,
    <<record.form = "schema", "unsupported schema or evidence kind">>,
    <<record.run = 0, "invalid run ID">>,
    <<record.digest # bundle \/ record.bundle # bundle.id \/ record.seed # bundle.seed,
      "input bundle binding mismatch">>,
    <<MetadataError(record.adapter) # NoError, "invalid adapter metadata">>,
    <<MetadataOf(record.adapter) # record.adapter, "noncanonical adapter metadata">>,
    <<record.adapter.id # bundle.adapter.id
        \/ ~Supports(record.adapter.version, bundle.adapter.version),
      "adapter contract mismatch">>,
    <<~UpstreamFits(record.adapter.upstream, bundle.adapter.upstream),
      "adapter upstream mismatch">>,
    <<~record.codecs, "invalid codec ID">> >>)

(* The successes: within the quota, after a baseline, a prefix.            *)
PrefixError(record, bundle) ==
  FirstError(<<
    <<Len(record.outcomes) > record.limit, "candidate quota exceeded">>,
    <<record.baseline = <<>> /\ record.outcomes # <<>>, "outcomes without baseline">>,
    <<\E i \in DOMAIN record.baseline : record.baseline[i].long,
      "encoded payload exceeds byte limit">>,
    <<~IsPrefix(Succeeded(record), Listed(bundle)), "successful prefix mismatch">>,
    <<\E i \in DOMAIN record.outcomes : record.outcomes[i].payload.long,
      "encoded payload exceeds byte limit">> >>)

(* Fault: a candidate may fail although the quota was used up.             *)
TerminalErrorOverQuota(record, bundle) ==
  LET t == record.terminal
      left == Unfinished(record, bundle)
  IN  FirstError(<<
        <<t.state = "completed" /\ (record.baseline = <<>> \/ record.pending # <<>> \/ left # <<>>),
          "incomplete work relabelled completed">>,
        <<t.state = "failed" /\ t.scenario # <<>>
            /\ (record.baseline = <<>> \/ ~IsPrefix(t.scenario, left)),
          "invalid failed candidate">>,
        <<t.state = "interrupted" /\ t.reason = "EvaluationLimitReached"
            /\ (record.pending = <<>> \/ Len(record.outcomes) # record.limit),
          "invalid quota interruption">> >>)

(* The terminal state, given a prefix of successes.                        *)
TerminalError(record, bundle) ==
  LET t == record.terminal
      left == Unfinished(record, bundle)
  IN  FirstError(<<
        <<t.state = "completed" /\ (record.baseline = <<>> \/ record.pending # <<>> \/ left # <<>>),
          "incomplete work relabelled completed">>,
        <<t.state = "failed" /\ t.error.long, "encoded payload exceeds byte limit">>,
        <<t.state = "failed" /\ t.scenario # <<>>
            /\ (record.baseline = <<>> \/ ~IsPrefix(t.scenario, left)
                  \/ Len(record.outcomes) >= record.limit),
          "invalid failed candidate">>,
        <<t.state = "failed" /\ t.scenario = <<>>
            /\ (record.baseline # <<>> \/ record.outcomes # <<>> \/ record.limit = 0),
          "invalid baseline failure">>,
        <<t.state = "interrupted" /\ t.reason = "DeadlineReached" /\ ~record.deadline,
          "deadline interruption without deadline">>,
        <<t.state = "interrupted" /\ t.reason = "EvaluationLimitReached"
            /\ (record.pending = <<>> \/ Len(record.outcomes) # record.limit),
          "invalid quota interruption">> >>)

SuffixError(record, bundle) ==
  FirstError(<<
    <<record.limit = 0 /\ record.baseline # <<>>, "zero budget baseline call">>,
    <<record.pending # NeverStarted(record, bundle), "never-started suffix mismatch">> >>)

(* The lifecycle that is recorded, whatever it is bound to.                *)
LifecycleError(record, bundle) ==
  LET prefix == PrefixError(record, bundle) IN
    IF prefix # NoError THEN prefix
    ELSE FirstOf(<<TerminalError(record, bundle), SuffixError(record, bundle)>>)

(* ExecutionRecord::verify_against_bundle.                                 *)
RecordError(record, bundle) ==
  LET binding == BindingError(record, bundle) IN
    IF binding # NoError THEN binding ELSE LifecycleError(record, bundle)

(* Fault: a failed baseline counts as a candidate.                         *)
SummaryCountsBaseline(record) ==
  [state |-> record.terminal.state, successful |-> Len(record.outcomes),
   failed |-> IF record.terminal.state = "failed" THEN 1 ELSE 0,
   neverStarted |-> Len(record.pending)]

(* ExecutionRecord::summary.                                               *)
SummaryOf(record) ==
  [state |-> record.terminal.state, successful |-> Len(record.outcomes),
   failed |-> IF record.terminal.state = "failed" THEN Len(record.terminal.scenario) ELSE 0,
   neverStarted |-> Len(record.pending)]
=============================================================================
