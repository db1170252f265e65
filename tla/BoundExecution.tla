--------------------------- MODULE BoundExecution ---------------------------
(***************************************************************************)
(* A host: it registers adapters, metrics and policies, exports catalogs   *)
(* of what it has, executes a bundle against its registries, and publishes *)
(* the record of a bounded evaluation.  Whoever asks for the execution     *)
(* checks the bundle against a catalog that was exported earlier, and that *)
(* may have been changed on the way.                                       *)
(***************************************************************************)
EXTENDS Contracts, RecordPublication

----------------------------------------------------------------------------
(* Scenario bundles, catalogs of what a host offers, and the resolution of *)
(* a bundle's requirements: against a catalog, before anything is loaded,  *)
(* and against the registries of the host that executes it.                *)
(*                                                                         *)
(* A bundle is [form, id, seed, adapter, scenarios, metric, policy], its   *)
(* adapter [id, version, upstream]; a catalog [form, adapters, metrics,    *)
(* policies]; both are the values their canonical text stands for.         *)

IdAtEach(entries) == [i \in DOMAIN entries |-> entries[i].id]

(* AdapterBinding::new and AvailableAdapter::new, from the wire.           *)
OfferedError(adapter) ==
  FirstOf(<< FirstError(<< <<adapter.version.major = 0, "ZeroMajorVersion">> >>),
             UpstreamError(adapter.upstream),
             FirstError(<< <<adapter.id = 0, "InvalidNamespacedId">> >>) >>)
EntriesError(entries) == FirstOf([i \in DOMAIN entries |-> EntryError(entries[i])])

(* AdapterBinding::from_metadata, AvailableAdapter::from_metadata.         *)
OfferedBy(metadata) ==
  [id |-> metadata.id, version |-> metadata.version, upstream |-> metadata.upstream]

----------------------------------------------------------------------------
(* Bundles.                                                                *)

(* ScenarioBundle::new.                                                    *)
NewBundleError(bundle) ==
  FirstError(<< <<bundle.scenarios = <<>>, "EmptyScenarios">>,
                <<~Distinct(IdAtEach(bundle.scenarios)), "DuplicateScenario">>,
                <<bundle.id = 0, "InvalidNamespacedId">> >>)
NewBundle(bundle) == [bundle EXCEPT !.scenarios = ById(@)]

(* ScenarioBundle::from_canonical_json.                                    *)
ReadBundleError(text) ==
  FirstOf(<< FirstError(FormChecks(text)),
             OfferedError(text.adapter),
             EntriesError(text.metric), EntriesError(text.policy),
             FirstError(<< <<0 \in IdsIn(Elements(text.scenarios)), "InvalidScenarioId">> >>),
             NewBundleError(text),
             FirstError(<< <<NewBundle(text) # text, "NonCanonicalJson">> >>) >>)

(* verify_against_bundle and verify_execution_record_files: the bundle is  *)
(* read after the record's length is checked and before the record is.     *)
VerifyError(record, text) ==
  IF record.form # "long" /\ ReadBundleError(text) # NoError
  THEN "invalid canonical input bundle"
  ELSE RecordError(record, text)

----------------------------------------------------------------------------
(* Catalogs.                                                               *)

(* DispatchCatalog::new.                                                   *)
NewCatalog(adapters, metrics, policies) ==
  [form |-> "good", adapters |-> ById(adapters), metrics |-> ById(metrics),
   policies |-> ById(policies)]
NewCatalogError(catalog) ==
  FirstError(<< <<~Distinct(IdAtEach(catalog.adapters)), "DuplicateAdapter">>,
                <<~Distinct(IdAtEach(catalog.metrics)), "DuplicateMetric">>,
                <<~Distinct(IdAtEach(catalog.policies)), "DuplicatePolicy">> >>)

(* DispatchCatalog::from_adapter_metadata.                                 *)
FromAdapterMetadata(metadatas) ==
  NewCatalog([i \in DOMAIN metadatas |-> OfferedBy(metadatas[i])], <<>>, <<>>)

(* DispatchCatalog::from_canonical_json.                                   *)
ReadCatalogError(text) ==
  FirstOf(<< FirstError(<< <<text.form = "shape", "Json">>,
                           <<text.form = "schema", "UnsupportedSchema">> >>),
             FirstOf([i \in DOMAIN text.adapters |-> OfferedError(text.adapters[i])]),
             EntriesError(text.metrics), EntriesError(text.policies),
             NewCatalogError(text),
             FirstError(<< <<NewCatalog(text.adapters, text.metrics, text.policies) # text,
                             "NonCanonicalJson">> >>) >>)

----------------------------------------------------------------------------
(* Resolution: the checks common to both, once the adapter is found.       *)

MetricError == [none |-> NoError, MissingId |-> "MissingMetric",
                IncompatibleVersion |-> "IncompatibleMetricVersion"]
PolicyError == [none |-> NoError, MissingId |-> "MissingPolicy",
                IncompatibleVersion |-> "IncompatiblePolicyVersion"]

AdapterError(offered, required) ==
  FirstError(<< <<~Supports(offered.version, required.version), "IncompatibleAdapterVersion">>,
                <<~UpstreamFits(offered.upstream, required.upstream),
                  "AdapterUpstreamMismatch">> >>)

(* The positions of the adapters of an id.                                 *)
Called(adapters, id) == { i \in DOMAIN adapters : adapters[i].id = id }

(* DispatchCatalog::resolve_bundle.                                        *)
PreflightError(catalog, bundle) ==
  LET found == Called(catalog.adapters, bundle.adapter.id) IN
    IF found = {} THEN "MissingAdapter"
    ELSE FirstOf(<< AdapterError(catalog.adapters[Min(found)], bundle.adapter),
                    MetricError[LookupError(Elements(catalog.metrics), bundle.metric)],
                    PolicyError[LookupError(Elements(catalog.policies), bundle.policy)] >>)

(* resolve_bundle_requirements, of any list of adapters.                   *)
ResolveError(adapters, metrics, policies, bundle) ==
  LET found == Called(adapters, bundle.adapter.id) IN
    IF found = {} THEN "MissingAdapter"
    ELSE IF \E i, j \in found : i # j THEN "DuplicateAdapter"
    ELSE FirstOf(<< AdapterError(adapters[Min(found)], bundle.adapter),
                    MetricError[LookupError(metrics, bundle.metric)],
                    PolicyError[LookupError(policies, bundle.policy)] >>)

(* preflight_scenario_bundle_files: the bundle is read first.              *)
PreflightFilesError(bundleText, catalogText) ==
  IF ReadBundleError(bundleText) # NoError THEN ReadBundleError(bundleText)
  ELSE IF ReadCatalogError(catalogText) # NoError THEN ReadCatalogError(catalogText)
  ELSE PreflightError(catalogText, bundleText)

----------------------------------------------------------------------------
(* The host.                                                               *)

CONSTANTS
  AdapterOffers,   \* [metadata, engine], what VersionedAdapter and engine say
  MetricOffers,    \* [id, version, implementation]
  PolicyOffers,    \* [id, version, implementation]
  PolicyScore(_, _), \* of an implementation and a signature
  AdapterLists,    \* lists of metadata a caller may resolve a bundle against
  BundleTexts,     \* bundles, as they are presented
  Engines,         \* how an engine may answer: [baseline, evaluate]
  Failure,         \* what an engine answers when it fails
  Limits,          \* candidate quotas
  Alterations(_),  \* the texts one change away from a catalog
  MaxAlterations

(* A list of entries, whatever their ids.                                  *)
IsList(entries) ==
  entries \in Seq(Elements(entries)) /\ IdsIn(Elements(entries)) \subseteq Nat
IsMetadata(metadata) ==
  /\ DOMAIN metadata = {"id", "version", "upstream", "capabilities"}
  /\ metadata.id \in Nat /\ IsList(metadata.capabilities)

IsOption(value) == value \in Seq(Elements(value)) /\ Len(value) <= 1

(* What the types of the code say: metrics and policies are offered with   *)
(* ids and versions that were checked when they were made, and a policy's  *)
(* scores are integers.                                                    *)
ASSUME HostAssumption ==
  /\ \A offer \in AdapterOffers : IsMetadata(offer.metadata)
  /\ \A offer \in MetricOffers \cup PolicyOffers :
       offer.id \in Nat /\ EntryError(offer) = NoError
  /\ \A list \in AdapterLists : IsList(list)
  /\ \A text \in BundleTexts :
       /\ "scenarios" \in DOMAIN text /\ IsList(text.scenarios)
       /\ IsOption(text.metric) /\ IsOption(text.policy)
       /\ \A offer \in PolicyOffers, engine \in Engines, i \in DOMAIN text.scenarios :
            LET signature == engine.evaluate[text.scenarios[i].intervention]
            IN  signature = Failure \/ PolicyScore(offer.implementation, signature) \in Int
  /\ Limits \subseteq Nat

VARIABLES
  pc,         \* "host", "executed" or "publishing"
  adapters,   \* ExecutableAdapterRegistry: [id, metadata, engine]
  metrics,    \* MetricRegistry
  policies,   \* DecisionPolicyRegistry
  bundle,     \* the bundle to be executed, as text
  catalog,    \* the catalog at hand, when there is one
  alterations,
  outcome,    \* what came of the execution
  called,     \* history: [engine, position], every engine call
  batch, scores, selection, \* what an execution returns, each when there is one
  record      \* of a bounded evaluation

host == <<pc, adapters, metrics, policies, bundle, catalog, alterations, outcome, called,
          batch, scores, selection, record>>

HostInit ==
  /\ pc = "host"
  /\ adapters = {} /\ metrics = {} /\ policies = {}
  /\ bundle \in BundleTexts /\ catalog = <<>> /\ alterations = 0
  /\ outcome = "none" /\ called = <<>>
  /\ batch = <<>> /\ scores = <<>> /\ selection = <<>> /\ record = <<>>

----------------------------------------------------------------------------
(* Registration.  ExecutableAdapterRegistry::register takes the metadata   *)
(* from the adapter it registers.                                          *)

RegisterAdapter ==
  /\ pc = "host"
  /\ \E offer \in AdapterOffers :
       /\ MetadataError(offer.metadata) = NoError
       /\ adapters' = Register(adapters, [id |-> offer.metadata.id,
                                          metadata |-> MetadataOf(offer.metadata),
                                          engine |-> offer.engine])
  /\ UNCHANGED <<pc, metrics, policies, bundle, catalog, alterations, outcome, called,
                 batch, scores, selection, record>>

RegisterMetric ==
  /\ pc = "host" /\ \E offer \in MetricOffers : metrics' = Register(metrics, offer)
  /\ UNCHANGED <<pc, adapters, policies, bundle, catalog, alterations, outcome, called,
                 batch, scores, selection, record>>

RegisterPolicy ==
  /\ pc = "host" /\ \E offer \in PolicyOffers : policies' = Register(policies, offer)
  /\ UNCHANGED <<pc, adapters, metrics, bundle, catalog, alterations, outcome, called,
                 batch, scores, selection, record>>

(* metadata and owned_metadata_catalog, in the order of ids.               *)
Listing(registry) ==
  [k \in 1 .. Cardinality(registry) |->
     CHOOSE e \in registry : Cardinality({ x \in registry : x.id <= e.id }) = k]
Metadatas == [i \in DOMAIN Listing(adapters) |-> Listing(adapters)[i].metadata]
Entries(registry) ==
  [i \in DOMAIN Listing(registry) |->
     [id |-> Listing(registry)[i].id, version |-> Listing(registry)[i].version]]

(* What the host has: with its metrics and policies, or its adapters only. *)
Exports ==
  { NewCatalog([i \in DOMAIN Metadatas |-> OfferedBy(Metadatas[i])],
               Entries(metrics), Entries(policies)),
    FromAdapterMetadata(Metadatas) }

Export ==
  /\ pc = "host" /\ alterations = 0
  /\ \E made \in Exports : catalog' = <<made>>
  /\ UNCHANGED <<pc, adapters, metrics, policies, bundle, alterations, outcome, called,
                 batch, scores, selection, record>>

Alter ==
  /\ pc = "host" /\ catalog # <<>> /\ alterations < MaxAlterations
  /\ \E text \in Alterations(catalog[1]) :
       /\ IsList(text.adapters) /\ IsList(text.metrics) /\ IsList(text.policies)
       /\ catalog' = <<text>>
  /\ alterations' = alterations + 1
  /\ UNCHANGED <<pc, adapters, metrics, policies, bundle, outcome, called, batch, scores,
                 selection, record>>

----------------------------------------------------------------------------
(* Execution, of a bundle that can be read.                                *)

ResolvedNow == ResolveError(Metadatas, metrics, policies, bundle)
Adapter == EntryOf(adapters, bundle.adapter.id)
PositionsAt(positions) ==
  [i \in DOMAIN positions |-> [engine |-> Adapter.engine, position |-> positions[i]]]

(* A requirement is not satisfied: no engine is called.                    *)
Refuse ==
  /\ pc = "host" /\ ReadBundleError(bundle) = NoError
  /\ ResolvedNow # NoError
  /\ pc' = "executed" /\ outcome' = "refused" /\ catalog' = <<>> /\ alterations' = 0
  /\ UNCHANGED <<adapters, metrics, policies, bundle, called, batch, scores, selection,
                 record>>

(* The scores and the selection the bundle asks for.                       *)
Score(answered) ==
  /\ batch' = <<answered>>
  /\ scores' = IF bundle.metric = <<>> THEN <<>>
               ELSE LET metric == EntryOf(metrics, bundle.metric[1].id)
                    IN  <<ScoreAgainstBaseline(answered, <<metric.implementation>>)>>
  /\ selection' =
       IF bundle.policy = <<>> THEN <<>>
       ELSE LET policy == EntryOf(policies, bundle.policy[1].id)
                worth == [i \in DOMAIN answered.outcomes |->
                            PolicyScore(policy.implementation, answered.outcomes[i].signature)]
                best == BestByPolicy(worth)
            IN  IF best = 0 THEN <<>>
                ELSE <<[scenario |-> answered.outcomes[best].scenario.id,
                        score |-> worth[best]]>>

(* execute_registered_bundle.                                              *)
Execute ==
  /\ pc = "host" /\ ReadBundleError(bundle) = NoError
  /\ ResolvedNow = NoError
  /\ \E answers \in Engines :
       LET answered == EvaluateBatch(answers, bundle.scenarios, Failure) IN
         /\ called' = PositionsAt(PositionsCalled(answers, bundle.scenarios, Failure))
         /\ IF answered = Failure
            THEN outcome' = "failed" /\ UNCHANGED <<batch, scores, selection>>
            ELSE outcome' = "executed" /\ Score(answered)
  /\ pc' = "executed" /\ catalog' = <<>> /\ alterations' = 0
  /\ UNCHANGED <<adapters, metrics, policies, bundle, record>>

----------------------------------------------------------------------------
(* Bounded evaluation: evaluate_registered_bundle_bound.                   *)

Payload == [value |-> "payload", long |-> FALSE]

(* The reports a controlled evaluation can end in: [baseline, done,        *)
(* terminal], done the number of candidates that returned.                 *)
Reports(size, limit, deadline) ==
  LET interrupted(done) ==
        { [state |-> "interrupted", reason |-> r] :
            r \in {"Cancelled"} \cup (IF deadline THEN {"DeadlineReached"} ELSE {})
                    \cup (IF done = limit /\ done < size THEN {"EvaluationLimitReached"} ELSE {}) }
      failed(scenario) == [state |-> "failed", scenario |-> scenario, error |-> Payload]
      ended(done) ==
        interrupted(done)
          \cup (IF done < limit /\ done < size
                THEN {failed(<<bundle.scenarios[done + 1].id>>)} ELSE {})
          \cup (IF done = size THEN {[state |-> "completed"]} ELSE {})
  IN  { [baseline |-> <<>>, done |-> 0, terminal |-> t] : t \in interrupted(0) }
      \cup (IF limit = 0 THEN {}
            ELSE { [baseline |-> <<>>, done |-> 0, terminal |-> failed(<<>>)] }
                 \cup UNION { { [baseline |-> <<Payload>>, done |-> n, terminal |-> t] :
                                  t \in ended(n) } : n \in 0 .. (IF limit < size THEN limit ELSE size) })

(* What the engine was called for to end so.                               *)
CallsOf(report) ==
  LET failing == report.terminal.state = "failed"
      last == IF report.baseline = <<>> THEN (IF failing THEN 0 ELSE -1)
              ELSE report.done + (IF failing THEN 1 ELSE 0)
  IN  [i \in 1 .. last + 1 |-> i - 1]

(* capture_record: the successes, and the scenarios left when it ended.    *)
Capture(report, limit, deadline) ==
  LET size == Len(bundle.scenarios)
      begun == report.done
                 + (IF report.terminal.state = "failed" THEN Len(report.terminal.scenario) ELSE 0)
  IN  Bind(RecordOf(report.baseline,
                    [i \in 1 .. report.done |->
                       [scenario |-> bundle.scenarios[i].id, payload |-> Payload]],
                    SubSeq(Listed(bundle), begun + 1, size), report.terminal, limit, deadline),
           1, bundle, Adapter.metadata)

Evaluate ==
  /\ pc = "host" /\ ReadBundleError(bundle) = NoError
  /\ ResolvedNow = NoError
  /\ \E limit \in Limits, deadline \in BOOLEAN :
       \E report \in Reports(Len(bundle.scenarios), limit, deadline) :
         /\ called' = PositionsAt(CallsOf(report))
         /\ record' = <<Capture(report, limit, deadline)>>
  /\ pc' = "executed" /\ outcome' = "evaluated" /\ catalog' = <<>> /\ alterations' = 0
  /\ UNCHANGED <<adapters, metrics, policies, bundle, batch, scores, selection>>

(* The record is handed to publishers; publication is the same whatever    *)
(* the record says, so the host that made it is forgotten.                 *)
HandOver ==
  /\ pc = "executed" /\ record # <<>> /\ VerifyError(record[1], bundle) = NoError
  /\ pc' = "publishing"
  /\ adapters' = {} /\ metrics' = {} /\ policies' = {}
  /\ bundle' = CHOOSE text \in BundleTexts : ReadBundleError(text) = NoError
  /\ outcome' = "none" /\ called' = <<>> /\ record' = <<>>
  /\ UNCHANGED <<catalog, alterations, batch, scores, selection>>

HostNext ==
  \/ RegisterAdapter \/ RegisterMetric \/ RegisterPolicy
  \/ Export \/ Alter
  \/ Refuse \/ Execute \/ Evaluate \/ HandOver

Init == HostInit /\ PublicationInit
Next ==
  \/ HostNext /\ UNCHANGED publication
  \/ pc = "publishing" /\ Publish /\ UNCHANGED host

Spec == Init /\ [][Next]_<<host, publication>>

----------------------------------------------------------------------------
\* What follows is what the host, its callers and its readers rely on.

OnceEach(entries) == \A i, j \in DOMAIN entries : i < j => entries[i].id < entries[j].id

(* A preflight predicts the execution: a bundle that passes against a      *)
(* catalog the host exported at any time before resolves now, whatever was *)
(* registered since; against a catalog of what the host has now, the       *)
(* verdicts are the same, and so they are for any list of adapters a       *)
(* catalog can be made of.  A catalog that was changed is accepted only if *)
(* it still names each thing once.                                         *)
PreflightPredicts ==
  /\ catalog # <<>> /\ alterations = 0 =>
       /\ PreflightFilesError(bundle, catalog[1]) = NoError => ResolvedNow = NoError
       /\ catalog[1] = NewCatalog([i \in DOMAIN Metadatas |-> OfferedBy(Metadatas[i])],
                                  Entries(metrics), Entries(policies))
            /\ ReadBundleError(bundle) = NoError
            => PreflightFilesError(bundle, catalog[1]) = ResolvedNow
  /\ catalog # <<>> /\ ReadCatalogError(catalog[1]) = NoError =>
       OnceEach(catalog[1].adapters) /\ OnceEach(catalog[1].metrics) /\ OnceEach(catalog[1].policies)
  /\ \A list \in AdapterLists :
       LET made == NewCatalog([i \in DOMAIN list |-> OfferedBy(list[i])],
                              Entries(metrics), Entries(policies))
       IN  NewCatalogError(made) = NoError =>
             PreflightError(made, bundle) = ResolveError(list, metrics, policies, bundle)

Keeps(version, required) == version.major = required.major /\ version.minor >= required.minor

(* What is executed is what the bundle asks for: the engine called is one, *)
(* it is the one whose own metadata carries the bundle's adapter id, a     *)
(* version that keeps what is required and the upstream; its scenarios are *)
(* called in the order of their ids, each once, after the baseline; scores *)
(* are those of the metric asked for and there are none if none is asked   *)
(* for; the selection is the best scenario, of equal ones the lowest id;   *)
(* the record is accepted with this bundle and with no other.              *)
ExecutionIsBound ==
  /\ called # <<>> =>
       /\ \E offer \in AdapterOffers :
            /\ \A i \in DOMAIN called : called[i] = [engine |-> offer.engine, position |-> i - 1]
            /\ offer.metadata.id = bundle.adapter.id
            /\ Keeps(offer.metadata.version, bundle.adapter.version)
            /\ bundle.adapter.upstream # <<>> => offer.metadata.upstream = bundle.adapter.upstream
            /\ record # <<>> => record[1].adapter = MetadataOf(offer.metadata)
       /\ Len(called) <= Len(bundle.scenarios) + 1 /\ OnceEach(bundle.scenarios)
  /\ outcome = "refused" => called = <<>>
  /\ outcome = "executed" =>
       /\ Len(called) = Len(bundle.scenarios) + 1
       /\ Len(scores) = Len(bundle.metric) /\ Len(selection) = Len(bundle.policy)
       /\ \A i \in DOMAIN scores :
            \E offer \in MetricOffers :
              /\ offer.id = bundle.metric[i].id /\ Keeps(offer.version, bundle.metric[i].version)
              /\ \A s \in DOMAIN bundle.scenarios :
                   scores[i][s] = [id |-> bundle.scenarios[s].id,
                                   score |-> <<offer.implementation, batch[1].baseline,
                                               batch[1].outcomes[s].signature>>]
       /\ \A i \in DOMAIN selection :
            \E offer \in PolicyOffers :
              /\ offer.id = bundle.policy[i].id /\ Keeps(offer.version, bundle.policy[i].version)
              /\ \A o \in Elements(batch[1].outcomes) :
                   LET score == PolicyScore(offer.implementation, o.signature) IN
                     \/ score < selection[i].score
                     \/ score = selection[i].score /\ selection[i].scenario <= o.scenario.id
  /\ \A i \in DOMAIN record :
       /\ VerifyError(record[i], bundle) = NoError
       /\ \A text \in BundleTexts \ {bundle} : VerifyError(record[i], text) # NoError
=============================================================================
