----------------------------- MODULE KvObserved -----------------------------
(***************************************************************************)
(* Observations of a real model under a KV policy.  A record holds paired  *)
(* metrics of the full cache and of the reduced one, bound to a hand-off   *)
(* document; three crates read the three kinds of record                   *)
(* (prospect-kv-observed, prospect-kv-selection-observed,                  *)
(* prospect-kv-position-observed) and compare records of one context.      *)
(*                                                                         *)
(* A metric value is an integer of at most MaxFloat, and the difference of *)
(* two values may be Infinite.  A digest or revision is a value, NotHex    *)
(* when it is malformed.  The seven texts that say which experiment a      *)
(* record belongs to are one value, Blank when one of them is empty.       *)
(***************************************************************************)
EXTENDS KvHandoffs

CONSTANT NotHex

\* Closeness as prospect-kv-observed and prospect-kv-position-observed have it...
CloseFinite(left, right) ==
  /\ left # Infinite /\ right # Infinite
  /\ Near(left, right)

PositionClose(left, right) ==
  /\ left # Infinite /\ right # Infinite
  /\ Near(left, right)

\* ... and prospect-kv-selection-observed, where infinity <= infinity passes.
SelectionClose(left, right) == Near(left, right)

\* The baselines of position records are compared bit by bit.
Close(closeness, left, right) ==
  CASE closeness = "finite"    -> CloseFinite(left, right)
    [] closeness = "position"  -> PositionClose(left, right)
    [] closeness = "selection" -> SelectionClose(left, right)
    [] closeness = "bits"      -> left = right

MetricKinds == {"numerical", "quality"}

MetricPreferences == {"higher_is_better", "lower_is_better", "none"}

RecordErrors ==
  {"NonCanonicalJson", "Json", "UnsupportedSchema", "EmptyText", "InvalidRunRevision",
   "InvalidSha256", "EmbeddedEviction", "EmbeddedSelection",
   "BaselineLogicalBytesMismatch", "CandidateLogicalBytesMismatch", "EmptyMetrics",
   "DuplicateMetric", "UnknownMetricKind", "UnknownMetricPreference",
   "MetricDeltaMismatch"}

\* The parts of a metric's checks; a name 0 is blank.
MetricNameChecks(metrics, i) ==
  << <<metrics[i].name = 0 \/ metrics[i].unit = Blank, "EmptyText">>,
     <<\E j \in 1..(i - 1) : metrics[j].name = metrics[i].name, "DuplicateMetric">> >>

MetricVocabularyChecks(metric) ==
  << <<metric.kind \notin MetricKinds, "UnknownMetricKind">>,
     <<metric.preference \notin MetricPreferences, "UnknownMetricPreference">> >>

MetricDeltaChecks(metric, closeness) ==
  << <<~Close(closeness, metric.delta, Minus(metric.candidate, metric.baseline)),
       "MetricDeltaMismatch">> >>

EvictionMetricsError(metrics) ==
  FirstOf([i \in DOMAIN metrics |->
    FirstError(MetricNameChecks(metrics, i)
               \o MetricDeltaChecks(metrics[i], "finite")
               \o MetricVocabularyChecks(metrics[i]))])

SelectionMetricsError(metrics) ==
  FirstOf([i \in DOMAIN metrics |->
    FirstError(MetricNameChecks(metrics, i)
               \o MetricDeltaChecks(metrics[i], "selection")
               \o MetricVocabularyChecks(metrics[i]))])

PositionMetricsError(metrics) ==
  FirstOf([i \in DOMAIN metrics |->
    FirstError(MetricNameChecks(metrics, i)
               \o MetricVocabularyChecks(metrics[i])
               \o MetricDeltaChecks(metrics[i], "position"))])

\* prospect-kv-position-observed keeps its metrics sorted by name.
ByName(metrics) == SortSeq(metrics, LAMBDA a, b : a.name < b.name)

-----------------------------------------------------------------------------
(* Reading one record.                                                     *)

ProvenanceChecks(text) ==
  FormChecks(text)
  \o << <<text.context = Blank, "EmptyText">>,
        <<text.revision = NotHex, "InvalidRunRevision">>,
        <<NotHex \in {text.trace, text.baselineOutput, text.candidateOutput},
          "InvalidSha256">> >>

\* A record's checks around those of its hand-off and of its metrics.
RecordError(text, handoffError, handoffErrorName, outcome, metricsError) ==
  FirstError(
    ProvenanceChecks(text)
    \o << <<handoffError # NoError, handoffErrorName>>,
          <<text.baselineBytes # outcome.inputBytes, "BaselineLogicalBytesMismatch">>,
          <<text.candidateBytes # outcome.retainedBytes, "CandidateLogicalBytesMismatch">>,
          <<text.metrics = << >>, "EmptyMetrics">>,
          <<metricsError # NoError, metricsError>> >>)

EvictionRecordError(text) ==
  RecordError(text, EvictionError(text.handoff), "EmbeddedEviction",
              Eviction(text.handoff).outcome, EvictionMetricsError(text.metrics))

SelectionRecordError(text) ==
  RecordError(text, SelectionError(text.handoff), "EmbeddedSelection",
              Selection(text.handoff).outcome, SelectionMetricsError(text.metrics))

\* The bytes are those the hand-off states, which its reader has checked.
PositionRecordError(text) ==
  RecordError(text, PositionError(text.handoff), "EmbeddedSelection",
              [inputBytes |-> text.handoff.inputBytes,
               retainedBytes |-> text.handoff.retainedBytes],
              PositionMetricsError(text.metrics))

\* What is kept of a record; its fingerprint is that of its whole text.
Kept(text, handoff, metrics) ==
  [context |-> <<text.context, text.revision, text.trace>>,
   state |-> handoff.state, outcome |-> handoff.outcome,
   baselineOutput |-> text.baselineOutput, candidateOutput |-> text.candidateOutput,
   baselineBytes |-> text.baselineBytes, candidateBytes |-> text.candidateBytes,
   metrics |-> metrics, fingerprint |-> text]

EvictionRecord(text)  == Kept(text, Eviction(text.handoff), text.metrics)
SelectionRecord(text) == Kept(text, Selection(text.handoff), text.metrics)
PositionRecord(text)  == Kept(text, Position(text.handoff), ByName(text.metrics))

\* One side of a metric, with the description both sides share.
Side(metric, value) ==
  [name |-> metric.name, kind |-> metric.kind, unit |-> metric.unit,
   preference |-> metric.preference, value |-> value]

BaselineMetrics(record) ==
  [i \in DOMAIN record.metrics |-> Side(record.metrics[i], record.metrics[i].baseline)]

CandidateMetrics(record) ==
  [i \in DOMAIN record.metrics |-> Side(record.metrics[i], record.metrics[i].candidate)]

-----------------------------------------------------------------------------
(* Comparing records.  Every record is held against the first one.         *)

SameMetricBaselines(left, right, closeness) ==
  /\ DOMAIN left.metrics = DOMAIN right.metrics
  /\ \A i \in DOMAIN left.metrics :
       LET l == BaselineMetrics(left)[i]
           r == BaselineMetrics(right)[i]
       IN  [l EXCEPT !.value = 0] = [r EXCEPT !.value = 0] /\ Close(closeness, l.value, r.value)

SameBaseline(left, right, closeness) ==
  /\ left.baselineOutput = right.baselineOutput
  /\ left.baselineBytes = right.baselineBytes
  /\ SameMetricBaselines(left, right, closeness)

SameSetting(left, right) ==
  left.context = right.context /\ left.state = right.state

\* ObservedKvEvictionEvidenceModel::new
EvictionModelError(records) ==
  IF records = << >> THEN "EmptyEvidence"
  ELSE FirstOf([i \in DOMAIN records |->
    FirstError(<< <<~SameSetting(records[1], records[i]), "ContextMismatch">>,
                  <<~SameBaseline(records[1], records[i], "finite"), "BaselineMismatch">>,
                  <<\E j \in 1..(i - 1) : records[j].outcome = records[i].outcome,
                    "DuplicateOutcome">> >>)])

\* Fault: selections of different budgets are compared.
SelectionComparisonErrorAnyBudget(records) ==
  IF records = << >> THEN "EmptyEvidence"
  ELSE FirstOf([i \in DOMAIN records |->
    FirstError(<< <<~SameSetting(records[1], records[i]), "ContextMismatch">>,
                  <<~SameBaseline(records[1], records[i], "selection"), "BaselineMismatch">>,
                  <<\E j \in 1..(i - 1) : records[j].outcome.policy = records[i].outcome.policy,
                    "DuplicatePolicy">> >>)])

\* ObservedKvSelectionComparison::new
SelectionComparisonError(records) ==
  IF records = << >> THEN "EmptyEvidence"
  ELSE FirstOf([i \in DOMAIN records |->
    FirstError(<< <<~SameSetting(records[1], records[i]), "ContextMismatch">>,
                  <<~SameBaseline(records[1], records[i], "selection"), "BaselineMismatch">>,
                  <<records[1].candidateBytes # records[i].candidateBytes, "BudgetMismatch">>,
                  <<\E j \in 1..(i - 1) : records[j].outcome.policy = records[i].outcome.policy,
                    "DuplicatePolicy">> >>)])

\* ObservedKvPositionComparison::new
PositionComparisonError(records) ==
  IF records = << >> THEN "EmptyEvidence"
  ELSE FirstOf([i \in DOMAIN records |->
    FirstError(<< <<~SameSetting(records[1], records[i]), "ContextMismatch">>,
                  <<~SameBaseline(records[1], records[i], "bits"), "BaselineMismatch">>,
                  <<records[1].candidateBytes # records[i].candidateBytes, "BudgetMismatch">>,
                  <<\E j \in 1..(i - 1) : records[j].outcome.policy = records[i].outcome.policy,
                    "DuplicatePolicy">> >>)])

\* What a comparison says of the full cache and of one record's reduced one: a
\* signature, with the fingerprint of the record it was taken from.  The policy
\* of the full cache is none, << >>.
EvictionBaseline(record) ==
  [context |-> <<record.context[1], record.context[3]>>,
   output |-> record.baselineOutput, bytes |-> record.baselineBytes,
   metrics |-> BaselineMetrics(record), fingerprint |-> record.fingerprint]

EvictionCandidate(record) ==
  [context |-> <<record.context[1], record.context[3]>>,
   output |-> record.candidateOutput, bytes |-> record.candidateBytes,
   metrics |-> CandidateMetrics(record), fingerprint |-> record.fingerprint]

SelectionBaseline(record) ==
  [policy |-> << >>, output |-> record.baselineOutput, bytes |-> record.baselineBytes,
   retained |-> record.state.input,
   metrics |-> BaselineMetrics(record), fingerprint |-> record.fingerprint]

SelectionCandidate(record) ==
  [policy |-> <<record.outcome.policy>>, output |-> record.candidateOutput,
   bytes |-> record.candidateBytes, retained |-> record.outcome.retained,
   metrics |-> CandidateMetrics(record), fingerprint |-> record.fingerprint]

PositionBaseline(record) ==
  [policy |-> << >>, output |-> record.baselineOutput, bytes |-> record.baselineBytes,
   positions |-> [i \in DOMAIN record.state.input |-> i - 1],
   retained |-> record.state.input,
   metrics |-> BaselineMetrics(record), fingerprint |-> record.fingerprint]

PositionCandidate(record) ==
  [policy |-> <<record.outcome.policy>>, output |-> record.candidateOutput,
   bytes |-> record.candidateBytes, positions |-> record.outcome.positions,
   retained |-> record.outcome.retained,
   metrics |-> CandidateMetrics(record), fingerprint |-> record.fingerprint]

\* ObservedKvEvictionEvidenceModel::evaluate_eviction
EvaluateEviction(records, state, outcome) ==
  LET hits == SelectSeq(records, LAMBDA r : r.outcome = outcome)
  IN  CASE records[1].state # state -> "MissingEvidence"
        [] records[1].state = state /\ outcome.evicted = << >> ->
             EvictionBaseline(records[1])
        [] OTHER -> IF hits = << >> THEN "MissingEvidence" ELSE EvictionCandidate(hits[1])

\* ObservedKv*Comparison::candidate
OfPolicy(records, policy) == SelectSeq(records, LAMBDA r : r.outcome.policy = policy)

SelectionCandidateFor(records, policy) ==
  IF OfPolicy(records, policy) = << >> THEN "MissingPolicy"
  ELSE SelectionCandidate(OfPolicy(records, policy)[1])

PositionCandidateFor(records, policy) ==
  IF OfPolicy(records, policy) = << >> THEN "MissingPolicy"
  ELSE PositionCandidate(OfPolicy(records, policy)[1])

-----------------------------------------------------------------------------
(***************************************************************************)
(* A campaign: a preregistered experiment that measures several position   *)
(* selections of one input.  Its specification is validated before it is   *)
(* run (prospect-cli, kv_campaign_spec.rs); the pack that comes back, a    *)
(* manifest and one record per selection, is verified against the          *)
(* specification (prospect-kv-position-campaign).                          *)
(*                                                                         *)
(* A specification has the experiment's context and revision, as a record  *)
(* has them, the input and evaluation tokens, and a sequence of selections.*)
(* A digest is a record of what was digested.                              *)
(***************************************************************************)

Sha256(bytes) == [sha256 |-> bytes]

\* The trace a campaign evaluates, by its digest.
TraceDigest(campaign) ==
  Sha256([input |-> campaign.input, evaluation |-> campaign.evaluation])

FileName(index) == <<"selection", index>>

-----------------------------------------------------------------------------
(* kv_campaign_spec.rs                                                     *)

CampaignSpecErrors ==
  {"NonCanonical", "Json", "UnsupportedSchema", "InvalidField", "DuplicatePolicy",
   "PositionOutOfRange", "PositionsNotStrictlyIncreasing",
   "SelectionDuplicatesBaseline", "ByteAccountingOverflow"}

\* Fault: a policy may be named twice.
SelectionSpecErrorAlone(selections, i, inputLen) ==
  LET positions == selections[i].positions
  IN  FirstError(
        << <<selections[i].policy = Blank, "InvalidField">>,
           <<\E p \in Elements(positions) : p >= inputLen, "PositionOutOfRange">>,
           <<\E k \in 2..Len(positions) : positions[k] <= positions[k - 1],
             "PositionsNotStrictlyIncreasing">>,
           <<positions = [k \in 1..inputLen |-> k - 1], "SelectionDuplicatesBaseline">> >>)

SelectionSpecError(selections, i, inputLen) ==
  LET positions == selections[i].positions
      bad == {k \in DOMAIN positions :
                \/ positions[k] >= inputLen
                \/ k > 1 /\ positions[k] <= positions[k - 1]}
  IN  FirstError(
        << <<selections[i].policy = Blank, "InvalidField">>,
           <<\E j \in 1..(i - 1) : selections[j].policy = selections[i].policy,
             "DuplicatePolicy">>,
           <<bad # {} /\ positions[LowestOf(bad)] >= inputLen, "PositionOutOfRange">>,
           <<bad # {}, "PositionsNotStrictlyIncreasing">>,
           <<positions = [k \in 1..inputLen |-> k - 1], "SelectionDuplicatesBaseline">> >>)

CampaignSpecError(campaign) ==
  FirstOf(
    <<FirstError(
        << <<campaign.form = "noncanonical", "NonCanonical">>,
           <<campaign.form = "shape", "Json">>,
           <<campaign.form = "schema", "UnsupportedSchema">>,
           <<campaign.context = Blank, "InvalidField">>,
           <<campaign.revision = NotHex, "InvalidField">>,
           <<campaign.bytesPerToken = 0, "InvalidField">>,
           <<campaign.input = << >>, "InvalidField">>,
           <<campaign.evaluation = << >>, "InvalidField">>,
           <<campaign.selections = << >>, "InvalidField">> >>)>>
    \o [i \in DOMAIN campaign.selections |->
          SelectionSpecError(campaign.selections, i, Len(campaign.input))]
    \o <<IF Overflows(Len(campaign.input), campaign.bytesPerToken)
         THEN "ByteAccountingOverflow" ELSE NoError>>)

\* What the command prints of an accepted specification, per policy.
CampaignSpecSummary(campaign) ==
  [i \in DOMAIN campaign.selections |->
     LET kept == Len(campaign.selections[i].positions)
     IN  [policy |-> campaign.selections[i].policy,
          positions |-> campaign.selections[i].positions,
          retainedTokens |-> kept, evictedTokens |-> Len(campaign.input) - kept,
          retainedBytes |-> kept * campaign.bytesPerToken,
          evictedBytes |-> (Len(campaign.input) - kept) * campaign.bytesPerToken]]

-----------------------------------------------------------------------------
(* prospect-kv-position-campaign: VerifiedPositionCampaign::verify         *)

ManifestChecks(manifest) ==
  << <<manifest.form = "noncanonical", "NonCanonicalManifest">>,
     <<manifest.form = "shape", "Json">>,
     <<manifest.form = "schema", "UnsupportedManifestSchema">>,
     <<manifest.evidenceSchema # "v2", "UnsupportedEvidenceSchema">>,
     <<NotHex \in {manifest.campaignDigest, manifest.traceDigest}, "InvalidSha256">>,
     <<manifest.records = << >>, "EmptyRecords">> >>

CampaignChecks(manifest, campaign) ==
  << <<campaign.form = "noncanonical", "NonCanonicalCampaign">>,
     <<Sha256(campaign) # manifest.campaignDigest, "CampaignDigestMismatch">>,
     <<campaign.form = "shape", "Json">>,
     <<campaign.form = "schema", "UnsupportedCampaignSchema">>,
     <<Len(campaign.selections) # Len(manifest.records), "CampaignRecordCountMismatch">>,
     <<TraceDigest(campaign) # manifest.traceDigest, "TraceDigestMismatch">> >>

\* verify_raw_record: the record's own fields against the campaign.
RawRecordChecks(record, campaign, selection, manifest) ==
  << <<record.form = "schema", "EvidenceSchemaMismatch">>,
     <<record.trace # manifest.traceDigest, "EvidenceTraceMismatch">>,
     <<record.context # campaign.context \/ record.revision # campaign.revision,
       "EvidenceContextMismatch">>,
     <<\/ record.handoff.policy # selection.policy
       \/ record.handoff.retained # selection.positions
       \/ record.handoff.bytesPerToken # campaign.bytesPerToken
       \/ record.handoff.input # campaign.input, "EvidenceSelectionMismatch">> >>

\* The record the manifest lists at a place, and the file it names.
DescriptorChecks(manifest, campaign, files, i) ==
  LET descriptor == manifest.records[i]
  IN  << <<descriptor.index # i - 1, "RecordIndexMismatch">>,
         <<descriptor.filename # FileName(i - 1), "RecordFilenameMismatch">>,
         <<\E j \in 1..(i - 1) : manifest.records[j].policy = descriptor.policy,
           "DuplicatePolicy">>,
         <<descriptor.policy # campaign.selections[i].policy, "EvidencePolicyMismatch">>,
         <<descriptor.sha256 = NotHex, "InvalidSha256">>,
         <<descriptor.filename \notin DOMAIN files, "MissingFile">> >>

RecordPlaceError(manifest, campaign, files, i) ==
  LET descriptor == manifest.records[i]
      early  == FirstError(DescriptorChecks(manifest, campaign, files, i))
      record == files[descriptor.filename]
  IN  IF early # NoError THEN early
      ELSE FirstError(
             << <<Sha256(record) # descriptor.sha256, "RecordDigestMismatch">> >>
             \o RawRecordChecks(record, campaign, campaign.selections[i], manifest)
             \o << <<PositionRecordError(record) # NoError, "Evidence">> >>)

\* files is a function from file names to texts.
PackError(manifest, campaign, files) ==
  LET early   == FirstError(ManifestChecks(manifest) \o CampaignChecks(manifest, campaign))
      records == FirstOf([i \in DOMAIN manifest.records |->
                            RecordPlaceError(manifest, campaign, files, i)])
      names   == {manifest.records[i].filename : i \in DOMAIN manifest.records}
  IN  IF early # NoError THEN early
      ELSE IF records # NoError THEN records
      ELSE IF DOMAIN files \subseteq names THEN NoError ELSE "UnexpectedFile"

\* VerifiedPositionCampaign, with its records as they were read.
VerifiedPack(manifest, files) ==
  [campaignDigest |-> manifest.campaignDigest, traceDigest |-> manifest.traceDigest,
   policies |-> [i \in DOMAIN manifest.records |-> manifest.records[i].policy],
   records  |-> [i \in DOMAIN manifest.records |->
                   PositionRecord(files[manifest.records[i].filename])]]

\* prospect-cli, verify_kv_campaign_directory: the summary of a verified pack.
PackSummary(pack) ==
  [campaignDigest |-> pack.campaignDigest, traceDigest |-> pack.traceDigest,
   policies |-> pack.policies, recordCount |-> Len(pack.records),
   observations |-> [i \in DOMAIN pack.records |->
     LET record == pack.records[i]
     IN  [policy |-> record.outcome.policy, positions |-> record.outcome.positions,
          retainedBytes |-> record.outcome.retainedBytes,
          evictedBytes |-> record.outcome.evictedBytes,
          metrics |-> record.metrics]]]

-----------------------------------------------------------------------------
(* The pack an exporter returns for a specification, one record per        *)
(* selection, each with the metrics it observed.  (KVLab, external.)       *)

ExportedRecord(campaign, i, metrics) ==
  LET positions == campaign.selections[i].positions
      bpt       == campaign.bytesPerToken
      size      == Len(campaign.input)
  IN  [form |-> "good", context |-> campaign.context, revision |-> campaign.revision,
       trace |-> TraceDigest(campaign),
       handoff |-> [form |-> "good", policy |-> campaign.selections[i].policy,
                    input |-> campaign.input, bytesPerToken |-> bpt,
                    retained |-> positions,
                    evicted |-> SelectSeq([k \in 1..size |-> k - 1],
                                          LAMBDA p : p \notin Elements(positions)),
                    inputBytes |-> size * bpt, retainedBytes |-> Len(positions) * bpt,
                    evictedBytes |-> (size - Len(positions)) * bpt],
       baselineOutput |-> "hex", candidateOutput |-> "hex",
       baselineBytes |-> size * bpt, candidateBytes |-> Len(positions) * bpt,
       metrics |-> metrics]

ExportedFiles(campaign, metrics) ==
  [name \in {FileName(i - 1) : i \in DOMAIN campaign.selections} |->
     ExportedRecord(campaign, name[2] + 1, metrics[name[2] + 1])]

ExportedManifest(campaign, metrics) ==
  [form |-> "good", evidenceSchema |-> "v2", campaignDigest |-> Sha256(campaign),
   traceDigest |-> TraceDigest(campaign),
   records |-> [i \in DOMAIN campaign.selections |->
     [index |-> i - 1, policy |-> campaign.selections[i].policy,
      filename |-> FileName(i - 1),
      sha256 |-> Sha256(ExportedRecord(campaign, i, metrics[i]))]]]
=============================================================================
