---------------------------- MODULE KvDocuments ----------------------------
(***************************************************************************)
(* The KV documents under their readers.  An exporter writes a document    *)
(* from a cache, a policy and an observation, or FLAT from a router and a  *)
(* measurement; on the way up to MaxEdits of its fields are replaced;      *)
(* ProspectEngine reads what arrives.  Accepted records are held, in the   *)
(* order they arrive, for one comparison.                                  *)
(***************************************************************************)
EXTENDS FlatDocuments

CONSTANTS
  Inputs,          \* token sequences a cache may hold
  BytesPerToken,   \* what a token may cost
  Policies,        \* policy names, Blank among them
  Regions,         \* sequences of contributions a linear cache may have
  Observations,    \* <<candidate bytes kept, policy, baseline, candidate, delta, name order>>
  Routers,         \* states and distances FLAT may be given
  Measurements,    \* what an executed router may be measured to do
  FieldEdits(_, _),\* the documents one field away from a document of a kind
  Kinds,           \* the kinds of document of this instance
  MaxEdits, MaxHeld

VARIABLES
  kind,    \* what is being read
  text,    \* the document that arrived
  edits,   \* how often it was changed on the way
  held     \* the records accepted so far

vars == <<kind, text, edits, held>>

-----------------------------------------------------------------------------
(* What an exporter writes.                                                *)

Positions(input) == 0..(Len(input) - 1)

InOrder(positions) == SetToSortSeq(positions, LAMBDA a, b : a < b)

TokensOf(input, positions) ==
  [k \in DOMAIN InOrder(positions) |-> input[InOrder(positions)[k] + 1]]

Bytes(input, bpt, keep) ==
  [form |-> "good", input |-> input, bytesPerToken |-> bpt,
   inputBytes |-> Len(input) * bpt, retainedBytes |-> Cardinality(keep) * bpt,
   evictedBytes |-> (Len(input) - Cardinality(keep)) * bpt]

EvictionText(input, bpt, maxTokens) ==
  LET keep == {p \in Positions(input) : p + maxTokens >= Len(input)}
  IN  Bytes(input, bpt, keep) @@
        [order |-> "oldest_first", maxTokens |-> maxTokens,
         retained |-> TokensOf(input, keep),
         evicted |-> TokensOf(input, Positions(input) \ keep)]

SelectionText(input, bpt, policy, keep) ==
  Bytes(input, bpt, keep) @@
    [policy |-> policy, retained |-> TokensOf(input, keep),
     evicted |-> TokensOf(input, Positions(input) \ keep)]

PositionText(input, bpt, policy, keep) ==
  Bytes(input, bpt, keep) @@
    [policy |-> policy, retained |-> InOrder(keep),
     evicted |-> InOrder(Positions(input) \ keep)]

\* What a document says of a number that is not finite: there is no infinity in
\* JSON, and the largest number is as near as a document can come.
Written(x) == IF x = Infinite THEN MaxFloat ELSE x

\* A linear cache: token i of the input contributes regions[i].
EffectText(input, maxTokens, contributions) ==
  LET eviction == EvictionText(input, 1, maxTokens)
      regions  == [i \in DOMAIN input |->
                     [token |-> input[i], id |-> i, storage |-> 1,
                      contribution |-> contributions[i]]]
      replay   == ReplayEffect(regions, OldestFirst(input, 1, maxTokens))
  IN  [form |-> "good", trace |-> "trace", regions |-> regions, eviction |-> eviction,
       retainedIds |-> replay.retainedIds, evictedIds |-> replay.evictedIds,
       full |-> [k \in DOMAIN replay.full |-> Written(replay.full[k])],
       retained |-> [k \in DOMAIN replay.retained |-> Written(replay.retained[k])],
       delta |-> Written(replay.delta), evictedBytes |-> eviction.evictedBytes]

\* The five heuristics on that cache; the random one may keep anything that fits.
ResultText(policy, ids, bytes, effect) ==
  [policy |-> policy, retainedIds |-> ids, retainedBytes |-> bytes,
   unusedBytes |-> effect.eviction.outcome.retainedBytes - bytes,
   delta |-> Written(ResultDelta([retainedIds |-> ids], effect))]

ResultsText(randomIds, effect, budget) ==
  LET ids == <<effect.retainedIds, GreedyLru(effect.regions, budget),
               GreedyMagnitude(effect.regions, budget),
               GreedySensitivity(effect.regions, budget), randomIds>>
  IN  [i \in DOMAIN ids |->
         ResultText(PolicyOrder[i], ids[i],
                    ResultBytes([retainedIds |-> ids[i]], effect.regions), effect)]

HeuristicsTextOf(effectText, effect, results) ==
  [form |-> "good", effect |-> effectText, budget |-> effect.eviction.outcome.retainedBytes,
   results |-> results, best |-> BestPolicy(results, effect)]

HeuristicsText(effectText, randomIds) ==
  LET effect == Effect(effectText)
  IN  HeuristicsTextOf(effectText, effect,
        ResultsText(randomIds, effect, effect.eviction.outcome.retainedBytes))

\* A record of an observation: the last cells of the cache <<1, 2, 3>> are kept.
Metric(name, observation) ==
  [name |-> name, unit |-> "nats", kind |-> "quality", preference |-> "lower_is_better",
   baseline |-> observation.baseline, candidate |-> observation.candidate,
   delta |-> observation.delta]

RecordText(family, o) ==
  LET input == <<1, 2, 3>>
      keep  == {p \in Positions(input) : p + o.keep >= Len(input)}
      handoff == CASE family = "evictionRecord"  -> EvictionText(input, 1, o.keep)
                   [] family = "selectionRecord" -> SelectionText(input, 1, o.policy, keep)
                   [] family = "positionRecord"  -> PositionText(input, 1, o.policy, keep)
      plain == [baseline |-> 0, candidate |-> 0, delta |-> 0]
  IN  [form |-> "good", context |-> o.context, revision |-> "hex", trace |-> "hex",
       handoff |-> handoff, baselineOutput |-> "hex", candidateOutput |-> "hex",
       baselineBytes |-> 3, candidateBytes |-> o.keep,
       metrics |-> IF o.swapped THEN <<Metric(2, plain), Metric(1, o)>>
                   ELSE <<Metric(1, o), Metric(2, plain)>>]

\* A campaign of two selections of one input.
CampaignText(input, bpt, evaluation, keeps) ==
  [form |-> "good", context |-> "here", revision |-> "hex", bytesPerToken |-> bpt,
   input |-> input, evaluation |-> evaluation,
   selections |-> [i \in DOMAIN keeps |->
                     [policy |-> PolicyOrder[i], positions |-> InOrder(keeps[i])]]]

\* What the random heuristic may keep.
RandomIds == {<<1, 2>>, <<1, 3>>, <<3>>}

Families == {"evictionRecord", "selectionRecord", "positionRecord"}

\* The records several of which make one comparison.
ComparedKinds == Families \cup {"executed"}

ExportedRecords(k) ==
  IF k = "executed" THEN {ExecutedText(m) : m \in Measurements}
  ELSE {RecordText(k, o) : o \in Observations}

Exported(k) ==
  CASE k = "eviction" ->
         {EvictionText(i, b, n) : i \in Inputs, b \in BytesPerToken, n \in 0..3}
    [] k = "selection" ->
         UNION {{SelectionText(i, b, p, keep) : b \in BytesPerToken, p \in Policies,
                   keep \in SUBSET Positions(i)} : i \in Inputs}
    [] k = "position" ->
         UNION {{PositionText(i, b, p, keep) : b \in BytesPerToken, p \in Policies,
                   keep \in SUBSET Positions(i)} : i \in Inputs}
    [] k = "effect" ->
         {EffectText(<<2, 1, 3>>, n, c) : n \in 1..3, c \in Regions}
    [] k = "heuristics" ->
         UNION {{HeuristicsText(EffectText(<<2, 1, 3>>, n, c), r) :
                   c \in Regions, r \in {ids \in RandomIds : Len(ids) <= n}} : n \in 1..3}
    [] k = "campaign" ->
         UNION {{CampaignText(i, b, <<1>>, <<one, two>>) : b \in BytesPerToken,
                   one, two \in SUBSET Positions(i)} : i \in Inputs}
    [] k = "bikvHandoff" -> {BikvHandoffText(r.state, r.distance) : r \in Routers}
    [] k = "routing" ->
         UNION {{CaptureRouting("run", r.state, mode) : mode \in {Dense, Hamming(r.distance)}} :
                  r \in Routers}
    [] k \in ComparedKinds -> ExportedRecords(k)

Handoffs == {"eviction", "selection", "position"}

HandoffError(k, t) ==
  CASE k = "eviction"  -> EvictionError(t)
    [] k = "selection" -> SelectionError(t)
    [] k = "position"  -> PositionError(t)

RecordErrorOf(k, t) ==
  CASE k = "executed"        -> ExecutedError(t)
    [] k = "evictionRecord"  -> EvictionRecordError(t)
    [] k = "selectionRecord" -> SelectionRecordError(t)
    [] k = "positionRecord"  -> PositionRecordError(t)

ErrorOf(k, t) ==
  CASE k \in Handoffs        -> HandoffError(k, t)
    [] k = "effect"          -> EffectError(t)
    [] k = "heuristics"      -> ComparisonError(t)
    [] k = "campaign"        -> CampaignSpecError(t)
    [] k = "bikvHandoff"     -> BikvHandoffError(t)
    [] k = "routing"         -> RoutingError(t)
    [] k \in ComparedKinds   -> RecordErrorOf(k, t)

ErrorsOf(k) ==
  CASE k = "eviction"   -> EvictionErrors
    [] k = "selection"  -> SelectionErrors
    [] k = "position"   -> PositionErrors
    [] k = "effect"     -> EffectErrors
    [] k = "heuristics" -> ComparisonErrors
    [] k = "campaign"   -> CampaignSpecErrors
    [] k = "bikvHandoff" -> BikvHandoffErrors
    [] k = "routing"    -> RoutingErrors
    [] k = "executed"   -> ExecutedErrors
    [] k \in Families   -> RecordErrors

AcceptedHandoff(k, t) == HandoffError(k, t) = NoError

-----------------------------------------------------------------------------
Init ==
  /\ kind \in Kinds
  /\ text \in Exported(kind)
  /\ edits = 0
  /\ held = << >>

\* One field is replaced between the exporter and the reader.
Edit ==
  /\ edits < MaxEdits
  /\ held = << >>
  /\ text' \in FieldEdits(kind, text)
  /\ edits' = edits + 1
  /\ UNCHANGED <<kind, held>>

\* An accepted record joins the comparison, and the next one arrives; a record
\* that was changed on its way is judged alone.
Hold ==
  /\ kind \in ComparedKinds
  /\ edits = 0
  /\ Len(held) < MaxHeld
  /\ RecordErrorOf(kind, text) = NoError
  /\ held' = Append(held, CASE kind = "evictionRecord"  -> EvictionRecord(text)
                            [] kind = "selectionRecord" -> SelectionRecord(text)
                            [] kind = "positionRecord"  -> PositionRecord(text)
                            [] kind = "executed"        -> text)
  /\ text' \in ExportedRecords(kind)
  /\ UNCHANGED <<kind, edits>>

Next == Edit \/ Hold

Spec == Init /\ [][Next]_vars

-----------------------------------------------------------------------------
(* Properties.                                                             *)

\* Every verdict on a document is an acceptance or an error its reader declares;
\* what is held was accepted unchanged.
TypeOK ==
  /\ kind \in Kinds
  /\ ErrorOf(kind, text) \in ErrorsOf(kind) \cup {NoError}
  /\ edits \in 0..MaxEdits
  /\ Len(held) <= MaxHeld /\ (held # << >> => edits = 0)

\* What a document must be to have been exported at all.
Exportable(k, t) ==
  /\ t.form = "good" /\ t.input # << >> /\ t.bytesPerToken > 0
  /\ Len(t.input) * t.bytesPerToken <= MaxWord
  /\ CASE k = "eviction" ->
            /\ Distinct(t.input) /\ t.maxTokens > 0
            /\ t = EvictionText(t.input, t.bytesPerToken, t.maxTokens)
       [] k = "selection" ->
            /\ Distinct(t.input) /\ t.policy # Blank
            /\ \E keep \in SUBSET Positions(t.input) :
                 t = SelectionText(t.input, t.bytesPerToken, t.policy, keep)
       [] k = "position" ->
            /\ t.policy # Blank
            /\ \E keep \in SUBSET Positions(t.input) :
                 t = PositionText(t.input, t.bytesPerToken, t.policy, keep)

\* The same hand-off told by positions, or by token ids.
AsPositions(t) ==
  LET At(tokens) == InOrder({p \in Positions(t.input) : t.input[p + 1] \in Elements(tokens)})
  IN  [t EXCEPT !.retained = At(t.retained), !.evicted = At(t.evicted)]

AsTokens(t) ==
  [t EXCEPT !.retained = [i \in DOMAIN t.retained |-> t.input[t.retained[i] + 1]],
            !.evicted = [i \in DOMAIN t.evicted |-> t.input[t.evicted[i] + 1]]]

AsSelection(t) ==
  [f \in DOMAIN t \ {"order", "maxTokens"} |-> t[f]] @@ [policy |-> "oldest_first"]

\* The three formats agree: an accepted eviction of a cache that is not empty
\* is an accepted selection, an accepted selection is an accepted selection by
\* positions, and one by positions over distinct tokens is one by tokens.
FormatsAgree ==
  /\ kind = "eviction" /\ text.input # << >> => SelectionError(AsSelection(text)) = NoError
  /\ kind = "selection" => PositionError(AsPositions(text)) = NoError
  /\ kind = "position" /\ Distinct(text.input) => SelectionError(AsTokens(text)) = NoError

\* A reader of a hand-off accepts exactly the documents an exporter can have
\* written for some cache and some set of kept positions, in whatever field a
\* document was changed (KvlabKvEvictionHandoffV1, KvlabKvSelectionHandoffV1
\* and KvlabKvPositionHandoffV2::from_canonical_json); only the eviction reader
\* accepts an empty cache.  The three formats agree on what was kept.  A router
\* KVLab hands over and one a run recorded admit the pages their distance admits,
\* whichever of the two is read.  And whatever is refused, of these and the other
\* documents, is refused with an error its reader declares.
HandoffsAreReplayed ==
  /\ TypeOK
  /\ kind = "bikvHandoff" => BikvHandoffIsReplayed(text)
  /\ kind = "routing" => RoutingIsReplayed(text)
  /\ kind \in Handoffs =>
    /\ IF text.input = << >>
       THEN AcceptedHandoff(kind, text) => kind = "eviction" /\ text.retainedBytes = 0
       ELSE AcceptedHandoff(kind, text) <=> Exportable(kind, text)
    /\ AcceptedHandoff(kind, text) => FormatsAgree
    /\ kind = "eviction" /\ EvictionError(text) = NoError =>
         (text.evicted # << >> <=> RetentionError(text.input, <<text.maxTokens>>) = NoError)

\* The squared norm of what these regions contribute together, without rounding.
WeightOf(regions) ==
  IF regions = << >> THEN 0
  ELSE LET Total(k) == TotalOf([i \in DOMAIN regions |-> regions[i].contribution[k]])
       IN  TotalOf([k \in DOMAIN regions[1].contribution |-> Total(k) * Total(k)])

\* An accepted effect states, within the tolerance, and keeps, exactly, the
\* distance between the full cache and the retained one, which is the weight of
\* what was evicted; and it binds the regions to the tokens of the eviction.
EffectIsWhatWasEvicted ==
  kind = "effect" /\ EffectError(text) = NoError =>
    LET kept == Effect(text)
        gone == SelectSeq(text.regions, LAMBDA r : r.token \in Elements(text.eviction.evicted))
    IN  /\ kept.signature.delta = WeightOf(gone)
        /\ Near(text.delta, WeightOf(gone))
        /\ Elements(kept.retainedIds) \cup Elements(kept.evictedIds)
             = Elements(IdsOf(text.regions))
        /\ Len(kept.retainedIds) + Len(kept.evictedIds) = Len(text.regions)
        /\ EffectModelError(<<kept>>) = NoError
        /\ EffectModelError(<<kept, kept>>) = "DuplicateOutcome"
        /\ EffectFor(<<kept>>, kept.eviction) = kept.signature

\* What result i of a comparison of heuristics loses: the weight of the regions
\* it does not keep.
Lost(i) ==
  WeightOf(SelectSeq(text.effect.regions,
                     LAMBDA r : r.id \notin Elements(text.results[i].retainedIds)))

\* The regions result i keeps, added up in its order, pass the largest number on
\* the way, whatever their sum.
SumsOverflow(i) ==
  \E k \in DOMAIN text.effect.full, n \in DOMAIN text.results[i].retainedIds :
    LET Part(ids) == [j \in DOMAIN ids |->
          (CHOOSE r \in Elements(text.effect.regions) : r.id = ids[j]).contribution[k]]
    IN  Magnitude(TotalOf(Part(SubSeq(text.results[i].retainedIds, 1, n)))) > MaxFloat

\* An accepted comparison of heuristics names a policy that loses no more than
\* any whose distance is finite, by what its regions really contribute; a distance
\* that is kept is that loss, and the stated one near it, unless it overflowed.
\* Because every region costs the same, least-recently-used keeps what
\* oldest-first keeps, and as its name comes first, oldest-first is never the
\* best policy.
BestPolicyIsBest ==
  kind = "heuristics" /\ ComparisonError(text) = NoError =>
    LET kept    == Comparison(text, Effect(text.effect)).results
        Finite  == {i \in 1..5 : kept[i].delta # Infinite}
        best    == CHOOSE i \in 1..5 : text.results[i].policy = text.best
    IN  /\ {1, best} \subseteq Finite
        /\ \A i \in Finite : /\ kept[i].delta = Lost(i)
                             /\ Near(text.results[i].delta, Lost(i))
                             /\ Lost(best) <= Lost(i)
        /\ \A i \in (1..5) \ Finite : Lost(i) > MaxFloat \/ SumsOverflow(i)
        /\ \A i \in 1..5 : text.results[i].retainedBytes <= text.budget
        /\ text.results[2].retainedIds = text.results[1].retainedIds
        /\ text.best # "oldest_first"

\* An effect, and the comparison of heuristics made of such effects, are what
\* follows from their regions; an executed router's accounting is what follows
\* from some selection of its pages, and its decision from its gates and medians
\* (FlatBikvExecutedEvidenceV1::from_canonical_json).
EffectsAreRecomputed ==
  /\ EffectIsWhatWasEvicted
  /\ BestPolicyIsBest
  /\ kind = "executed" =>
       /\ edits = 0 => ExecutedError(text) = NoError
       /\ ExecutionIsPossible(text)

\* The two readers of a campaign agree: the pack exported for a specification
\* that the command line validates is verified, with the positions and bytes the
\* command announced; and a verified pack's specification is one the command line validates, but for the two things only
\* the command line asks: that no selection is the whole cache and that there is
\* something to evaluate.
SpecAndPackAgree ==
  kind = "campaign" =>
    LET plain == <<[Metric(1, [baseline |-> 0, candidate |-> 0, delta |-> 0])
                      EXCEPT !.unit = "bits"]>>
        observed == [i \in DOMAIN text.selections |-> plain]
        verified == PackError(ExportedManifest(text, observed), text,
                              ExportedFiles(text, observed)) = NoError
        pack == PackSummary(VerifiedPack(ExportedManifest(text, observed),
                                         ExportedFiles(text, observed)))
    IN  /\ CampaignSpecError(text) = NoError => verified
        /\ CampaignSpecError(text) = NoError =>
             \A i \in DOMAIN text.selections :
               LET announced == CampaignSpecSummary(text)[i]
                   reported  == pack.observations[i]
               IN  /\ announced.policy = reported.policy
                   /\ announced.positions = reported.positions
                   /\ announced.retainedBytes = reported.retainedBytes
                   /\ announced.evictedBytes = reported.evictedBytes
        /\ verified => \/ CampaignSpecError(text) = NoError
                       \/ text.evaluation = << >>
                       \/ CampaignSpecError(text) = "SelectionDuplicatesBaseline"

\* The verdict on the records held, in this order or another.
VerdictOn(records) ==
  CASE kind = "evictionRecord"  -> EvictionModelError(records)
    [] kind = "selectionRecord" -> SelectionComparisonError(records)
    [] kind = "positionRecord"  -> PositionComparisonError(records)

ComparedWith(i, j) ==
  /\ SameSetting(held[i], held[j])
  /\ Len(held[i].metrics) = Len(held[j].metrics)
  /\ \A m \in DOMAIN held[i].metrics :
       /\ held[i].metrics[m].name = held[j].metrics[m].name
       /\ Magnitude(held[i].metrics[m].baseline - held[j].metrics[m].baseline)
            <= 2 * Tolerance

\* A comparison by positions, which wants equal bits and sorts its metrics, is
\* accepted in every order of its records, and its baseline says the same in
\* every order, but for the fingerprint: that is the first record's, so that the
\* whole baseline is another one whenever another record comes first.  The
\* campaign suite reads the records in the order of their files.
OrderIsIrrelevant ==
  LET Turned(k) == [i \in DOMAIN held |-> held[((i + k) % Len(held)) + 1]]
  IN  \A k \in DOMAIN held :
        /\ (PositionComparisonError(Turned(k)) = NoError)
             <=> (PositionComparisonError(held) = NoError)
        /\ PositionComparisonError(held) = NoError =>
             LET first == PositionBaseline(held[1])
                 other == PositionBaseline(Turned(k)[1])
             IN  /\ [other EXCEPT !.fingerprint = first.fingerprint] = first
                 /\ other = first <=> Turned(k) = held

\* Records that were accepted for one comparison are comparable pairwise, not
\* only with the first: one setting and the same metrics, baselines at most two
\* tolerances apart; a policy answers with its own record, which its name and
\* fingerprint in the answer tell, at the common budget,
\* and the full cache of an eviction is answered by the baseline, even when a
\* record of the same outcome is held.  By positions, the order of the records
\* does not matter; nor in a sweep of an executed router, whose best record is the
\* one that took the smallest part of the dense median it was paired with.
ComparisonIsFair ==
  /\ kind = "executed" => SweepIsFair(held)
  /\ kind = "positionRecord" /\ held # << >> => OrderIsIrrelevant
  /\ kind \in Families /\ held # << >> /\ VerdictOn(held) = NoError =>
       /\ \A i, j \in DOMAIN held : ComparedWith(i, j)
       /\ kind # "evictionRecord" =>
            \A i \in DOMAIN held :
              /\ held[i].candidateBytes = held[1].candidateBytes
              /\ kind = "selectionRecord" =>
                   SelectionCandidateFor(held, held[i].outcome.policy)
                     = SelectionCandidate(held[i])
              /\ kind = "positionRecord" =>
                   PositionCandidateFor(held, held[i].outcome.policy)
                     = PositionCandidate(held[i])
       /\ kind = "evictionRecord" =>
            \A i \in DOMAIN held :
              EvaluateEviction(held, held[i].state, held[i].outcome)
                = IF held[i].outcome.evicted = << >> THEN EvictionBaseline(held[1])
                  ELSE EvictionCandidate(held[i])

\* An accepted metric's delta is its candidate minus its baseline, as the reader's
\* MetricDeltaMismatch has it: "observed metric {name} delta is inconsistent".
DeltaIsTheDifference ==
  kind \in Families /\ RecordErrorOf(kind, text) = NoError =>
    \A i \in DOMAIN text.metrics :
      Near(text.metrics[i].delta, text.metrics[i].candidate - text.metrics[i].baseline)
=============================================================================
