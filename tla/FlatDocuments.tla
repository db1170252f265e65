---------------------------- MODULE FlatDocuments ----------------------------
(***************************************************************************)
(* prospect-flat: which pages of a cache a Boolean attention router admits,*)
(* as KVLab hands it over (kvlab_handoff.rs) and as a run records it       *)
(* (routing_evidence.rs), and what an executed router was measured to do   *)
(* (bikv_executed_evidence.rs), by itself and in a sweep over thresholds   *)
(* (bikv_sweep.rs).                                                        *)
(*                                                                         *)
(* A signature of so many bits is the set of its one bits, counted from 0, *)
(* NotHex when its text is no word; a mask is the set of admitted pages.   *)
(* A checksum is a record of what was summed; its text is NotHex when it   *)
(* is no checksum, Unknown when it is one of another algorithm.            *)
(***************************************************************************)
EXTENDS KvObserved

CONSTANT Unknown

-----------------------------------------------------------------------------
(* lib.rs and scenarios.rs: the state, its masks, its scenarios.           *)

\* FLAT refuses a signature without bits or with a one beyond them.
SignatureError(bits, ones) ==
  FirstError(<< <<ones = NotHex, "InvalidHexWord">>,
                <<bits = 0, "Contract">>,
                <<ones # NotHex /\ ~(ones \subseteq 0..(bits - 1)), "Contract">> >>)
StateError(state) ==
  FirstOf(<< SignatureError(state.bits, state.query),
             FirstOf([i \in DOMAIN state.keys |-> SignatureError(state.bits, state.keys[i])]),
             FirstError(<< <<state.keys = << >>, "Contract">> >>) >>)

Distance(a, b) == Cardinality((a \ b) \cup (b \ a))
HammingError(state, distance) == FirstError(<< <<distance > state.bits, "Contract">> >>)
DenseMask(state) == 0..(Len(state.keys) - 1)
HammingMask(state, distance) ==
  {page \in DenseMask(state) : Distance(state.query, state.keys[page + 1]) <= distance}

\* One scenario per threshold, in ascending order.
ThresholdsError(state, thresholds) ==
  FirstOf(<< FirstError(<< <<thresholds = << >>, "EmptyThresholds">>,
                           <<~Distinct(thresholds), "DuplicateThreshold">> >>),
             FirstOf([i \in DOMAIN thresholds |-> HammingError(state, thresholds[i])]) >>)
ThresholdScenarios(thresholds) ==
  [i \in DOMAIN thresholds |-> SetToSortSeq(Elements(thresholds), <)[i]]

-----------------------------------------------------------------------------
(* kvlab_handoff.rs                                                        *)

BikvHandoffErrors ==
  {"NonCanonicalJson", "Json", "UnsupportedSchema", "InvalidHexWord", "Contract",
   "AdmittedPagesMismatch"}
Ascending(pages) == SetToSortSeq(pages, <)
BikvHandoffError(text) ==
  LET state == text.state
  IN  FirstOf(<< FirstError(FormChecks(text)), StateError(state),
                 HammingError(state, text.distance),
                 IF StateError(state) = NoError
                    /\ text.admitted # Ascending(HammingMask(state, text.distance))
                 THEN "AdmittedPagesMismatch" ELSE NoError >>)

-----------------------------------------------------------------------------
(* routing_evidence.rs: a mask told three times, and how it was derived.   *)

Dense == [kind |-> "dense"]
Hamming(distance) == [kind |-> "hamming", distance |-> distance]
ModeError(state, mode) ==
  IF mode.kind = "dense" THEN NoError ELSE HammingError(state, mode.distance)
DeriveMask(state, mode) ==
  IF mode.kind = "dense" THEN DenseMask(state) ELSE HammingMask(state, mode.distance)

\* BooleanAttentionMask::physical_bytes: words of 64 pages.
PhysicalBytes(state) == 8 * ((Len(state.keys) + 63) \div 64)

CaptureRouting(run, state, mode) ==
  LET mask == DeriveMask(state, mode)
  IN  [form |-> "good", run |-> run, revision |-> "pinned", state |-> state, mode |-> mode,
       mask |-> mask, admitted |-> Ascending(mask), bytes |-> PhysicalBytes(state)]

RoutingErrors ==
  {"Json", "UnsupportedSchema", "FlatRevisionMismatch", "Evidence", "Contract",
   "DerivedMaskMismatch"}
\* The words are JSON numbers, and any spelling of the document is read.
RoutingError(text) ==
  LET expected == CaptureRouting(text.run, text.state, text.mode)
      derived == StateError(text.state) = NoError /\ ModeError(text.state, text.mode) = NoError
  IN  FirstOf(
        << FirstError(<< <<text.form = "shape", "Json">>,
                         <<text.form = "schema", "UnsupportedSchema">>,
                         <<text.revision # "pinned", "FlatRevisionMismatch">>,
                         <<text.run = Blank, "Evidence">> >>),
           StateError(text.state), ModeError(text.state, text.mode),
           IF /\ derived
              /\ \/ text.mask # expected.mask \/ text.admitted # expected.admitted
                 \/ text.bytes # expected.bytes
           THEN "DerivedMaskMismatch" ELSE NoError >>)

-----------------------------------------------------------------------------
(* bikv_executed_evidence.rs                                               *)

ExecutedErrors ==
  {"Json", "UnsupportedSchema", "UnsupportedChecksumAlgorithm", "InvalidChecksumEncoding",
   "EvidenceChecksumMismatch", "CandidateChecksumMismatch", "DenseChecksumMismatch",
   "InvalidCommitSha", "EmptyField", "InvalidProblem", "ProvenanceMismatch",
   "DuplicateBenchmarkId", "InvalidSelection", "InvalidScope", "InvalidAccounting",
   "InvalidPhaseMedians", "InvalidGates", "InvalidPromotionDecision"}

Fnv(content) == [fnv |-> content]
SumTextError(sum) ==
  FirstError(<< <<sum = Unknown, "UnsupportedChecksumAlgorithm">>,
                <<sum = NotHex, "InvalidChecksumEncoding">> >>)

\* Everything in the text before its own checksum, the last field, as it is spelled.
Payload(text) == [f \in DOMAIN text \ {"sum"} |-> text[f]]
Seal(text) == [text EXCEPT !.sum = Fnv(Payload(text))]

BenchmarkError(manifest, mismatch) ==
  LET problem == manifest.problem
      result == manifest.result
  IN  FirstOf(
        << FirstError(
             << <<manifest.commit = NotHex, "InvalidCommitSha">>,
                <<Blank \in {manifest.id, manifest.environment}, "EmptyField">>,
                <<0 \in {problem.qHeads, problem.kvHeads, problem.kvLen, problem.headDim},
                  "InvalidProblem">>,
                <<problem.kvHeads > 0 /\ problem.qHeads % problem.kvHeads # 0, "InvalidProblem">>,
                <<manifest.iterations = 0, "InvalidProblem">>,
                <<result.p95 < result.median, "InvalidProblem">>,
                <<result.median = 0, "InvalidProblem">> >>),
           SumTextError(manifest.sum),
           IF manifest.sum # Fnv(result) THEN mismatch ELSE NoError >>)

PairError(candidate, dense) ==
  FirstError(
    << <<\/ candidate.commit # dense.commit \/ candidate.environment # dense.environment
         \/ candidate.problem # dense.problem \/ candidate.iterations # dense.iterations,
         "ProvenanceMismatch">>,
       <<candidate.id = dense.id, "DuplicateBenchmarkId">> >>)

BytesPerCell(a) == 2 * a.kvHeads * a.headDim * a.scalarBytes

\* The last page may be partly filled, and a selection may or may not hold it.
SelectedTokens(a) ==
  LET last == IF a.live % a.page = 0 THEN a.page ELSE a.live % a.page
  IN  IF a.selectedPages = 0 THEN {0}
      ELSE {a.selectedPages * a.page, (a.selectedPages - 1) * a.page + last}

AccountingError(a, problem) ==
  LET given == 0 \notin {a.live, a.pages, a.page, a.kvHeads, a.headDim, a.scalarBytes}
      derived ==
        [perToken |-> BytesPerCell(a), dense |-> a.live * BytesPerCell(a),
         selected |-> a.selected * BytesPerCell(a),
         avoided |-> (a.live - a.selected) * BytesPerCell(a)]
      Wrong ==
        \/ a.live # problem.kvLen \/ a.kvHeads # problem.kvHeads \/ a.headDim # problem.headDim
        \/ a.selectedPages > a.pages \/ a.selected > a.live \/ a.index = 0
        \/ a.live + a.page - 1 > MaxWord
        \/ a.pages # (a.live + a.page - 1) \div a.page
        \/ a.selected \notin SelectedTokens(a)
        \/ a.selectedPages * a.page > MaxWord
        \/ derived.dense > MaxWord
        \/ a.bytes # derived
  IN  IF given /\ ~Wrong THEN NoError ELSE "InvalidAccounting"

PhaseError(phases, denseMedian) ==
  LET sum == TotalOf(phases.parts)
  IN  FirstError(<< <<\/ phases.dense # denseMedian \/ sum > MaxWord
                      \/ sum = 0 \/ sum # phases.sum, "InvalidPhaseMedians">> >>)

ExpectedDecision(gates, candidate, dense) ==
  CASE ~gates.correctness -> "fallback_correctness_gate"
    [] gates.correctness /\ ~gates.quality -> "fallback_quality_gate"
    [] gates.correctness /\ gates.quality /\ candidate >= dense -> "fallback_no_latency_win"
    [] OTHER -> "promote"

RouterChecks(text) ==
  << <<\/ text.bits = 0 \/ text.distance > text.bits \/ text.policy = Blank,
       "InvalidSelection">>,
     <<\/ text.scope.timing = Blank
       \/ text.scope.mirrored /\ text.scope.residentOnly, "InvalidScope">> >>

\* The phases are a diagnosis; the decision is about the two medians end to end.
ExecutedError(text) ==
  LET candidate == text.candidate
      dense == text.dense
  IN  FirstOf(
        << FirstError(<< <<text.form = "shape", "Json">> >>),
           SumTextError(text.sum),
           FirstError(<< <<text.sum # Fnv(Payload(text)), "EvidenceChecksumMismatch">>,
                         <<text.form = "schema", "UnsupportedSchema">> >>),
           BenchmarkError(candidate, "CandidateChecksumMismatch"),
           BenchmarkError(dense, "DenseChecksumMismatch"),
           PairError(candidate, dense),
           FirstError(RouterChecks(text)),
           AccountingError(text.accounting, candidate.problem),
           PhaseError(text.phases, dense.result.median),
           FirstError(
             << <<text.gates.correctness # (text.gates.dense /\ text.gates.sparse), "InvalidGates">>,
                <<text.decision # ExpectedDecision(text.gates, candidate.result.median,
                                                   dense.result.median),
                  "InvalidPromotionDecision">> >>) >>)

-----------------------------------------------------------------------------
(* bikv_sweep.rs: records of one experiment at several thresholds.         *)

ComparisonKey(text) ==
  [commit |-> text.candidate.commit, ids |-> <<text.candidate.id, text.dense.id>>,
   environment |-> text.candidate.environment, problem |-> text.candidate.problem,
   iterations |-> text.candidate.iterations, bits |-> text.bits, policy |-> text.policy,
   scope |-> text.scope]

SweepError(texts) ==
  FirstError(
    << <<texts = << >>, "Empty">>,
       <<\E i \in DOMAIN texts : ComparisonKey(texts[i]) # ComparisonKey(texts[1]),
         "ComparisonMismatch">>,
       <<~Distinct([i \in DOMAIN texts |-> texts[i].distance]), "DuplicateThreshold">> >>)

Sweep(texts) == SortSeq(texts, LAMBDA a, b : a.distance < b.distance)

\* Medians of separate runs are compared relative to the dense median of their run.
RelativelyFaster(a, b) ==
  LET left == a.candidate.result.median * b.dense.result.median
      right == b.candidate.result.median * a.dense.result.median
  IN  \/ left < right
      \/ left = right /\ a.candidate.result.median < b.candidate.result.median
      \/ /\ left = right /\ a.candidate.result.median = b.candidate.result.median
         /\ a.distance < b.distance

\* The best record that may be promoted, when there is one: none, or one record.
BestPromotableLatency(sweep) ==
  LET promoted == SelectSeq(sweep, LAMBDA text : text.decision = "promote")
      Faster(best, text) == IF RelativelyFaster(text, best) THEN text ELSE best
  IN  IF promoted = << >> THEN << >> ELSE <<FoldLeft(Faster, promoted[1], promoted)>>

RecordForThreshold(sweep, threshold) ==
  SelectSeq(sweep, LAMBDA text : text.distance = threshold)

-----------------------------------------------------------------------------
(* What KVLab and FLAT write.                                              *)

BikvHandoffText(state, distance) ==
  [form |-> "good", state |-> state, distance |-> distance,
   admitted |-> Ascending(HammingMask(state, distance))]

\* The tokens of the pages of a cache of so many live tokens.
TokensOnPages(live, page, pages) ==
  {t \in 0..(live - 1) : (t \div page) \in pages}

\* A measurement: what was selected, how long both took, and what was checked.
ExecutedText(m) ==
  LET problem == [qHeads |-> 2, kvHeads |-> 1, kvLen |-> m.live, headDim |-> 1]
      Manifest(id, median) ==
        [commit |-> "hex", id |-> id, environment |-> m.environment, problem |-> problem,
         iterations |-> 3, result |-> [median |-> median, p95 |-> median + 1],
         sum |-> Fnv([median |-> median, p95 |-> median + 1])]
      kept == Cardinality(TokensOnPages(m.live, m.page, m.pages))
      gates == [dense |-> TRUE, sparse |-> m.correct, correctness |-> m.correct,
                quality |-> m.quality]
  IN  Seal([form |-> "good", candidate |-> Manifest("candidate", m.candidate),
            dense |-> Manifest("dense", m.dense),
            bits |-> 4, distance |-> m.distance, policy |-> "hamming",
            scope |-> [timing |-> "host", mirrored |-> TRUE, residentOnly |-> FALSE],
            accounting |->
              [live |-> m.live, selected |-> kept, pages |-> (m.live + m.page - 1) \div m.page,
               selectedPages |-> Cardinality(m.pages), page |-> m.page, kvHeads |-> 1,
               headDim |-> 1, scalarBytes |-> 1, index |-> 1,
               bytes |-> [perToken |-> 2, dense |-> 2 * m.live, selected |-> 2 * kept,
                          avoided |-> 2 * (m.live - kept)]],
            phases |-> [parts |-> <<1, 1, m.candidate, 0>>, dense |-> m.dense,
                        sum |-> m.candidate + 2],
            gates |-> gates,
            decision |-> IF ~m.correct THEN "fallback_correctness_gate"
                         ELSE IF ~m.quality THEN "fallback_quality_gate"
                         ELSE IF m.candidate >= m.dense THEN "fallback_no_latency_win"
                         ELSE "promote",
            sum |-> NotHex])

-----------------------------------------------------------------------------
(* What the readers must make of it.                                       *)

\* An accepted hand-off admits the pages near the query and no others; the routing
\* evidence captured of it is accepted and admits the same; wider thresholds admit
\* more, up to the dense mask at the full width.
BikvHandoffIsReplayed(text) ==
  BikvHandoffError(text) = NoError =>
    LET state == text.state
        captured == CaptureRouting("run", state, Hamming(text.distance))
        thresholds == Reverse([d \in 1..(state.bits + 1) |-> d - 1])
        scenarios == ThresholdScenarios(thresholds)
    IN  /\ \A page \in DenseMask(state) :
             page \in Elements(text.admitted) <=>
               Cardinality({b \in 0..(state.bits - 1) :
                              (b \in state.query) # (b \in state.keys[page + 1])}) <= text.distance
        /\ RoutingError(captured) = NoError
        /\ captured.admitted = text.admitted
        /\ ThresholdsError(state, thresholds) = NoError
        /\ \A i \in 1..(Len(scenarios) - 1) :
             HammingMask(state, scenarios[i]) \subseteq HammingMask(state, scenarios[i + 1])
        /\ HammingMask(state, scenarios[Len(scenarios)]) = DenseMask(state)

\* Routing evidence is accepted exactly when a capture could have made it.
RoutingIsReplayed(text) ==
  RoutingError(text) = NoError <=>
    /\ text.form \in {"good", "noncanonical"} /\ text.run # Blank
    /\ StateError(text.state) = NoError
    /\ text.mode.kind = "hamming" => text.mode.distance \in 0..text.state.bits
    /\ [text EXCEPT !.form = "good"] = CaptureRouting(text.run, text.state, text.mode)

\* An accepted execution could have happened: some pages of the cache hold as many
\* live tokens as were selected, all other bytes were avoided, and what is promoted
\* passed every gate and was faster, end to end, than the dense run of the same cache.
ExecutionIsPossible(text) ==
  ExecutedError(text) = NoError =>
    LET a == text.accounting
        candidate == text.candidate.result.median
    IN  /\ \E pages \in SUBSET (0..(a.pages - 1)) :
             /\ Cardinality(pages) = a.selectedPages
             /\ Cardinality(TokensOnPages(a.live, a.page, pages)) = a.selected
        /\ a.bytes.selected + a.bytes.avoided = a.bytes.dense
        /\ text.decision = "promote" <=>
             /\ text.gates.dense /\ text.gates.sparse /\ text.gates.quality
             /\ candidate < text.dense.result.median
        /\ text.dense.result.median = text.phases.dense
        /\ a.live = text.dense.problem.kvLen

\* A sweep is the same in whatever order its records come; its best record may be
\* promoted, and no other that may took a smaller part of its own dense median.
SweepIsFair(texts) ==
  LET sweep == Sweep(texts)
      best == BestPromotableLatency(sweep)
      Turned(k) == [i \in DOMAIN texts |-> texts[((i + k) % Len(texts)) + 1]]
      promoted == {i \in DOMAIN texts : texts[i].decision = "promote"}
  IN  /\ \A k \in DOMAIN texts :
           /\ (SweepError(Turned(k)) = NoError) <=> (SweepError(texts) = NoError)
           /\ SweepError(texts) = NoError =>
                /\ Sweep(Turned(k)) = sweep
                /\ RecordForThreshold(sweep, texts[k].distance) = <<texts[k]>>
      /\ SweepError(texts) = NoError =>
           /\ best = << >> <=> promoted = {}
           /\ \A i \in promoted :
                best[1].candidate.result.median * texts[i].dense.result.median
                  <= texts[i].candidate.result.median * best[1].dense.result.median
           /\ best # << >> => best[1].candidate.result.median < best[1].dense.result.median
=============================================================================
