------------------------------ MODULE Evidence ------------------------------
(***************************************************************************)
(* What becomes of a completed batch, and how it is recorded.  A batch is  *)
(* scored against its baseline and ranked by a policy; or batches of       *)
(* several traces are aligned into one matrix of scores; or a constrained  *)
(* decision set is formed.  Each is captured as evidence, written as JSON  *)
(* and read back, by readers that do not trust the text: what was decided  *)
(* is decided again from the recorded alternatives.  On its way a text may *)
(* be changed up to MaxEdits times.                                        *)
(***************************************************************************)
EXTENDS DecisionSet, Contracts

CONSTANTS
  ScenarioLists,  \* lists of [id, intervention] that may be evaluated
  Engines,        \* [baseline, evaluate], one for each traced state
  Failure,        \* what an engine answers when it fails
  TraceIds,       \* trace ids
  Runs,           \* run ids
  SourceLists,    \* lists of sources a caller may present, a source being
                  \* its place in their order, from 1
  Metrics,        \* metric ids, Blank among them
  Edits(_),       \* the texts one edit away from a text
  MaxTraces, MaxEdits

VARIABLES
  kind,      \* the kind of evidence captured, or NoValue
  origin,    \* history: the batches it was captured from
  captured,  \* the evidence as captured, or NoValue
  refused,   \* why it was not captured
  document,  \* its text
  edits      \* how often the text was changed

evidence == <<kind, origin, captured, refused, document, edits>>
all == <<vars, evidence>>

----------------------------------------------------------------------------
(* Batches without control, as Contracts has them: a metric that tells all *)
(* pairs apart, and a policy whose score of a signature is the signature.  *)

Evaluated(engine, scenarios) == EvaluateBatch(engine, scenarios, Failure)
Scored(result) == ScoreAgainstBaseline(result, <<>>)
Best(result) ==
  BestByPolicy([i \in DOMAIN result.outcomes |-> result.outcomes[i].signature])

----------------------------------------------------------------------------
(* Multi-trace batches.                                                    *)

IdsOf(result) == [i \in DOMAIN result.outcomes |-> result.outcomes[i].scenario.id]
InterventionsOf(result) ==
  [i \in DOMAIN result.outcomes |-> result.outcomes[i].scenario.intervention]

(* The first index at which two sequences of one length differ, 0 for none. *)
FirstDifference(left, right) ==
  LET differing == { i \in DOMAIN left : left[i] # right[i] }
  IN  IF differing = {} THEN 0 ELSE CHOOSE i \in differing : \A j \in differing : i <= j

(* A trace against the first one: ids, then interventions, index by index. *)
AlignmentError(first, result) ==
  IF result.outcomes = <<>> THEN "EmptyScenarioSet"
  ELSE IF Len(result.outcomes) # Len(first.outcomes) THEN "ScenarioCountMismatch"
  ELSE LET ids == FirstDifference(IdsOf(result), IdsOf(first))
           interventions == FirstDifference(InterventionsOf(result), InterventionsOf(first))
       IN  IF ids # 0 /\ (interventions = 0 \/ ids <= interventions) THEN "ScenarioIdMismatch"
           ELSE IF interventions # 0 THEN "InterventionMismatch"
           ELSE NoError

(* Fault: the interventions are not compared.                              *)
MultiTraceErrorById(traces) ==
  IF traces = <<>> THEN "EmptyTraceSet"
  ELSE IF \E t \in DOMAIN traces : IdsOf(traces[t].batch) # IdsOf(traces[1].batch)
  THEN "ScenarioIdMismatch" ELSE NoError

(* MultiTraceBatch::new: what it refuses.                                  *)
MultiTraceError(traces) ==
  IF traces = <<>> THEN "EmptyTraceSet"
  ELSE IF traces[1].batch.outcomes = <<>> THEN "EmptyScenarioSet"
  ELSE LET Identity(t) ==
             IF \E u \in 1 .. t - 1 : traces[u].trace = traces[t].trace THEN "DuplicateTraceId"
             ELSE IF ~Distinct(IdsOf(traces[t].batch)) THEN "DuplicateScenarioId"
             ELSE NoError
       IN  FirstOf([t \in DOMAIN traces |-> Identity(t)]
                     \o [t \in DOMAIN traces |->
                           AlignmentError(traces[1].batch, traces[t].batch)])

(* score_matrix: every trace against its own baseline.                     *)
ScoreMatrix(traces) ==
  [ids |-> IdsOf(traces[1].batch),
   traces |-> [t \in DOMAIN traces |->
                 [trace |-> traces[t].trace, scores |-> Scored(traces[t].batch)]]]

----------------------------------------------------------------------------
(* Sources.  0 is a source with a blank component, revision or hash, which *)
(* no EvidenceSource is; a text may hold one.                              *)

Sorted(sources) == SortSeq(sources, LAMBDA x, y : x < y)

SourcesError(sources) ==
  FirstError(<< <<sources = <<>>, "EmptySources">>,
                <<~Distinct(sources), "DuplicateSource">> >>)

HeadChecks(text) ==
  << <<text.form = "shape", "Json">>,
     <<text.form = "schema", "UnsupportedSchema">>,
     <<text.run = Blank, "EmptyRunId">>,
     <<0 \in Elements(text.sources), "EmptySource">> >>

NotCanonical(text) == text.form = "noncanonical" \/ text.sources # Sorted(text.sources)

----------------------------------------------------------------------------
(* DecisionEvidence: scores and the selected scenario.                     *)

CandidateIds(text) == { text.candidates[i].id : i \in DOMAIN text.candidates }

(* Fault: candidates are kept by id, the last one winning.                 *)
ScoresErrorOverwrites(text) ==
  FirstError(<< <<text.sources = <<>>, "EmptySources">>,
                <<~Distinct(text.sources), "DuplicateSource">>,
                <<text.selected \notin CandidateIds(text) \cup {NoValue}, "UnknownSelection">> >>)

(* from_scores: what it refuses.                                           *)
ScoresError(text) ==
  FirstError(<< <<text.sources = <<>>, "EmptySources">>,
                <<~Distinct(text.sources), "DuplicateSource">>,
                <<~Distinct([i \in DOMAIN text.candidates |-> text.candidates[i].id]),
                  "DuplicateScenario">>,
                <<text.selected \notin CandidateIds(text) \cup {NoValue}, "UnknownSelection">> >>)

(* from_scores: what it keeps, whatever the order it was given.            *)
ScoresOf(text) ==
  [text EXCEPT !.form = "good", !.sources = Sorted(@),
               !.candidates = SortSeq(@, LAMBDA x, y : x.id < y.id)]

(* DecisionEvidence::from_canonical_json: unknown fields, another order    *)
(* and other white space are accepted.                                     *)
ReadScoresError(text) ==
  FirstOf(<< FirstError(HeadChecks(text)),
             IF Blank \in CandidateIds(text) \cup {text.selected}
             THEN "InvalidScenarioId" ELSE NoError,
             ScoresError(text) >>)

----------------------------------------------------------------------------
(* MultiTraceScoreEvidence.                                                *)

(* One row: its trace id, its length, its ids.                             *)
RowError(text, t) ==
  LET row == text.traces[t] IN
    IF \E u \in 1 .. t - 1 : text.traces[u].trace = row.trace THEN "DuplicateTraceId"
    ELSE IF Len(row.scores) # Len(text.ids) THEN "TraceScoreCountMismatch"
    ELSE IF \E i \in DOMAIN row.scores : row.scores[i].id # text.ids[i]
    THEN "TraceScenarioMismatch" ELSE NoError

(* MultiTraceScoreEvidence::validate.                                      *)
MatrixError(text) ==
  FirstOf(<< FirstError(<< <<text.metric = Blank, "EmptyMetricId">>,
                           <<text.ids = <<>>, "EmptyScenarioSet">>,
                           <<text.traces = <<>>, "EmptyTraceSet">>,
                           <<~Distinct(text.ids), "DuplicateScenarioId">> >>) >>
            \o [t \in DOMAIN text.traces |-> RowError(text, t)])

(* MultiTraceScoreEvidence::from_canonical_json.                           *)
ReadMatrixError(text) ==
  FirstOf(<< FirstError(HeadChecks(text)), SourcesError(text.sources) >>
            \o << IF Blank \in Elements(text.ids) THEN "InvalidScenarioId" ELSE NoError >>
            \o [t \in DOMAIN text.traces |->
                  IF text.traces[t].trace = Blank THEN "InvalidTraceId"
                  ELSE IF \E i \in DOMAIN text.traces[t].scores :
                            text.traces[t].scores[i].id = Blank
                  THEN "InvalidScenarioId" ELSE NoError]
            \o << MatrixError(text), IF NotCanonical(text) THEN "NonCanonical" ELSE NoError >>)

----------------------------------------------------------------------------
(* ConstrainedDecisionEvidence, which decides again: its comparisons are   *)
(* its own, in another crate than those of DecisionSet.                    *)

Given(text) ==
  SelectSeq([i \in DOMAIN text.alternatives |-> i],
            LAMBDA i : text.alternatives[i].objectives # NoValue)
VectorIn(text, i) == text.alternatives[i].objectives

EvidencePreferred(left, right) ==
  IF left.direction = "Maximize" THEN Cmp(left.value, right.value)
  ELSE Cmp(right.value, left.value)

(* compare_vectors: the order of the first pair that is not equal.         *)
EvidenceOrder(left, right) ==
  FoldLeft(LAMBDA order, i : IF order = "Equal" THEN EvidencePreferred(left[i], right[i])
                             ELSE order,
           "Equal", [i \in DOMAIN left |-> i])

EvidenceDominates(left, right) ==
  /\ \A i \in DOMAIN left : EvidencePreferred(left[i], right[i]) # "Less"
  /\ \E i \in DOMAIN left : EvidencePreferred(left[i], right[i]) = "Greater"

(* lexicographic_best: a position, 0 for None.                             *)
RecomputedBest(text) ==
  FoldLeft(LAMBDA found, i :
             IF found = 0 \/ EvidenceOrder(VectorIn(text, i), VectorIn(text, found)) = "Greater"
             THEN i ELSE found,
           0, Given(text))

(* pareto_front, in the order of the alternatives.                         *)
RecomputedFront(text) ==
  SelectSeq(Given(text),
    LAMBDA i : ~\E j \in Elements(Given(text)) \ {i} :
                  EvidenceDominates(VectorIn(text, j), VectorIn(text, i)))

IdAt(text, i) == IF i = 0 THEN NoValue ELSE text.alternatives[i].id
AlternativeIds(text) == { text.alternatives[i].id : i \in DOMAIN text.alternatives }

(* One alternative: its id, then its vector.                               *)
AlternativeError(text, i) ==
  LET vector == VectorIn(text, i)
      defects == { k \in DOMAIN vector : vector[k].id = Blank \/ RepeatsId(vector, k) }
  IN  IF \E j \in 1 .. i - 1 : text.alternatives[j].id = text.alternatives[i].id
      THEN "DuplicateAlternative"
      ELSE IF vector = NoValue THEN NoError
      ELSE IF vector = <<>> THEN "EmptyObjectiveVector"
      ELSE IF defects # {}
      THEN IF vector[CHOOSE k \in defects : \A m \in defects : k <= m].id = Blank
           THEN "EmptyObjectiveId" ELSE "DuplicateObjectiveId"
      ELSE IF SchemaOf(vector) # SchemaOf(VectorIn(text, Head(Given(text))))
      THEN "ObjectiveSchemaMismatch"
      ELSE NoError

SelectionError(text) ==
  IF text.selected = IdAt(text, RecomputedBest(text)) THEN NoError
  ELSE IF text.selected \in AlternativeIds(text) \cup {NoValue}
  THEN "LexicographicSelectionMismatch" ELSE "UnknownLexicographicSelection"

(* Fault: the front is compared as a set.                                  *)
FrontErrorUnordered(text) ==
  IF Elements(text.front)
       = { IdAt(text, i) : i \in Elements(RecomputedFront(text)) }
  THEN NoError ELSE "ParetoFrontMismatch"

FrontError(text) ==
  FirstOf([i \in DOMAIN text.front |->
             IF \E j \in 1 .. i - 1 : text.front[j] = text.front[i]
             THEN "DuplicateParetoAlternative"
             ELSE IF text.front[i] \notin AlternativeIds(text)
             THEN "UnknownParetoAlternative" ELSE NoError]
          \o << IF text.front = [i \in DOMAIN RecomputedFront(text) |->
                                   IdAt(text, RecomputedFront(text)[i])]
                THEN NoError ELSE "ParetoFrontMismatch" >>)

(* ConstrainedDecisionEvidence::validate; vectors are compared only once   *)
(* they are known to fit.                                                  *)
DecisionError(text) ==
  IF text.alternatives = <<>> THEN "EmptyAlternatives"
  ELSE IF text.alternatives[1].id # Baseline THEN "BaselineMustBeFirst"
  ELSE LET alternative == FirstOf([i \in DOMAIN text.alternatives |-> AlternativeError(text, i)])
       IN  IF alternative # NoError THEN alternative
           ELSE FirstOf(<<SelectionError(text), FrontError(text)>>)

(* ConstrainedDecisionEvidence::from_canonical_json.                       *)
ReadDecisionError(text) ==
  FirstOf(<< FirstError(HeadChecks(text)), SourcesError(text.sources),
             IF Blank \in AlternativeIds(text) \cup {text.selected} \cup Elements(text.front)
             THEN "InvalidScenarioId" ELSE NoError,
             DecisionError(text),
             IF NotCanonical(text) THEN "NonCanonical" ELSE NoError >>)

----------------------------------------------------------------------------
(* Reading, whatever the kind, and comparing with a replay.                *)

ReadError(text) ==
  CASE kind = "scores"   -> ReadScoresError(text)
    [] kind = "matrix"   -> ReadMatrixError(text)
    [] kind = "decision" -> ReadDecisionError(text)

(* The evidence a text is read as.                                         *)
ReadAs(text) == IF kind = "scores" THEN ScoresOf(text) ELSE text

(* verify_replay: the fields it compares; the run id is not among them.    *)
Replayed(read, replayed) ==
  \A field \in (DOMAIN replayed) \ {"form", "run"} : read[field] = replayed[field]

----------------------------------------------------------------------------
(* Steps.                                                                  *)

EvidenceInit ==
  /\ Init
  /\ kind = NoValue /\ origin = <<>> /\ captured = NoValue /\ refused = NoError
  /\ document = NoValue /\ edits = 0

(* A capture that fails leaves an error and no text.                       *)
Record(kind_, results, text, error_) ==
  /\ kind' = kind_ /\ origin' = results
  /\ refused' = error_
  /\ captured' = IF error_ = NoError THEN text ELSE NoValue
  /\ document' = captured'
  /\ UNCHANGED <<edits, vars>>

Decide == kind = NoValue /\ (Next /\ UNCHANGED evidence)

(* evaluate_batch, score_against_baseline, best_by_policy, from_scores.    *)
CaptureScores ==
  /\ kind = NoValue /\ pc = "admit"
  /\ \E engine \in Engines, scenarios \in ScenarioLists, sources \in SourceLists, run \in Runs :
       LET result == Evaluated(engine, scenarios)
           found == Best(result)
           text == [form |-> "good", run |-> run, sources |-> sources,
                    candidates |-> Scored(result),
                    selected |-> IF found = 0 THEN NoValue
                                 ELSE result.outcomes[found].scenario.id]
       IN  /\ batch = [i \in DOMAIN scenarios |-> scenarios[i].id]
           /\ result # Failure
           /\ Record("scores", <<result>>, ScoresOf(text), ScoresError(text))

(* Batches of several traces: the batch of this behaviour and others, each *)
(* evaluated on its own state.                                             *)
TraceBatches ==
  { Evaluated(engine, scenarios) : engine \in Engines, scenarios \in ScenarioLists }
    \ {Failure}

TraceLists ==
  UNION { [1 .. n -> [trace : TraceIds, batch : TraceBatches]] : n \in 0 .. MaxTraces }

(* MultiTraceBatch::new, score_matrix, from_matrix.                        *)
CaptureMatrix ==
  /\ kind = NoValue /\ pc = "admit"
  /\ \E traces \in TraceLists, metric \in Metrics, sources \in SourceLists, run \in Runs :
       /\ traces # <<>> => IdsOf(traces[1].batch) = batch
       /\ LET alignment == MultiTraceError(traces)
              matrix == ScoreMatrix(traces)
              text == [form |-> "good", run |-> run, sources |-> Sorted(sources),
                       metric |-> metric, ids |-> matrix.ids, traces |-> matrix.traces]
          IN  IF alignment # NoError
              THEN Record("matrix", [t \in DOMAIN traces |-> traces[t].batch], NoValue, alignment)
              ELSE Record("matrix", [t \in DOMAIN traces |-> traces[t].batch], text,
                          FirstOf(<<SourcesError(sources), MatrixError(text)>>))

(* ConstrainedDecisionEvidence::from_decision_set.                         *)
CaptureDecision ==
  /\ kind = NoValue /\ pc = "done"
  /\ \E sources \in SourceLists, run \in Runs :
       LET front == SetToSortSeq(ParetoFront, <)
           text == [form |-> "good", run |-> run, sources |-> Sorted(sources),
                    alternatives |-> alternatives,
                    selected |-> IF best = 0 THEN NoValue ELSE alternatives[best].id,
                    front |-> [i \in DOMAIN front |-> alternatives[front[i]].id]]
       IN  Record("decision", <<>>, text, FirstOf(<<SourcesError(sources), DecisionError(text)>>))

(* Something on the way changes the text.                                  *)
Alter ==
  /\ document # NoValue /\ edits < MaxEdits
  /\ document' \in Edits(document)
  /\ edits' = edits + 1
  /\ UNCHANGED <<kind, origin, captured, refused, vars>>

Rest == kind # NoValue /\ UNCHANGED all

EvidenceNext == Decide \/ CaptureScores \/ CaptureMatrix \/ CaptureDecision \/ Alter \/ Rest

EvidenceSpec == EvidenceInit /\ [][EvidenceNext]_all

----------------------------------------------------------------------------
(* Properties.                                                             *)

Accepted == document # NoValue /\ ReadError(document) = NoError
Untouched == document # NoValue /\ edits = 0

(* An accepted text that a replay confirms is the captured evidence, under *)
(* whatever run id.                                                        *)
ReplayConfirms ==
  Accepted /\ Replayed(ReadAs(document), captured) =>
    ReadAs(document) = [captured EXCEPT !.run = document.run]

PositionOf(id) ==
  IF id = NoValue THEN 0
  ELSE CHOOSE i \in DOMAIN document.alternatives : document.alternatives[i].id = id

(* The decision set that an accepted text records.                         *)
Recorded == INSTANCE DecisionSet WITH
  pc <- "done", alternatives <- document.alternatives, best <- PositionOf(document.selected)

(* Evidence of a constrained decision is a decision, whoever wrote it: its *)
(* alternatives are comparable, its selection and its front are those the  *)
(* decision set makes of them, in its order.  What was captured from a     *)
(* decision set, by the code of the other crate, is always accepted.       *)
DecisionIsRecomputed ==
  kind = "decision" =>
    /\ refused \in {NoError, "EmptySources", "DuplicateSource"}
    /\ Untouched => Accepted
    /\ Accepted =>
         /\ Recorded!Comparable
         /\ Recorded!SelectionIsEarliestBest
         /\ Elements(document.front)
              = { document.alternatives[i].id : i \in Recorded!ParetoFront }
         /\ \A i, j \in DOMAIN document.front : i < j =>
              PositionOf(document.front[i]) < PositionOf(document.front[j])
    /\ ReplayConfirms

(* A matrix compares like with like: every accepted row has the same       *)
(* distinct scenarios in the same order, no trace is there twice; and at   *)
(* capture each score was taken against the baseline of its own trace, of  *)
(* scenarios that did the same in every trace.                             *)
TracesAreAligned ==
  kind = "matrix" =>
    /\ Untouched =>
         /\ Accepted
         /\ \A t \in DOMAIN origin, i \in DOMAIN document.ids :
              /\ origin[t].outcomes[i].scenario = origin[1].outcomes[i].scenario
              /\ document.traces[t].scores[i]
                   = [id |-> origin[t].outcomes[i].scenario.id,
                      score |-> <<origin[t].baseline, origin[t].outcomes[i].signature>>]
    /\ Accepted =>
         /\ Cardinality(Elements(document.ids)) = Len(document.ids)
         /\ Cardinality({ row.trace : row \in Elements(document.traces) })
              = Len(document.traces)
         /\ \A row \in Elements(document.traces) :
              [i \in DOMAIN row.scores |-> row.scores[i].id] = document.ids
    /\ ReplayConfirms

(* Scores are accounted for: a batch that repeats an id, which is evaluated *)
(* without complaint, never becomes evidence; otherwise every outcome has  *)
(* its score, and the selected scenario is the earliest of the best.  The  *)
(* order in which a text lists sources and candidates changes nothing.     *)
ScoresAreAccountedFor ==
  kind = "scores" =>
    /\ document # NoValue => ~Repeated
    /\ Untouched =>
         /\ Accepted /\ ReadAs(document) = document
         /\ { <<c.id, c.score[2]>> : c \in Elements(document.candidates) }
              = { <<o.scenario.id, o.signature>> : o \in Elements(origin[1].outcomes) }
         /\ Len(document.candidates) = Len(batch)
         /\ document.selected = NoValue <=> batch = <<>>
         /\ \A i, j \in DOMAIN batch : batch[i] = document.selected =>
              LET s(k) == origin[1].outcomes[k].signature
              IN  s(j) <= s(i) /\ (j < i => s(j) < s(i))
    /\ Accepted => document.selected \in CandidateIds(document) \cup {NoValue}
    /\ ReplayConfirms
=============================================================================
