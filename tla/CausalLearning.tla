--------------------------- MODULE CausalLearning ---------------------------
(***************************************************************************)
(* Causal identification and learning of prospect-commercial-advanced.     *)
(* causal.rs: directed graphs, the backdoor criterion by the moral graph,  *)
(* canonical and minimal adjustment sets; causal_advanced.rs: front doors  *)
(* and instruments; the integer part of learning.rs: smoothing, doubly     *)
(* robust effects and policy values, the value of information.             *)
(*                                                                         *)
(* A question about a graph is [kind, nodes, edges, ...]; variables are    *)
(* 1..nodes, edges a sequence of pairs <<from, to>>.  The fingerprint of a *)
(* graph and the wording of a certificate are left out.  Coefficients,     *)
(* propensities, priors and likelihoods are integers out of Scale; levels  *)
(* and trends are kept multiplied by Scale, as in the code.                *)
(***************************************************************************)
EXTENDS Checks

CONSTANT Scale   \* PROBABILITY_SCALE_PPM

Nodes(q) == 1..q.nodes
Arcs(q) == Elements(q.edges)
Backwards(arcs) == {<<arc[2], arc[1]>> : arc \in arcs}
Children(arcs, node) == {child \in {arc[2] : arc \in arcs} : <<node, child>> \in arcs}
Parents(arcs, node) == Children(Backwards(arcs), node)

\* Everything a search along the arcs visits from where it starts.
RECURSIVE Visited(_, _)
Visited(from, arcs) ==
  LET reached == from \cup {arc[2] : arc \in {a \in arcs : a[1] \in from}}
  IN  IF reached = from THEN from ELSE Visited(reached, arcs)
Descendants(arcs, node) == Visited(Children(arcs, node), arcs)

\* Kahn's algorithm: nodes without parents among those left are taken away.
RECURSIVE Cyclic(_, _)
Cyclic(nodes, arcs) ==
  LET free == {node \in nodes : Parents(arcs, node) \cap nodes = {}}
  IN  IF free = {} THEN nodes # {} ELSE Cyclic(nodes \ free, arcs)

EdgeError(q, k) ==
  LET edge == q.edges[k]
  IN  FirstError(<< <<edge[1] \notin Nodes(q) \/ edge[2] \notin Nodes(q), "UnknownVariable">>,
                    <<edge[1] = edge[2], "SelfEdge">>,
                    <<\E earlier \in 1..(k - 1) : q.edges[earlier] = edge, "DuplicateEdge">> >>)
GraphError(q) ==
  IF q.nodes = 0 THEN "EmptyGraph"
  ELSE LET wrong == FirstOf([k \in DOMAIN q.edges |-> EdgeError(q, k)])
       IN  IF wrong # NoError THEN wrong
           ELSE IF Cyclic(Nodes(q), Arcs(q)) THEN "CyclicGraph" ELSE NoError

\* The adjustment is looked at in increasing order, repetitions first.
QueryError(q, treatment, outcome, adjustment) ==
  LET order == SetToSortSeq(Elements(adjustment), <)
  IN  FirstOf(
    << FirstError(<< <<{treatment, outcome} \ Nodes(q) # {}, "UnknownVariable">>,
                     <<treatment = outcome, "SameEndpoint">>,
                     <<~Distinct(adjustment), "DuplicateAdjustmentVariable">> >>) >>
      \o [k \in DOMAIN order |->
           FirstError(<< <<order[k] \notin Nodes(q), "UnknownVariable">>,
                         <<order[k] \in {treatment, outcome}, "AdjustmentContainsEndpoint">> >>)])

-----------------------------------------------------------------------------
(* Separation of two variables by the moral graph of their ancestors, once *)
(* the arcs out of one of them are cut.                                    *)
WithoutOutgoing(arcs, node) == {arc \in arcs : arc[1] # node}
\* Fault: the parents of a common child are not joined.
MoralUnmarried(arcs, ancestral) ==
  LET kept == {arc \in arcs : arc[2] \in ancestral}
  IN  kept \cup Backwards(kept)

Moral(arcs, ancestral) ==
  LET kept == {arc \in arcs : arc[2] \in ancestral}
      married == {pair \in ancestral \X ancestral :
                   /\ pair[1] # pair[2]
                   /\ \E child \in ancestral :
                        <<pair[1], child>> \in kept /\ <<pair[2], child>> \in kept}
  IN  kept \cup Backwards(kept) \cup married
DSeparatedMoral(arcs, left, right, conditioned, cut) ==
  LET effective == WithoutOutgoing(arcs, cut)
      ancestral == Visited({left, right} \cup conditioned, Backwards(effective))
      open == {arc \in Moral(effective, ancestral) : arc[2] \notin conditioned}
  IN  right \notin Visited({left}, open)

Satisfied == "Satisfied"
Backdoor(arcs, treatment, outcome, adjustment) ==
  IF adjustment \cap Descendants(arcs, treatment) # {} THEN "ContainsDescendantOfTreatment"
  ELSE IF DSeparatedMoral(arcs, treatment, outcome, adjustment, treatment)
  THEN Satisfied ELSE "UnblockedBackdoorPath"

\* Smaller sets first, then in the order of their elements; a set with an accepted
\* part is not tried.
MinimalAdjustmentSets(q) ==
  LET candidates == Nodes(q) \ (Descendants(Arcs(q), q.treatment) \cup {q.treatment, q.outcome})
      tried == {z \in SUBSET candidates : Cardinality(z) <= q.maximum}
      Earlier(y, z) ==
        \/ Cardinality(y) < Cardinality(z)
        \/ /\ Cardinality(y) = Cardinality(z)
           /\ LexBefore(SetToSortSeq(y, <), SetToSortSeq(z, <))
      Accept(accepted, z) ==
        IF /\ \A existing \in Elements(accepted) : ~(existing \subseteq z)
           /\ Backdoor(Arcs(q), q.treatment, q.outcome, z) = Satisfied
        THEN Append(accepted, z) ELSE accepted
  IN  FoldLeft(Accept, << >>, SetToSortSeq(tried, Earlier))

-----------------------------------------------------------------------------
(* Front doors and instruments.                                            *)
NoNode == 0
DirectedPath(arcs, source, target, excluded) ==
  /\ excluded \notin {source, target}
  /\ target \in Visited({source}, {arc \in arcs : arc[2] # excluded})

FrontDoor(q) ==
  LET arcs == Arcs(q)
      verdict == FirstError(
        << <<~DirectedPath(arcs, q.treatment, q.mediator, NoNode), "MediatorNotDownstreamOfTreatment">>,
           <<~DirectedPath(arcs, q.mediator, q.outcome, NoNode), "OutcomeNotDownstreamOfMediator">>,
           <<DirectedPath(arcs, q.treatment, q.outcome, q.mediator),
             "DirectedTreatmentOutcomePathBypassesMediator">>,
           <<Backdoor(arcs, q.treatment, q.mediator, {}) # Satisfied, "TreatmentMediatorBackdoorOpen">>,
           <<Backdoor(arcs, q.mediator, q.outcome, {q.treatment}) # Satisfied,
             "MediatorOutcomeBackdoorNotBlockedByTreatment">> >>)
  IN  IF verdict = NoError THEN Satisfied ELSE verdict

Instrument(q) ==
  LET arcs == Arcs(q)
      verdict == FirstError(
        << <<~DirectedPath(arcs, q.instrument, q.treatment, NoNode), "NoDirectedInstrumentTreatmentPath">>,
           <<~DirectedPath(arcs, q.treatment, q.outcome, NoNode), "NoDirectedTreatmentOutcomePath">>,
           <<DirectedPath(arcs, q.instrument, q.outcome, q.treatment), "ExclusionRestrictionViolated">>,
           <<Backdoor(arcs, q.instrument, q.outcome, Elements(q.adjustment)) # Satisfied,
             "InstrumentOutcomeBackdoorOpen">> >>)
  IN  IF verdict = NoError THEN Satisfied ELSE verdict

DistinctError(q, variables) ==
  FirstError(<< <<Elements(variables) \ Nodes(q) # {}, "UnknownVariable">>,
                <<~Distinct(variables), "SameVariable">> >>)
InstrumentAdjustmentError(q) ==
  LET order == SetToSortSeq(Elements(q.adjustment), <)
  IN  FirstOf([k \in DOMAIN order |->
        FirstError(<< <<order[k] \notin Nodes(q), "UnknownVariable">>,
                      <<order[k] \in {q.instrument, q.treatment, q.outcome},
                        "AdjustmentContainsEndpoint">> >>)])

-----------------------------------------------------------------------------
Identifications == {"backdoor", "adjustments", "front_door", "instrument"}
IdentificationError(q) ==
  IF GraphError(q) # NoError THEN GraphError(q)
  ELSE CASE q.kind = "backdoor" -> QueryError(q, q.treatment, q.outcome, q.adjustment)
         [] q.kind = "adjustments" ->
              FirstOf(<<QueryError(q, q.treatment, q.outcome, << >>),
                        FirstError(<< <<q.outcome \in Parents(Arcs(q), q.treatment),
                                        "OutcomeIsParentOfTreatment">> >>)>>)
         [] q.kind = "front_door" -> DistinctError(q, <<q.treatment, q.mediator, q.outcome>>)
         [] q.kind = "instrument" ->
              FirstOf(<<DistinctError(q, <<q.instrument, q.treatment, q.outcome>>),
                        InstrumentAdjustmentError(q)>>)
Identify(q) ==
  CASE q.kind = "backdoor" ->
         [verdict |-> Backdoor(Arcs(q), q.treatment, q.outcome, Elements(q.adjustment))]
    [] q.kind = "adjustments" ->
         [canonical |-> Parents(Arcs(q), q.treatment), minimal |-> MinimalAdjustmentSets(q)]
    [] q.kind = "front_door" -> [verdict |-> FrontDoor(q)]
    [] q.kind = "instrument" -> [verdict |-> Instrument(q)]

-----------------------------------------------------------------------------
(* The definitions of the literature, path by path.                        *)
SimplePaths(arcs, from, to) ==
  LET nodes == {arc[1] : arc \in arcs} \cup {arc[2] : arc \in arcs} \cup {from, to}
      Joined(a, b) == <<a, b>> \in arcs \/ <<b, a>> \in arcs
  IN  {path \in UNION {{<<from>> \o middle \o <<to>> : middle \in SetToSeqs(between)} :
                        between \in SUBSET (nodes \ {from, to})} :
        \A k \in 1..(Len(path) - 1) : Joined(path[k], path[k + 1])}
\* A collider blocks a path unless it or a descendant is conditioned on; any other
\* inner variable blocks it when it is conditioned on.
Blocked(arcs, path, conditioned) ==
  \E k \in 2..(Len(path) - 1) :
    IF <<path[k - 1], path[k]>> \in arcs /\ <<path[k + 1], path[k]>> \in arcs
    THEN ({path[k]} \cup Descendants(arcs, path[k])) \cap conditioned = {}
    ELSE path[k] \in conditioned
BackdoorsBlocked(arcs, from, to, conditioned) ==
  \A path \in SimplePaths(arcs, from, to) :
    <<path[2], from>> \in arcs => Blocked(arcs, path, conditioned)
Admissible(arcs, treatment, outcome, adjustment) ==
  /\ adjustment \cap Descendants(arcs, treatment) = {}
  /\ BackdoorsBlocked(arcs, treatment, outcome, adjustment)
DirectedPaths(arcs, from, to) ==
  {path \in SimplePaths(arcs, from, to) :
    \A k \in 1..(Len(path) - 1) : <<path[k], path[k + 1]>> \in arcs}

\* Every verdict is that of the path-by-path definition.  An accepted instrument is
\* adjusted for nothing downstream of the treatment, and is separated from the
\* outcome once the treatment no longer acts; the parents of the treatment always
\* do as an adjustment, and every set that does contains one of the minimal ones.
IdentificationJustified(q, a) ==
  LET arcs == Arcs(q)
  IN  CASE q.kind = "backdoor" ->
             a.verdict = Satisfied <=>
               Admissible(arcs, q.treatment, q.outcome, Elements(q.adjustment))
        [] q.kind = "adjustments" ->
             /\ Admissible(arcs, q.treatment, q.outcome, a.canonical)
             /\ \A z \in SUBSET (Nodes(q) \ {q.treatment, q.outcome}) :
                  Cardinality(z) <= q.maximum =>
                    (z \in Elements(a.minimal) <=>
                      /\ Admissible(arcs, q.treatment, q.outcome, z)
                      /\ \A part \in SUBSET z \ {z} : ~Admissible(arcs, q.treatment, q.outcome, part))
        [] q.kind = "front_door" ->
             a.verdict = Satisfied <=>
               /\ DirectedPaths(arcs, q.treatment, q.outcome) # {}
               /\ \A path \in DirectedPaths(arcs, q.treatment, q.outcome) : q.mediator \in Elements(path)
               /\ BackdoorsBlocked(arcs, q.treatment, q.mediator, {})
               /\ BackdoorsBlocked(arcs, q.mediator, q.outcome, {q.treatment})
        [] q.kind = "instrument" ->
             a.verdict = Satisfied =>
               /\ Elements(q.adjustment) \cap Descendants(arcs, q.treatment) = {}
               /\ DirectedPaths(arcs, q.instrument, q.treatment) # {}
               /\ LET cut == WithoutOutgoing(arcs, q.treatment)
                  IN  \A path \in SimplePaths(cut, q.instrument, q.outcome) :
                        Blocked(cut, path, Elements(q.adjustment))

-----------------------------------------------------------------------------
(* Learning: forecasts.                                                    *)
SmoothingError(q) ==
  FirstError(<< <<q.alpha > Scale \/ q.beta > Scale, "InvalidSmoothingPpm">>,
                <<q.series = << >>, "EmptySeries">> >>)
Smooth(q) ==
  Truncated(FoldLeft(LAMBDA level, observed :
                       observed * q.alpha + Truncated(level * (Scale - q.alpha), Scale),
                     q.series[1] * Scale, Tail(q.series)), Scale)
HoltFit(q) ==
  LET first == IF Len(q.series) = 1 THEN 0 ELSE q.series[2] - q.series[1]
      Observe(fit, observed) ==
        LET level == observed * q.alpha
                       + Truncated((fit.level + fit.trend) * (Scale - q.alpha), Scale)
        IN  [level |-> level,
             trend |-> Truncated((level - fit.level) * q.beta, Scale)
                         + Truncated(fit.trend * (Scale - q.beta), Scale)]
  IN  FoldLeft(Observe, [level |-> q.series[1] * Scale, trend |-> first * Scale], Tail(q.series))
Horizon == 1..3
Forecast(q) ==
  LET fit == HoltFit(q)
  IN  [flat |-> Smooth(q),
       trended |-> [step \in Horizon |-> Truncated(fit.level + fit.trend * step, Scale)]]
\* Smoothing stays between the least and the greatest observation, and a straight
\* line is continued exactly whatever the coefficients.
ForecastJustified(q, a) ==
  /\ Min(Elements(q.series)) <= a.flat /\ a.flat <= Max(Elements(q.series))
  /\ q.alpha = Scale => a.flat = Last(q.series)
  /\ \A slope \in {IF Len(q.series) = 1 THEN 0 ELSE q.series[2] - q.series[1]} :
       (\A k \in DOMAIN q.series : q.series[k] = q.series[1] + slope * (k - 1)) =>
         \A step \in Horizon : a.trended[step] = Last(q.series) + slope * step

-----------------------------------------------------------------------------
\* A record is [segment, treated, policy, outcome, propensity, control, treatment],
\* the last two the modelled outcomes.
RecordsError(q) ==
  FirstError(<< <<q.records = << >>, "EmptyCausalSample">>,
                <<\E r \in Elements(q.records) : r.propensity \notin 1..(Scale - 1),
                  "InvalidPropensityPpm">> >>)
DoublyRobustEffect(r) ==
  r.treatment - r.control
    + IF r.treated THEN Truncated((r.outcome - r.treatment) * Scale, r.propensity)
      ELSE -Truncated((r.outcome - r.control) * Scale, Scale - r.propensity)
PolicyValue(r) ==
  LET Modelled(treated) == IF treated THEN r.treatment ELSE r.control
      probability == IF r.treated THEN r.propensity ELSE Scale - r.propensity
  IN  Modelled(r.policy)
        + IF r.treated = r.policy
          THEN Truncated((r.outcome - Modelled(r.treated)) * Scale, probability) ELSE 0
MeanOver(values, chosen) == Truncated(SumOver(values, chosen), Cardinality(chosen))
Segment(q, segment) == {k \in DOMAIN q.records : q.records[k].segment = segment}
EstimateEffects(q) ==
  LET sample == DOMAIN q.records
      effects == [k \in sample |-> DoublyRobustEffect(q.records[k])]
  IN  [average |-> MeanOver(effects, sample),
       bySegment |-> [segment \in {r.segment : r \in Elements(q.records)} |->
                       [count |-> Cardinality(Segment(q, segment)),
                        uplift |-> MeanOver(effects, Segment(q, segment))]],
       policy |-> MeanOver([k \in sample |-> PolicyValue(q.records[k])], sample)]
\* Treating all is worth what treating none is worth plus the average effect, up to
\* one truncation each; the segments cover the sample and enclose the average; and
\* without residuals the estimates are the model's.
EffectsJustified(q, a) ==
  LET uplifts == {a.bySegment[s].uplift : s \in DOMAIN a.bySegment}
      Under(policy) ==
        MeanOver([k \in DOMAIN q.records |-> PolicyValue([q.records[k] EXCEPT !.policy = policy])],
                 DOMAIN q.records)
      exact == \A r \in Elements(q.records) :
                 r.outcome = IF r.treated THEN r.treatment ELSE r.control
  IN  /\ SumFunction([s \in DOMAIN a.bySegment |-> a.bySegment[s].count]) = Len(q.records)
      /\ Min(uplifts) - 1 <= a.average /\ a.average <= Max(uplifts) + 1
      /\ Magnitude(Under(TRUE) - Under(FALSE) - a.average) <= 2
      /\ exact =>
           a.average = MeanOver([k \in DOMAIN q.records |->
                                   q.records[k].treatment - q.records[k].control],
                                DOMAIN q.records)

-----------------------------------------------------------------------------
\* A question has a prior, the utilities of each action by hypothesis, and binary
\* experiments [likelihood, cost].
InformationError(q) ==
  FirstOf(
    << FirstError(<< <<q.prior = << >> \/ q.utilities = << >>, "EmptyBayesianProblem">>,
                     <<SumFunction(q.prior) # Scale, "ProbabilityMassMismatch">>,
                     <<\E row \in Elements(q.utilities) : Len(row) # Len(q.prior),
                       "UtilityWidthMismatch">> >>) >>
      \o [k \in DOMAIN q.experiments |->
           FirstError(<< <<q.experiments[k].cost < 0, "NegativeExperimentCost">>,
                         <<Len(q.experiments[k].likelihood) # Len(q.prior), "ExperimentWidthMismatch">>,
                         <<\E l \in Elements(q.experiments[k].likelihood) : l > Scale,
                           "InvalidLikelihoodPpm">> >>)])
BestAction(q) ==
  FirstBest(Indices(q.utilities), [i \in DOMAIN q.utilities |-> <<Dot(q.prior, q.utilities[i])>>])
BaselineUtility(q) == Truncated(Dot(q.prior, q.utilities[BestAction(q)]), Scale)
PerfectInformation(q) ==
  LET best == [h \in DOMAIN q.prior |-> Max({row[h] : row \in Elements(q.utilities)})]
  IN  Truncated(Dot(q.prior, best), Scale) - BaselineUtility(q)
BestJointUtility(q, likelihood) ==
  Max({Dot([h \in DOMAIN q.prior |-> q.prior[h] * likelihood[h]], row) : row \in Elements(q.utilities)})
SampleInformation(q, experiment) ==
  LET positive == BestJointUtility(q, experiment.likelihood)
      negative == BestJointUtility(q, [h \in DOMAIN q.prior |-> Scale - experiment.likelihood[h]])
  IN  Truncated(positive + negative, Scale * Scale) - BaselineUtility(q)
ValueInformation(q) ==
  LET Net(k) == SampleInformation(q, q.experiments[k]) - q.experiments[k].cost
  IN  [action |-> BestAction(q), perfect |-> PerfectInformation(q),
       experiment |-> FirstBest(Indices(q.experiments), [k \in DOMAIN q.experiments |-> <<Net(k)>>])]
\* Information is never worth less than nothing, no experiment more than knowing the
\* truth; one that says nothing is worth nothing, one that says all, everything.
InformationJustified(q, a) ==
  LET Worth(k) == SampleInformation(q, q.experiments[k])
      Likelihoods(k) == Elements(q.experiments[k].likelihood)
  IN  /\ \A k \in DOMAIN q.experiments :
           /\ 0 <= Worth(k) /\ Worth(k) <= a.perfect
           /\ Cardinality(Likelihoods(k)) = 1 => Worth(k) = 0
           /\ (Len(q.prior) = 2 /\ Likelihoods(k) = {0, Scale}) => Worth(k) = a.perfect
           /\ Worth(k) - q.experiments[k].cost <= Worth(a.experiment) - q.experiments[a.experiment].cost
      /\ \A row \in Elements(q.utilities) :
           Dot(q.prior, row) <= Dot(q.prior, q.utilities[a.action])

-----------------------------------------------------------------------------
Kinds == Identifications \cup {"forecast", "effects", "information"}
Rejection(q) ==
  CASE q.kind \in Identifications -> IdentificationError(q)
    [] q.kind = "forecast" -> SmoothingError(q)
    [] q.kind = "effects" -> RecordsError(q)
    [] q.kind = "information" -> InformationError(q)
Answers(q) ==
  CASE q.kind \in Identifications -> Identify(q)
    [] q.kind = "forecast" -> Forecast(q)
    [] q.kind = "effects" -> EstimateEffects(q)
    [] q.kind = "information" -> ValueInformation(q)
Justified(q, a) ==
  CASE q.kind \in Identifications -> IdentificationJustified(q, a)
    [] q.kind = "forecast" -> ForecastJustified(q, a)
    [] q.kind = "effects" -> EffectsJustified(q, a)
    [] q.kind = "information" -> InformationJustified(q, a)
=============================================================================
