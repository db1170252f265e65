--------------------------- MODULE RiskDecisions ---------------------------
(***************************************************************************)
(* Decisions under uncertainty: prospect-commercial (the discrete outcome  *)
(* distributions) and, of prospect-commercial-advanced, optimization.rs    *)
(* (scenario summaries, probability intervals, portfolios), market.rs,     *)
(* robust.rs, stress.rs and the real options of operations.rs.  Decisions  *)
(* on several criteria: non-dominated fronts and the NSGA-II environmental *)
(* selection (optimization.rs), weighted criteria with vetoes (mcda.rs),   *)
(* thresholds (threshold.rs), the next best action (next_best_action.rs).  *)
(*                                                                         *)
(* They are functions of their input; a question is a record with a field  *)
(* kind.  Answers is what the code returns, Justified what its user relies *)
(* on.  Probabilities are integers out of Scale, as they are ppm in the    *)
(* code.  Crowding distances are fractions of the ranges of a front; they  *)
(* are compared over the product of the ranges, which is what the f64 of   *)
(* the code do exactly for ranges that are powers of two.                  *)
(***************************************************************************)
EXTENDS Checks

CONSTANTS
  Scale,   \* PROBABILITY_SCALE_PPM
  Absent   \* an Option that is None

MassMissing(probabilities) == SumFunction(probabilities) # Scale
Weighted(probabilities, payoffs) == Dot(probabilities, payoffs)
Probability(probabilities, event) == SumOver(probabilities, event)

\* The lower tail takes the worst outcomes first, and of the last one only what is
\* missing to its mass.
TailWeighted(probabilities, payoffs, tail) ==
  LET order == SetToSortSeq(DOMAIN payoffs,
                            LAMBDA i, j : LexBefore(<<payoffs[i], i>>, <<payoffs[j], j>>))
      Take(taken, i) ==
        LET consumed == Smaller(taken.remaining, probabilities[i])
        IN  [remaining |-> taken.remaining - consumed,
             weighted |-> taken.weighted + consumed * payoffs[i]]
  IN  FoldLeft(Take, [remaining |-> tail, weighted |-> 0], order).weighted

\* Every way to take that much mass from the outcomes.
Tails(probabilities, tail) ==
  {t \in [DOMAIN probabilities -> 0..Scale] :
    /\ \A i \in DOMAIN t : t[i] <= probabilities[i]
    /\ SumFunction(t) = tail}
IsLeast(value, values) == value \in values /\ \A other \in values : value <= other

-----------------------------------------------------------------------------
(* summarize_scenarios and chance_constraint_satisfied.                    *)
ScenarioError(q) ==
  FirstError(<< <<q.payoffs = << >>, "EmptyProblem">>,
                <<q.tail \notin 1..Scale, "InvalidTailPpm">>,
                <<MassMissing(q.probabilities), "ProbabilityMassMismatch">> >>)
ScenarioSummary(q) ==
  LET expected == Weighted(q.probabilities, q.payoffs)
  IN  [expected |-> expected,
       expectedTruncated |-> Truncated(expected, Scale),
       violation |-> Probability(q.probabilities, {i \in DOMAIN q.satisfied : ~q.satisfied[i]}),
       tail |-> Truncated(TailWeighted(q.probabilities, q.payoffs, q.tail), q.tail)]
ChanceConstraintSatisfied(summary, maximum) == summary.violation <= maximum

\* The tail mean is that of the worst possible tail, and never above the mean.
ScenariosJustified(q, a) ==
  LET means == {Weighted(t, q.payoffs) : t \in Tails(q.probabilities, q.tail)}
      worst == CHOOSE value \in means : IsLeast(value, means)
  IN  /\ a.tail = Truncated(worst, q.tail)
      /\ a.tail <= a.expectedTruncated
      /\ ChanceConstraintSatisfied(a, 0) <=>
           \A i \in DOMAIN q.payoffs : q.probabilities[i] > 0 => q.satisfied[i]

-----------------------------------------------------------------------------
(* worst_case_expected_value_under_probability_intervals.                  *)
IntervalError(q) ==
  FirstError(
    << <<q.payoffs = << >>, "EmptyProblem">>,
       <<\E i \in DOMAIN q.payoffs : q.lower[i] > q.upper[i] \/ q.upper[i] > Scale,
         "InvalidProbabilityInterval">>,
       <<SumFunction(q.lower) > Scale \/ SumFunction(q.upper) < Scale,
         "AmbiguityMassInfeasible">> >>)
\* Every scenario gets its lower bound; what is left goes to the worst payoffs first.
WorstCaseExpectedValue(q) ==
  LET room == [i \in DOMAIN q.payoffs |-> q.upper[i] - q.lower[i]]
      rest == Scale - SumFunction(q.lower)
  IN  Truncated(Weighted(q.lower, q.payoffs) + TailWeighted(room, q.payoffs, rest), Scale)

\* Nature can do no worse within the intervals.
IntervalsJustified(q, a) ==
  LET distributions ==
        {d \in [DOMAIN q.payoffs -> 0..Scale] :
          /\ \A i \in DOMAIN d : d[i] \in q.lower[i]..q.upper[i]
          /\ SumFunction(d) = Scale}
      values == {Weighted(d, q.payoffs) : d \in distributions}
      worst == CHOOSE value \in values : IsLeast(value, values)
  IN  a.value = Truncated(worst, Scale)

-----------------------------------------------------------------------------
(* select_portfolio_exact.                                                 *)
MaximumBinaryVariables == 24
PortfolioError(q) ==
  FirstError(
    << <<q.costs = << >>, "EmptyProblem">>,
       <<q.budget < 0 \/ \E i \in DOMAIN q.costs : q.costs[i] < 0, "InvalidBudget">>,
       <<Len(q.costs) > MaximumBinaryVariables, "TooManyBinaryVariables">>,
       <<\/ \E row \in Elements(q.payoffs) : Len(row) # Len(q.costs)
         \/ Len(q.payoffs) # Len(q.probabilities), "PortfolioWidthMismatch">>,
       <<MassMissing(q.probabilities), "ProbabilityMassMismatch">>,
       <<2^Len(q.costs) > q.maximumAssignments, "EnumerationBudgetTooSmall">> >>)
Affordable(q, assets) ==
  /\ q.maximumAssets = Absent \/ Cardinality(assets) <= q.maximumAssets
  /\ SumOver(q.costs, assets) <= q.budget
PortfolioPayoffs(q, assets) == [s \in DOMAIN q.payoffs |-> SumOver(q.payoffs[s], assets)]
ExactExpectation(q, assets) == Weighted(q.probabilities, PortfolioPayoffs(q, assets))
WorstScenario(q, assets) == Min(Elements(PortfolioPayoffs(q, assets)))
SelectPortfolioExact(q) ==
  LET subsets == SubsetsOf(Len(q.costs))
      feasible == SelectSeq(Indices(subsets), LAMBDA m : Affordable(q, subsets[m]))
      chosen == FirstBest(feasible,
                  [m \in DOMAIN subsets |-> <<Truncated(ExactExpectation(q, subsets[m]), Scale),
                                             WorstScenario(q, subsets[m])>>])
  IN  IF chosen = NoCandidate THEN [result |-> "NoFeasibleSolution"]
      ELSE [result |-> "decided", selected |-> subsets[chosen],
            invested |-> SumOver(q.costs, subsets[chosen]),
            expected |-> Truncated(ExactExpectation(q, subsets[chosen]), Scale),
            worst |-> WorstScenario(q, subsets[chosen])]

\* The choice is made on truncated expectations: no affordable portfolio is better
\* by two units or more, or by one where expectations are not negative; and of
\* those that look as good none has a better worst scenario.  Buying nothing is
\* always affordable, so there is always a choice.
PortfolioJustified(q, a) ==
  /\ a.result = "decided"
  /\ Affordable(q, a.selected)
  /\ \A assets \in SUBSET DOMAIN q.costs : Affordable(q, assets) =>
       LET gain == ExactExpectation(q, assets) - ExactExpectation(q, a.selected)
       IN  /\ gain < 2 * Scale
           /\ ExactExpectation(q, a.selected) >= 0 => gain < Scale
           /\ Truncated(ExactExpectation(q, assets), Scale) = a.expected =>
                WorstScenario(q, assets) <= a.worst

-----------------------------------------------------------------------------
(* Competitive responses and first-price bids.                             *)
CompetitionError(q) ==
  IF q.payoffs = << >> \/ q.payoffs[1] = << >> THEN "EmptyProblem"
  ELSE FirstError(
    << <<\E row \in Elements(q.payoffs) : Len(row) # Len(q.payoffs[1]), "RaggedPayoffMatrix">>,
       <<q.known /\ Len(q.probabilities) # Len(q.payoffs[1]), "RaggedPayoffMatrix">>,
       <<q.known /\ MassMissing(q.probabilities), "ProbabilityMassMismatch">> >>)
ActionValue(q, action) ==
  LET row == q.payoffs[action]
  IN  [expected |-> IF q.known THEN Truncated(Weighted(q.probabilities, row), Scale) ELSE 0,
       worst |-> Min(Elements(row)), best |-> Max(Elements(row))]
Compete(q) ==
  LET Value(action) == ActionValue(q, action)
  IN  [bestExpected |->
         IF q.known THEN LastBest(Indices(q.payoffs),
                                  [i \in DOMAIN q.payoffs |-> <<Value(i).expected, Value(i).worst>>])
         ELSE NoCandidate,
       maximin |-> LastBest(Indices(q.payoffs),
                           [i \in DOMAIN q.payoffs |-> <<Value(i).worst, Value(i).best>>])]

\* The maximin action guarantees the most, and a mixture of responses never gives
\* the expected-value action less than that guarantee.
CompetitionJustified(q, a) ==
  /\ \A i \in DOMAIN q.payoffs :
       ActionValue(q, i).worst <= ActionValue(q, a.maximin).worst
  /\ q.known <=> a.bestExpected # NoCandidate
  /\ q.known =>
       /\ ActionValue(q, a.bestExpected).expected >= ActionValue(q, a.maximin).worst
       /\ \A i \in DOMAIN q.payoffs :
            Weighted(q.probabilities, q.payoffs[i])
              < Weighted(q.probabilities, q.payoffs[a.bestExpected]) + 2 * Scale

BidError(bid) ==
  FirstError(<< <<bid.win > Scale, "InvalidBidProbability">>,
                <<bid.bid < 0 \/ bid.value < 0 \/ bid.cost < 0, "NegativeField">> >>)
BidsError(q) ==
  FirstError(<< <<q.bids = << >>, "EmptyProblem">>,
                <<TRUE, FirstOf([i \in DOMAIN q.bids |-> BidError(q.bids[i])])>> >>)
ExpectedProfit(bid) == (bid.value - bid.bid - bid.cost) * bid.win - bid.cost * (Scale - bid.win)
SelectBestFirstPriceBid(q) ==
  FirstBest(Indices(q.bids),
    [i \in DOMAIN q.bids |-> <<Truncated(ExpectedProfit(q.bids[i]), Scale), -q.bids[i].bid>>])

\* No other bid expects two units more, and of those worth the same none is lower.
BidsJustified(q, a) ==
  \A bid \in Elements(q.bids) :
    LET chosen == q.bids[a.chosen]
    IN  /\ ExpectedProfit(bid) < ExpectedProfit(chosen) + 2 * Scale
        /\ Truncated(ExpectedProfit(bid), Scale) = Truncated(ExpectedProfit(chosen), Scale) =>
             chosen.bid <= bid.bid

-----------------------------------------------------------------------------
(* Robust decisions, whose scenarios have no probabilities.                *)
RobustError(q) ==
  FirstError(
    << <<q.optimism > Scale, "InvalidOptimismPpm">>,
       <<q.payoffs = << >>, "EmptyActionSet">>,
       <<q.baseline \notin DOMAIN q.payoffs, "InvalidActionIndex">>,
       <<q.payoffs # << >> /\ q.payoffs[1] = << >>, "EmptyScenarioSet">>,
       <<\E row \in Elements(q.payoffs) : Len(row) # Len(q.payoffs[1]), "RaggedPayoffMatrix">> >>)
MaximumRegret(q, action) ==
  LET Regret(s) == Max({row[s] : row \in Elements(q.payoffs)}) - q.payoffs[action][s]
  IN  Max({0} \cup {Regret(s) : s \in DOMAIN q.payoffs[action]})
SummarizeAction(q, action) ==
  LET row == q.payoffs[action]
      worst == Min(Elements(row))
      best == Max(Elements(row))
  IN  [worst |-> worst, best |-> best,
       average |-> Truncated(SumFunction(row), Len(row)),
       regret |-> MaximumRegret(q, action),
       hurwicz |-> best * q.optimism + worst * (Scale - q.optimism)]
\* What each policy scores a signature by; the best by policy is the first of the best.
RobustPolicies ==
  [maximin |-> "worst", minimaxRegret |-> "regret", hurwicz |-> "hurwicz", average |-> "average"]
RobustScore(policy, signature) ==
  IF policy = "minimaxRegret" THEN -signature.regret ELSE signature[RobustPolicies[policy]]
BestRobust(q, policy) ==
  FirstBest(Indices(q.payoffs),
    [i \in DOMAIN q.payoffs |-> <<RobustScore(policy, SummarizeAction(q, i))>>])

Everywhere(better, worse) == \A s \in DOMAIN better : better[s] > worse[s]

\* No policy chooses an action that another beats in every scenario (the truncated
\* average: by two units or more); without optimism Hurwicz is maximin; and when an
\* action is at least as good as any other everywhere, no regret is chosen.
RobustJustified(q, a) ==
  /\ \A policy \in {"maximin", "minimaxRegret", "hurwicz"} : \A i \in DOMAIN q.payoffs :
       ~Everywhere(q.payoffs[i], q.payoffs[a[policy]])
  /\ \A i \in DOMAIN q.payoffs :
       SumFunction(q.payoffs[i]) < SumFunction(q.payoffs[a.average]) + 2 * Len(q.payoffs[i])
  /\ q.optimism = 0 => a.hurwicz = a.maximin
  /\ (\E i \in DOMAIN q.payoffs : \A j \in DOMAIN q.payoffs : \A s \in DOMAIN q.payoffs[i] :
        q.payoffs[i][s] >= q.payoffs[j][s]) =>
       MaximumRegret(q, a.minimaxRegret) = 0

-----------------------------------------------------------------------------
(* evaluate_weighted_stress_cases and select_real_option_action.           *)
StressError(q) ==
  FirstError(<< <<q.impacts = << >>, "EmptySample">>,
                <<\E p \in Elements(q.probabilities) : p > Scale, "InvalidProbabilityPpm">>,
                <<MassMissing(q.probabilities), "ProbabilityMassMismatch">> >>)
EvaluateStress(q) ==
  LET stressed == [i \in DOMAIN q.impacts |-> q.baseline + q.impacts[i]]
  IN  [expected |-> Truncated(Weighted(q.probabilities, stressed), Scale),
       worst |-> Min(Elements(stressed)), best |-> Max(Elements(stressed)),
       belowZero |-> Probability(q.probabilities, {i \in DOMAIN stressed : stressed[i] < 0})]
\* The expectation lies between the extremes, and an expected loss has a chance.
StressJustified(q, a) ==
  /\ a.worst <= a.expected /\ a.expected <= a.best
  /\ a.expected < 0 => a.belowZero > 0
  /\ a.belowZero = Scale => a.worst < 0

RealOptionActions == <<"ExerciseNow", "Defer", "Expand", "Abandon">>
OptionError(q) ==
  FirstError(<< <<q.probabilities = << >>, "EmptyProblem">>,
                <<MassMissing(q.probabilities), "ProbabilityMassMismatch">> >>)
OptionValue(q, k) == Weighted(q.probabilities, q.values[k])
SelectRealOptionAction(q) ==
  FirstBest(Indices(RealOptionActions),
    [k \in DOMAIN RealOptionActions |-> <<Truncated(OptionValue(q, k), Scale)>>])
\* No action is worth two units more, and none before the chosen one as much.
OptionJustified(q, a) ==
  \A k \in DOMAIN RealOptionActions :
    /\ OptionValue(q, k) < OptionValue(q, a.chosen) + 2 * Scale
    /\ k < a.chosen => OptionValue(q, k) < OptionValue(q, a.chosen)

-----------------------------------------------------------------------------
(* Commercial distributions and their risk policies.                       *)
DistributionError(d) ==
  FirstError(<< <<d.payoffs = << >>, "EmptyOutcomeSet">>,
                <<\E p \in Elements(d.probabilities) : p = 0, "ZeroProbabilityOutcome">>,
                <<MassMissing(d.probabilities), "ProbabilityMassMismatch">> >>)
DistributionsError(q) ==
  FirstError(<< <<q.tail \notin 1..Scale, "InvalidDownsideTail">>,
                <<TRUE, FirstOf([i \in DOMAIN q.candidates |-> DistributionError(q.candidates[i])])>> >>)
\* div_euclid: the mean is floored, never rounded up towards zero.
SummarizeDistribution(d, tail) ==
  LET expected == Weighted(d.probabilities, d.payoffs)
      downside == TailWeighted(d.probabilities, d.payoffs, tail)
  IN  [expected |-> expected, expectedFloor |-> expected \div Scale,
       loss |-> Probability(d.probabilities, {i \in DOMAIN d.payoffs : d.payoffs[i] < 0}),
       worst |-> Min(Elements(d.payoffs)), best |-> Max(Elements(d.payoffs)),
       tail |-> tail, downside |-> downside, downsideFloor |-> downside \div tail]
\* Exact lower-tail means, compared without division losing anything.
DownsideBelow(a, b) ==
  LET left == a.downside \div a.tail
      right == b.downside \div b.tail
  IN  \/ left < right
      \/ /\ left = right
         /\ (a.downside % a.tail) * b.tail < (b.downside % b.tail) * a.tail
BestDistribution(q, policy) ==
  LET Summary(i) == SummarizeDistribution(q.candidates[i], q.tail)
      Better(i, j) ==
        CASE policy = "MaximizeExpectedNetCash" -> Summary(j).expected < Summary(i).expected
          [] policy = "MinimizeLossProbability" ->
               LexBefore(<<-Summary(j).loss, Summary(j).expected>>,
                         <<-Summary(i).loss, Summary(i).expected>>)
          [] policy = "DownsideFirst" ->
               \/ DownsideBelow(Summary(j), Summary(i))
               \/ /\ ~DownsideBelow(Summary(i), Summary(j))
                  /\ Summary(j).expected < Summary(i).expected
  IN  KeepBest(Indices(q.candidates),
        {<<i, j>> \in (DOMAIN q.candidates) \X (DOMAIN q.candidates) : Better(i, j)})

\* At no level is e more likely to stay at or below it than d.
ShiftsUp(d, e) ==
  \A level \in Elements(d.payoffs) \cup Elements(e.payoffs) :
    Probability(e.probabilities, {i \in DOMAIN e.payoffs : e.payoffs[i] <= level})
      <= Probability(d.probabilities, {i \in DOMAIN d.payoffs : d.payoffs[i] <= level})
\* A distribution that is stochastically at least as good is never rated lower: not
\* by its mean, its tail mean or its chance of loss; and the tail never tells a
\* better story than the mean.
DistributionsJustified(q, a) ==
  LET Summary(i) == SummarizeDistribution(q.candidates[i], q.tail)
  IN  /\ \A i \in DOMAIN q.candidates : Summary(i).downsideFloor <= Summary(i).expectedFloor
      /\ \A i, j \in DOMAIN q.candidates : ShiftsUp(q.candidates[i], q.candidates[j]) =>
           /\ Summary(i).expected <= Summary(j).expected
           /\ Summary(i).downside <= Summary(j).downside
           /\ Summary(j).loss <= Summary(i).loss
      /\ \A i \in DOMAIN q.candidates : ~DownsideBelow(Summary(a.DownsideFirst), Summary(i))

-----------------------------------------------------------------------------
(* Fronts, weighted criteria with vetoes, thresholds, the next action.     *)
PopulationError(q) ==
  FirstError(<< <<q.limit = 0, "InvalidSelectionLimit">>,
                <<q.population = << >> \/ q.directions = << >>, "EmptyPopulation">>,
                <<\E candidate \in Elements(q.population) : Len(candidate) # Len(q.directions),
                  "ObjectiveWidthMismatch">> >>)
Gain(direction, left, right) == IF direction = "Maximize" THEN left - right ELSE right - left
Dominates(q, i, j) ==
  LET gains == {Gain(q.directions[k], q.population[i][k], q.population[j][k]) :
                 k \in DOMAIN q.directions}
  IN  (\A gain \in gains : gain >= 0) /\ \E gain \in gains : gain > 0

\* A front is taken away; whoever has no dominator left is the next one.
RECURSIVE Peel(_, _, _)
Peel(q, dominators, current) ==
  IF current = {} THEN << >>
  ELSE LET left == [j \in DOMAIN dominators |->
                     dominators[j] - Cardinality({i \in current : Dominates(q, i, j)})]
           next == {j \in DOMAIN dominators :
                     left[j] = 0 /\ \E i \in current : Dominates(q, i, j)}
       IN  <<current>> \o Peel(q, left, next)
NonDominatedFronts(q) ==
  LET candidates == DOMAIN q.population
      dominators == [j \in candidates |-> Cardinality({i \in candidates : Dominates(q, i, j)})]
  IN  Peel(q, dominators, {j \in candidates : dominators[j] = 0})

\* The ends of a front, in any objective, are infinitely far; the others add up the
\* gap between their neighbours as a share of the objective's range.
Sorted(q, front, objective) ==
  SetToSortSeq(front, LAMBDA i, j :
    LexBefore(<<q.population[i][objective], i>>, <<q.population[j][objective], j>>))
CrowdingDistances(q, front) ==
  LET orders == [k \in DOMAIN q.directions |-> Sorted(q, front, k)]
      At(k, position) == q.population[orders[k][position]][k]
      size == Cardinality(front)
      ranges == [k \in DOMAIN orders |-> At(k, size) - At(k, 1)]
      product == FoldLeft(LAMBDA whole, range : IF range = 0 THEN whole ELSE whole * range, 1, ranges)
      Place(k, i) == CHOOSE position \in 1..size : orders[k][position] = i
      Extreme(i) == size <= 2 \/ \E k \in DOMAIN orders : Place(k, i) \in {1, size}
      Share(k, i) == IF ranges[k] = 0 THEN 0
                     ELSE (At(k, Place(k, i) + 1) - At(k, Place(k, i) - 1)) * (product \div ranges[k])
  IN  [i \in front |-> IF Extreme(i) THEN [infinite |-> 1, distance |-> 0]
                       ELSE [infinite |-> 0,
                             distance |-> SumFunction([k \in DOMAIN orders |-> Share(k, i)])]]
\* Front after front, of each the most isolated, as long as there is room.
EnvironmentalSelect(q) ==
  LET Ranked(front) ==
        LET crowding == CrowdingDistances(q, front)
            Key(i) == <<-crowding[i].infinite, -crowding[i].distance, i>>
        IN  SetToSortSeq(front, LAMBDA i, j : LexBefore(Key(i), Key(j)))
      Take(selected, front) ==
        selected \o SubSeq(Ranked(front), 1,
                           Smaller(Cardinality(front), q.limit - Len(selected)))
  IN  FoldLeft(Take, << >>, NonDominatedFronts(q))

\* A candidate's front is the length of the longest chain of dominators above it.
RECURSIVE ChainAbove(_, _)
ChainAbove(q, i) ==
  Max({0} \cup {1 + ChainAbove(q, j) : j \in {j \in DOMAIN q.population : Dominates(q, j, i)}})
\* The fronts partition the population by rank, the selection fills its limit, no
\* one is left out who dominates someone chosen, and each objective's best value in
\* the first front is kept when there is room for an extreme of every objective.
FrontsJustified(q, a) ==
  LET chosen == Elements(a.selected)
      first == a.fronts[1]
      Best(among, k) ==
        CHOOSE i \in among : \A j \in among :
          Gain(q.directions[k], q.population[i][k], q.population[j][k]) >= 0
  IN  /\ \A i \in DOMAIN q.population : \A rank \in DOMAIN a.fronts :
           i \in a.fronts[rank] <=> ChainAbove(q, i) = rank - 1
      /\ Distinct(a.selected)
      /\ Len(a.selected) = Smaller(q.limit, Len(q.population))
      /\ \A i \in chosen : \A j \in DOMAIN q.population \ chosen : ~Dominates(q, j, i)
      /\ q.limit >= 2 * Len(q.directions) => \A k \in DOMAIN q.directions :
           q.population[Best(chosen, k)][k] = q.population[Best(first, k)][k]

-----------------------------------------------------------------------------
(* Weighted criteria.                                                      *)
CriteriaError(q) ==
  FirstError(
    << <<q.criteria = << >>, "EmptyCriteria">>,
       <<q.alternatives = << >>, "EmptyAlternatives">>,
       <<SumFunction([k \in DOMAIN q.criteria |-> q.criteria[k].weight]) # Scale,
         "WeightMassMismatch">>,
       <<\E c \in Elements(q.criteria) : c.minimum # Absent /\ c.minimum > Scale,
         "ValueOutOfRange">>,
       <<TRUE, FirstOf([i \in DOMAIN q.alternatives |->
         FirstError(<< <<Len(q.alternatives[i]) # Len(q.criteria), "AlternativeWidthMismatch">>,
                       <<\E value \in Elements(q.alternatives[i]) : value > Scale,
                         "ValueOutOfRange">>,
                       <<i = Len(q.alternatives) /\ q.baseline \notin DOMAIN q.alternatives,
                         "InvalidAlternativeIndex">> >>)])>> >>)
Desirability(criterion, value) ==
  IF criterion.direction = "Maximize" THEN value ELSE Scale - value
SummarizeAlternative(q, i) ==
  LET desirable == [k \in DOMAIN q.criteria |-> Desirability(q.criteria[k], q.alternatives[i][k])]
      vetoes == {k \in DOMAIN q.criteria :
                  q.criteria[k].minimum # Absent /\ desirable[k] < q.criteria[k].minimum}
  IN  [desirable |-> desirable, vetoes |-> Cardinality(vetoes),
       feasible |-> IF vetoes = {} THEN 1 ELSE 0,
       utility |-> SumFunction([k \in DOMAIN q.criteria |-> q.criteria[k].weight * desirable[k]]),
       worst |-> Min({Scale} \cup Elements(desirable))]
DecideCriteria(q) ==
  LET S(i) == SummarizeAlternative(q, i)
  IN  [weighted |-> FirstBest(Indices(q.alternatives),
                      [i \in DOMAIN q.alternatives |-> <<S(i).feasible, -S(i).vetoes, S(i).utility>>]),
       balanced |-> FirstBest(Indices(q.alternatives),
                      [i \in DOMAIN q.alternatives |-> <<S(i).feasible, S(i).worst, S(i).utility>>])]
\* An infeasible alternative is chosen only when all are; no alternative that is
\* better on every criterion is passed over; and it makes no difference whether a
\* criterion is stated as one to maximise or, mirrored, as one to minimise.
Mirrored(q) ==
  [q EXCEPT
    !.criteria = [k \in DOMAIN @ |->
      [@[k] EXCEPT !.direction = IF @ = "Maximize" THEN "Minimize" ELSE "Maximize"]],
    !.alternatives = [i \in DOMAIN @ |-> [k \in DOMAIN @[i] |-> Scale - @[i][k]]]]
CriteriaJustified(q, a) ==
  LET Feasible(i) == SummarizeAlternative(q, i).feasible = 1
      desirable == [i \in DOMAIN q.alternatives |-> SummarizeAlternative(q, i).desirable]
  IN  /\ \A chosen \in {a.weighted, a.balanced} : \A i \in DOMAIN q.alternatives :
           /\ Feasible(i) => Feasible(chosen)
           /\ \E k \in DOMAIN q.criteria : desirable[i][k] <= desirable[chosen][k]
      /\ DecideCriteria(Mirrored(q)) = a

-----------------------------------------------------------------------------
(* Decision thresholds.                                                    *)
ThresholdError(q) ==
  FirstError(<< <<q.cases = << >>, "EmptyCaseSet">>,
                <<\E c \in Elements(q.cases) : c.score > Scale, "ScoreOutOfRange">>,
                <<q.baseline > Scale, "ThresholdOutOfRange">>,
                <<\E outcome \in DOMAIN q.economics : q.economics[outcome] < 0,
                  "NegativeEconomicsField">> >>)
\* Every boundary at which a decision on the cases can change.
CandidateThresholds(q) ==
  LET scores == {c.score : c \in Elements(q.cases)}
  IN  SetToSortSeq({0, Scale} \cup scores \cup {score + 1 : score \in scores \ {Scale}}, <)
EvaluateThreshold(q, threshold) ==
  LET Count(predicted, actual) ==
        Cardinality({i \in DOMAIN q.cases :
          (q.cases[i].score >= threshold) = predicted /\ q.cases[i].positive = actual})
  IN  [threshold |-> threshold, missed |-> Count(FALSE, TRUE),
       counted |-> Count(TRUE, TRUE) + Count(FALSE, FALSE) + Count(TRUE, FALSE) + Count(FALSE, TRUE),
       utility |-> Count(TRUE, TRUE) * q.economics.truePositive
                     + Count(FALSE, FALSE) * q.economics.trueNegative
                     - Count(TRUE, FALSE) * q.economics.falsePositive
                     - Count(FALSE, TRUE) * q.economics.falseNegative]
DecideThreshold(q) ==
  LET thresholds == CandidateThresholds(q)
      S(i) == EvaluateThreshold(q, thresholds[i])
  IN  [utility |-> S(FirstBest(Indices(thresholds), [i \in DOMAIN thresholds |-> <<S(i).utility>>])),
       misses |-> S(FirstBest(Indices(thresholds),
                     [i \in DOMAIN thresholds |-> <<-S(i).missed, S(i).utility>>]))]
\* The candidates are enough: no threshold whatever does better.
ThresholdJustified(q, a) ==
  \A threshold \in 0..Scale :
    LET other == EvaluateThreshold(q, threshold)
    IN  /\ other.utility <= a.utility.utility
        /\ ~LexBefore(<<-a.misses.missed, a.misses.utility>>, <<-other.missed, other.utility>>)
        /\ other.counted = Len(q.cases)

-----------------------------------------------------------------------------
(* The next best action.                                                   *)
ActionError(action) ==
  FirstError(<< <<action.propensity > Scale, "PropensityOutOfRange">>,
                <<action.cost < 0 \/ action.reserve < 0, "NegativeField">> >>)
IndexError(q, i) ==
  IF i \notin DOMAIN q.actions THEN "InvalidActionIndex"
  ELSE IF ~q.actions[i].eligible THEN "IneligibleAction" ELSE NoError
NextActionError(q) ==
  IF q.actions = << >> THEN "EmptyActionSet"
  ELSE FirstOf(
    [i \in DOMAIN q.actions |-> ActionError(q.actions[i])]
      \o << IF q.baseline = Absent THEN NoError ELSE IndexError(q, q.baseline) >>
      \o [k \in DOMAIN q.asked |-> IndexError(q, q.asked[k])])
Eligible(q) == SelectSeq(Indices(q.actions), LAMBDA i : q.actions[i].eligible)
\* Weighted by Scale; no action at all is worth nothing.
ActionWorth(q, i) ==
  IF i = Absent THEN 0
  ELSE LET action == q.actions[i]
       IN  action.success * action.propensity + action.failure * (Scale - action.propensity)
             - (action.cost + action.reserve) * Scale
DecideAction(q) ==
  [value |-> FirstBest(Eligible(q), [i \in DOMAIN q.actions |-> <<ActionWorth(q, i)>>]),
   propensity |-> FirstBest(Eligible(q),
     [i \in DOMAIN q.actions |-> <<q.actions[i].propensity, ActionWorth(q, i)>>]),
   gain |-> [k \in DOMAIN q.asked |-> ActionWorth(q, q.asked[k]) - ActionWorth(q, q.baseline)]]
\* Only what is eligible is chosen, and if anything asked about gains on the
\* baseline, so does the choice by value; a sure failure is worth its failure value.
NextActionJustified(q, a) ==
  /\ a.value = NoCandidate <=> \A i \in DOMAIN q.actions : ~q.actions[i].eligible
  /\ a.value # NoCandidate =>
       /\ \A i \in {a.value, a.propensity} : q.actions[i].eligible
       /\ \A k \in DOMAIN q.asked :
            ActionWorth(q, q.baseline) + a.gain[k] <= ActionWorth(q, a.value)
       /\ \A i \in DOMAIN q.actions : q.actions[i].eligible =>
            q.actions[i].propensity <= q.actions[a.propensity].propensity
       /\ ActionWorth(q, a.propensity) <= ActionWorth(q, a.value)

-----------------------------------------------------------------------------

Kinds == {"scenarios", "intervals", "portfolio", "competition", "bids", "robust", "stress",
          "option", "distributions", "fronts", "criteria", "threshold", "next_action"}
Rejection(q) ==
  CASE q.kind = "scenarios" -> ScenarioError(q)
    [] q.kind = "intervals" -> IntervalError(q)
    [] q.kind = "portfolio" -> PortfolioError(q)
    [] q.kind = "competition" -> CompetitionError(q)
    [] q.kind = "bids" -> BidsError(q)
    [] q.kind = "robust" -> RobustError(q)
    [] q.kind = "stress" -> StressError(q)
    [] q.kind = "option" -> OptionError(q)
    [] q.kind = "distributions" -> DistributionsError(q)
    [] q.kind = "fronts" -> PopulationError(q)
    [] q.kind = "criteria" -> CriteriaError(q)
    [] q.kind = "threshold" -> ThresholdError(q)
    [] q.kind = "next_action" -> NextActionError(q)
Answers(q) ==
  CASE q.kind = "scenarios" -> ScenarioSummary(q)
    [] q.kind = "intervals" -> [value |-> WorstCaseExpectedValue(q)]
    [] q.kind = "portfolio" -> SelectPortfolioExact(q)
    [] q.kind = "competition" -> Compete(q)
    [] q.kind = "bids" -> [chosen |-> SelectBestFirstPriceBid(q)]
    [] q.kind = "robust" -> [policy \in DOMAIN RobustPolicies |-> BestRobust(q, policy)]
    [] q.kind = "stress" -> EvaluateStress(q)
    [] q.kind = "option" -> [chosen |-> SelectRealOptionAction(q)]
    [] q.kind = "distributions" ->
         [policy \in {"MaximizeExpectedNetCash", "MinimizeLossProbability", "DownsideFirst"} |->
           BestDistribution(q, policy)]
    [] q.kind = "fronts" ->
         [fronts |-> NonDominatedFronts(q), selected |-> EnvironmentalSelect(q)]
    [] q.kind = "criteria" -> DecideCriteria(q)
    [] q.kind = "threshold" -> DecideThreshold(q)
    [] q.kind = "next_action" -> DecideAction(q)
Justified(q, a) ==
  CASE q.kind = "scenarios" -> ScenariosJustified(q, a)
    [] q.kind = "intervals" -> IntervalsJustified(q, a)
    [] q.kind = "portfolio" -> PortfolioJustified(q, a)
    [] q.kind = "competition" -> CompetitionJustified(q, a)
    [] q.kind = "bids" -> BidsJustified(q, a)
    [] q.kind = "robust" -> RobustJustified(q, a)
    [] q.kind = "stress" -> StressJustified(q, a)
    [] q.kind = "option" -> OptionJustified(q, a)
    [] q.kind = "distributions" -> DistributionsJustified(q, a)
    [] q.kind = "fronts" -> FrontsJustified(q, a)
    [] q.kind = "criteria" -> CriteriaJustified(q, a)
    [] q.kind = "threshold" -> ThresholdJustified(q, a)
    [] q.kind = "next_action" -> NextActionJustified(q, a)
=============================================================================
