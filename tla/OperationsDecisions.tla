------------------------ MODULE OperationsDecisions ------------------------
(***************************************************************************)
(* Operating decisions: the unit economics of prospect-commercial and, of  *)
(* prospect-commercial-advanced, operations.rs (replenishment, workforce,  *)
(* routes), inventory.rs, pricing.rs, finance.rs and customer.rs.  A       *)
(* question is a record with a field kind; money, units and probabilities  *)
(* are integers, probabilities and rates out of Scale.  An engine that     *)
(* evaluates interventions one by one is asked about all of a question's.  *)
(***************************************************************************)
EXTENDS Checks

CONSTANTS
  Scale,   \* PROBABILITY_SCALE_PPM
  Absent   \* an Option that is None

MassMissing(probabilities) == SumFunction(probabilities) # Scale
Negative(values) == \E value \in Elements(values) : value < 0
Mass(q, event) == SumOver(q.probabilities, event)
AtMost(q, quantity) == {i \in DOMAIN q.demands : q.demands[i] <= quantity}

-----------------------------------------------------------------------------
(* Replenishment: the first demand, in increasing order, at which the      *)
(* target is served.                                                       *)
ReplenishmentError(q) ==
  FirstError(<< <<q.demands = << >>, "EmptyProblem">>,
                <<q.target \notin 1..Scale, "InvalidServiceLevel">>,
                <<MassMissing(q.probabilities), "ProbabilityMassMismatch">> >>)
ReplenishmentPolicy(q) ==
  LET order == SetToSortSeq(DOMAIN q.demands,
                            LAMBDA i, j : LexBefore(<<q.demands[i], i>>, <<q.demands[j], j>>))
      Serve(policy, i) ==
        IF policy.achieved >= q.target THEN policy
        ELSE [reorder |-> q.demands[i], achieved |-> policy.achieved + q.probabilities[i]]
      served == FoldLeft(Serve, [reorder |-> 0, achieved |-> 0], order)
      expected == Dot(q.probabilities, q.demands) \div Scale
  IN  [reorder |-> served.reorder, achieved |-> served.achieved, expected |-> expected,
       safety |-> served.reorder - expected]
\* The least demand that serves the target; what is said to be achieved is not overstated.
ReplenishmentJustified(q, a) ==
  /\ Mass(q, AtMost(q, a.reorder)) >= a.achieved
  /\ a.achieved >= q.target
  /\ \A level \in Elements(q.demands) :
       level < a.reorder => Mass(q, AtMost(q, level)) < q.target

-----------------------------------------------------------------------------
(* Workforce and routes: depth-first searches that drop a partial choice   *)
(* as soon as it costs as much as the best complete one.                   *)
MaximumTasks == 16
WorkforceError(q) ==
  FirstError(
    << <<q.costs = << >> \/ q.capacities = << >>, "EmptyProblem">>,
       <<Len(q.costs) > MaximumTasks, "TooManyTasks">>,
       <<\E row \in Elements(q.costs) : Len(row) # Len(q.capacities), "WorkerWidthMismatch">>,
       <<\E row \in Elements(q.costs) : \E cost \in Elements(row) : cost # Absent /\ cost < 0,
         "NegativeField">> >>)
Free(q, workers, worker) ==
  Cardinality({t \in DOMAIN workers : workers[t] = worker}) < q.capacities[worker]
AssignmentCost(q, workers) == SumFunction([t \in DOMAIN workers |-> q.costs[t][workers[t]]])

NothingYet == [found |-> FALSE, cost |-> 0, choice |-> << >>]
NotWorth(cost, best) == best.found /\ cost >= best.cost

RECURSIVE WorkforceDfs(_, _, _)
WorkforceDfs(q, workers, best) ==
  LET cost == AssignmentCost(q, workers)
      Try(current, worker) ==
        IF Free(q, workers, worker) /\ q.costs[Len(workers) + 1][worker] # Absent
        THEN WorkforceDfs(q, Append(workers, worker), current) ELSE current
  IN  IF NotWorth(cost, best) THEN best
      ELSE IF Len(workers) = Len(q.costs)
      THEN [found |-> TRUE, cost |-> cost, choice |-> workers]
      ELSE FoldLeft(Try, best, Indices(q.capacities))

MaximumRouteNodes == 11
RouteError(q) ==
  FirstError(
    << <<q.distances = << >>, "EmptyProblem">>,
       <<Len(q.distances) > MaximumRouteNodes, "TooManyRouteNodes">>,
       <<\E row \in Elements(q.distances) : Len(row) # Len(q.distances) \/ Negative(row),
         "InvalidDistanceMatrix">> >>)
Depot == 1
Length(q, stops) ==
  SumFunction([k \in 1..(Len(stops) - 1) |-> q.distances[stops[k]][stops[k + 1]]])

RECURSIVE RouteDfs(_, _, _)
RouteDfs(q, stops, best) ==
  LET closed == Append(stops, Depot)
      Try(current, next) ==
        IF next \in Elements(stops) THEN current ELSE RouteDfs(q, Append(stops, next), current)
  IN  IF NotWorth(Length(q, stops), best) THEN best
      ELSE IF Len(stops) < Len(q.distances) THEN FoldLeft(Try, best, Indices(q.distances))
      ELSE IF NotWorth(Length(q, closed), best) THEN best
      ELSE [found |-> TRUE, cost |-> Length(q, closed), choice |-> closed]

SolveWorkforce(q) == WorkforceDfs(q, << >>, NothingYet)
SolveRoute(q) ==
  IF Len(q.distances) = 1 THEN [found |-> TRUE, cost |-> 0, choice |-> <<Depot, Depot>>]
  ELSE RouteDfs(q, <<Depot>>, NothingYet)

\* The search found the first of the cheapest choices, or there is no choice at all.
FirstCheapest(choices, Cost(_), a) ==
  /\ a.found <=> choices # {}
  /\ a.found =>
       /\ a.choice \in choices /\ a.cost = Cost(a.choice)
       /\ \A other \in choices \ {a.choice} :
            a.cost < Cost(other) \/ (a.cost = Cost(other) /\ LexBefore(a.choice, other))
Assignments(q) ==
  {w \in [DOMAIN q.costs -> DOMAIN q.capacities] :
    /\ \A t \in DOMAIN w : q.costs[t][w[t]] # Absent
    /\ \A worker \in DOMAIN q.capacities :
         Cardinality({t \in DOMAIN w : w[t] = worker}) <= q.capacities[worker]}
Tours(q) ==
  IF Len(q.distances) = 1 THEN {<<Depot, Depot>>}
  ELSE {<<Depot>> \o rest \o <<Depot>> : rest \in SetToSeqs(DOMAIN q.distances \ {Depot})}
WorkforceJustified(q, a) ==
  FirstCheapest(Assignments(q), LAMBDA workers : AssignmentCost(q, workers), a)
RouteJustified(q, a) ==
  /\ FirstCheapest(Tours(q), LAMBDA stops : IF Len(stops) = 2 THEN 0 ELSE Length(q, stops), a)
  /\ a.found

-----------------------------------------------------------------------------
(* Inventory: order quantities against a distribution of demand.           *)
InventoryStateError(q) ==
  FirstError(<< <<q.demands = << >>, "EmptyDemandDistribution">>,
                <<\E p \in Elements(q.probabilities) : p = 0, "ZeroProbabilityOutcome">>,
                <<MassMissing(q.probabilities), "ProbabilityMassMismatch">>,
                <<Negative(<<q.price, q.cost, q.salvage, q.penalty>>), "NegativeField">> >>)
EvaluateInventory(q, quantity) ==
  LET sold == [i \in DOMAIN q.demands |-> Smaller(quantity, q.demands[i])]
      profit == [i \in DOMAIN q.demands |->
                  sold[i] * q.price + (quantity - sold[i]) * q.salvage
                    - quantity * q.cost - (q.demands[i] - sold[i]) * q.penalty]
  IN  [quantity |-> quantity,
       profit |-> Dot(q.probabilities, profit),
       sold |-> Dot(q.probabilities, sold),
       lost |-> Dot(q.probabilities, [i \in DOMAIN sold |-> q.demands[i] - sold[i]]),
       leftover |-> Dot(q.probabilities, [i \in DOMAIN sold |-> quantity - sold[i]]),
       stockout |-> Mass(q, {i \in DOMAIN q.demands : q.demands[i] > quantity}),
       excess |-> Mass(q, {i \in DOMAIN q.demands : q.demands[i] < quantity})]
DecideInventory(q) ==
  LET Signature(i) == EvaluateInventory(q, q.quantities[i])
  IN  [profit |-> Signature(FirstBest(Indices(q.quantities),
                     [i \in DOMAIN q.quantities |-> <<Signature(i).profit>>])),
       service |-> Signature(FirstBest(Indices(q.quantities),
                     [i \in DOMAIN q.quantities |-> <<-Signature(i).stockout, Signature(i).profit>>]))]
\* The newsvendor's rule: with every quantity up to the highest demand on offer and
\* salvage below price and penalty, the best quantity is the least whose service
\* level reaches the critical ratio of underage to underage and overage.
InventoryJustified(q, a) ==
  LET underage == q.price + q.penalty - q.cost
      overage == q.cost - q.salvage
      Reaches(quantity) == Mass(q, AtMost(q, quantity)) * (underage + overage)
                             >= underage * Scale
      offered == Elements(q.quantities)
  IN  /\ \A s \in {a.profit, a.service} :
           /\ s.sold + s.lost = Dot(q.probabilities, q.demands)
           /\ s.sold + s.leftover = s.quantity * Scale
      /\ a.service.stockout <= a.profit.stockout /\ a.service.profit <= a.profit.profit
      /\ (offered = 0..Max(Elements(q.demands)) /\ underage > 0 /\ overage > 0) =>
           /\ Reaches(a.profit.quantity)
           /\ \A quantity \in 0..(a.profit.quantity - 1) :
                ~Reaches(quantity) \/ EvaluateInventory(q, quantity).profit = a.profit.profit

-----------------------------------------------------------------------------
(* Prices on a demand curve, and unit economics.                           *)
PricingError(q) ==
  LET prices == [i \in DOMAIN q.curve |-> q.curve[i].price]
  IN  FirstError(<< <<q.curve = << >>, "EmptyCurve">>,
                    <<Negative(prices), "NegativeField">>,
                    <<~Distinct(prices), "DuplicatePrice">>,
                    <<Negative(<<q.cost, q.fixed>>), "NegativeField">>,
                    <<\E price \in Elements(q.prices) : price \notin Elements(prices),
                      "PriceNotInCurve">> >>)
EvaluateUnits(s, oneTime) ==
  LET served == Smaller(s.demand, s.capacity)
      profit == served * s.price - served * s.cost - s.fixed
  IN  [served |-> served, unmet |-> s.demand - served, unused |-> s.capacity - served,
       revenue |-> served * s.price, profit |-> profit, net |-> profit + oneTime]
EvaluatePrice(q, price) ==
  LET point == CHOOSE p \in Elements(q.curve) : p.price = price
  IN  EvaluateUnits([demand |-> point.demand, capacity |-> q.capacity, price |-> price,
                     cost |-> q.cost, fixed |-> q.fixed], 0)
DecidePrice(q) ==
  LET Signature(i) == EvaluatePrice(q, q.prices[i])
  IN  [profit |-> Signature(FirstBest(Indices(q.prices),
                    [i \in DOMAIN q.prices |-> <<Signature(i).profit>>])),
       revenue |-> Signature(FirstBest(Indices(q.prices),
                    [i \in DOMAIN q.prices |-> <<Signature(i).revenue>>])),
       volume |-> Signature(FirstBest(Indices(q.prices),
                    [i \in DOMAIN q.prices |-> <<Signature(i).profit, Signature(i).served>>]))]
\* Whoever maximises profit serves no more than whoever maximises revenue, unless
\* serving is free; and served volume only settles ties of profit.
PricingJustified(q, a) ==
  /\ q.cost > 0 => a.profit.served <= a.revenue.served
  /\ q.cost = 0 => a.profit.revenue = a.revenue.revenue
  /\ a.volume.profit = a.profit.profit /\ a.volume.served >= a.profit.served

UnitError(s) == FirstError(<< <<Negative(<<s.price, s.cost, s.fixed>>), "NegativeField">> >>)
Adjusted(state, delta) == [field \in DOMAIN state |-> state[field] + delta[field]]
UnitEconomicsError(q) ==
  FirstOf(<< UnitError(q.state) >> \o
    [k \in DOMAIN q.interventions |->
      LET s == Adjusted(q.state, q.interventions[k].delta)
      IN  IF s.demand < 0 \/ s.capacity < 0 THEN "UnitDeltaOutOfRange" ELSE UnitError(s)])
CapacityAware(signature, penalty) == signature.net - signature.unmet * penalty
DecideUnits(q) ==
  LET Signature(k) == EvaluateUnits(Adjusted(q.state, q.interventions[k].delta),
                                    q.interventions[k].oneTime)
  IN  [baseline |-> EvaluateUnits(q.state, 0),
       signatures |-> [k \in DOMAIN q.interventions |-> Signature(k)],
       chosen |-> FirstBest(Indices(q.interventions),
                   [k \in DOMAIN q.interventions |-> <<CapacityAware(Signature(k), q.penalty)>>])]
\* Capacity alone is worth exactly the unmet demand it serves: nothing when there is
\* none, and never a loss when a unit covers its cost.
UnitsJustified(q, a) ==
  \A k \in DOMAIN q.interventions :
    LET intervention == q.interventions[k]
        gain == a.signatures[k].net - intervention.oneTime - a.baseline.net
    IN  /\ a.signatures[k].served + a.signatures[k].unmet = q.state.demand + intervention.delta.demand
        /\ CapacityAware(a.signatures[k], q.penalty)
             <= CapacityAware(a.signatures[a.chosen], q.penalty)
        /\ (\A field \in DOMAIN q.state \ {"capacity"} : intervention.delta[field] = 0)
             /\ intervention.delta.capacity > 0 =>
             gain = Smaller(a.baseline.unmet, intervention.delta.capacity)
                      * (q.state.price - q.state.cost)

-----------------------------------------------------------------------------
(* Break-even and discounted cash flows.                                   *)
BreakEvenError(q) ==
  FirstError(<< <<Negative(<<q.state.price, q.state.cost, q.state.fixed>>), "NegativeField">>,
                <<\E field \in DOMAIN q.state : Adjusted(q.state, q.delta)[field] < 0,
                  "NegativeField">> >>)
SummarizeBreakEven(s) ==
  LET margin == s.price - s.cost
      units == IF s.fixed = 0 THEN 0
               ELSE IF margin <= 0 THEN Absent
               ELSE (s.fixed + margin - 1) \div margin
  IN  [units |-> units, profit |-> s.units * margin - s.fixed,
       safety |-> IF units = Absent THEN Absent ELSE s.units - units]
EvaluateBreakEven(q) == SummarizeBreakEven(Adjusted(q.state, q.delta))
\* The least volume that covers the fixed cost; none only when no volume does; and
\* while a unit earns something, a margin of safety is exactly the absence of a loss.
BreakEvenJustified(q, a) ==
  LET s == Adjusted(q.state, q.delta)
      Covers(units) == units * (s.price - s.cost) >= s.fixed
  IN  IF a.units = Absent THEN \A units \in 0..(s.fixed + 1) : ~Covers(units)
      ELSE /\ Covers(a.units) /\ \A units \in 0..(a.units - 1) : ~Covers(units)
           /\ s.price > s.cost => (a.safety >= 0 <=> a.profit >= 0)

CashFlowError(q) == FirstError(<< <<q.flows = << >>, "EmptyCashFlowPlan">> >>)
\* The factor of each period is that of the one before, discounted and truncated.
Factor(rate, period) ==
  FoldLeft(LAMBDA factor, t : (factor * Scale) \div (Scale + rate), Scale, [t \in 1..period |-> t])
Cumulated(flows) == [t \in DOMAIN flows |-> SumFunctionOnSet(flows, 1..t)]
Payback(flows) ==
  LET paid == {t \in DOMAIN flows : Cumulated(flows)[t] >= 0}
  IN  IF paid = {} THEN Absent ELSE Min(paid)
SummarizeCashFlows(q) ==
  LET discounted == [t \in DOMAIN q.flows |-> Truncated(q.flows[t] * Factor(q.rate, t - 1), Scale)]
      lowest == Min({0} \cup Elements(Cumulated(q.flows)))
  IN  [total |-> SumFunction(q.flows), npv |-> SumFunction(discounted),
       payback |-> Payback(q.flows), discountedPayback |-> Payback(discounted),
       capital |-> -lowest, factor |-> Factor(q.rate, Len(q.flows))]
\* A plan worth its money is paid back; without a rate discounting changes nothing;
\* an investment that only earns afterwards is never paid back earlier, nor worth
\* more, when it is discounted.
CashFlowJustified(q, a) ==
  /\ a.npv >= 0 => a.discountedPayback # Absent
  /\ q.rate = 0 => a.npv = a.total /\ a.discountedPayback = a.payback /\ a.factor = Scale
  /\ (\A t \in DOMAIN q.flows \ {1} : q.flows[t] >= 0) =>
       /\ a.npv <= a.total
       /\ a.discountedPayback # Absent => a.payback # Absent /\ a.payback <= a.discountedPayback

-----------------------------------------------------------------------------
(* Customers: lifetime value, retention, promotions, assortments.          *)
LifetimeError(q) ==
  FirstOf(<<FirstError(<< <<q.margins = << >>, "EmptyPlan">> >>)>> \o
    [t \in DOMAIN q.margins |->
      FirstError(<< <<q.retention[t] > Scale, "ProbabilityOutOfRange">>,
                    <<q.margins[t] < 0, "NegativeField">> >>)])
\* Survival, the expected margin and its discounting are truncated in turn.
Survival(retention, period) ==
  FoldLeft(LAMBDA survival, r : (survival * r) \div Scale, Scale, SubSeq(retention, 1, period))
CustomerLifetimeValue(q) ==
  LET expected == [t \in DOMAIN q.margins |-> (q.margins[t] * Survival(q.retention, t)) \div Scale]
      discounted == [t \in DOMAIN q.margins |-> (expected[t] * Factor(q.rate, t - 1)) \div Scale]
  IN  [value |-> SumFunction(discounted), periods |-> discounted,
       survival |-> Survival(q.retention, Len(q.margins))]
\* The truncations never overstate what a customer is worth.
LifetimeJustified(q, a) ==
  \A t \in DOMAIN q.margins :
    a.periods[t] * Scale^t * (Scale + q.rate)^(t - 1)
      <= q.margins[t] * FoldLeft(LAMBDA product, r : product * r, 1, SubSeq(q.retention, 1, t))
           * Scale^(t - 1)

RetentionError(q) ==
  FirstError(<< <<q.churn > Scale, "ProbabilityOutOfRange">>,
                <<q.uplift > q.churn, "UpliftExceedsChurn">>,
                <<Negative(<<q.value, q.incentive, q.contact>>), "NegativeField">> >>)
EvaluateRetention(q) ==
  LET saved == (q.value * q.uplift) \div Scale
  IN  [saved |-> saved, incremental |-> saved - (q.incentive + q.contact),
       residual |-> q.churn - q.uplift]
\* An increment is announced only when the saved value really covers the cost.
RetentionJustified(q, a) ==
  a.incremental >= 0 <=> q.value * q.uplift >= (q.incentive + q.contact) * Scale

PromotionError(q) == FirstError(<< <<Negative(<<q.price, q.cost, q.fixed>>), "NegativeField">> >>)
EvaluatePromotion(q) ==
  [revenue |-> q.demand * q.price, profit |-> q.demand * q.price - q.demand * q.cost - q.fixed,
   margin |-> q.price - q.cost]
\* A promotion is worth what the unit economics say of it when capacity is no limit,
\* and covers its cost from its break-even volume on.
PromotionJustified(q, a) ==
  LET units == EvaluateUnits([demand |-> q.demand, capacity |-> q.demand, price |-> q.price,
                              cost |-> q.cost, fixed |-> q.fixed], 0)
      breakEven == SummarizeBreakEven([units |-> q.demand, price |-> q.price, cost |-> q.cost,
                                       fixed |-> q.fixed])
  IN  /\ units.profit = a.profit
      /\ a.margin > 0 => (a.profit >= 0 <=> breakEven.safety >= 0)

MaximumProducts == 24
AssortmentError(q) ==
  FirstError(<< <<q.margins = << >>, "EmptyPlan">>,
                <<q.maximumCapital < 0 \/ Negative(q.margins) \/ Negative(q.capital), "NegativeField">>,
                <<Len(q.margins) > MaximumProducts, "TooManyProducts">>,
                <<2^Len(q.margins) > q.maximumAssignments, "EnumerationBudgetTooSmall">> >>)
Stockable(q, products) ==
  SumOver(q.capital, products) <= q.maximumCapital /\ SumOver(q.slots, products) <= q.maximumSlots
AssortmentWorth(q, products) == <<SumOver(q.margins, products), -SumOver(q.capital, products)>>
SelectAssortment(q) ==
  LET subsets == SubsetsOf(Len(q.margins))
      stockable == SelectSeq(Indices(subsets), LAMBDA m : Stockable(q, subsets[m]))
  IN  subsets[FirstBest(stockable, [m \in DOMAIN subsets |-> AssortmentWorth(q, subsets[m])])]
\* No stockable assortment earns more, or as much with less capital.
AssortmentJustified(q, a) ==
  /\ Stockable(q, a.chosen)
  /\ \A products \in SUBSET DOMAIN q.margins : Stockable(q, products) =>
       ~LexBefore(AssortmentWorth(q, a.chosen), AssortmentWorth(q, products))

-----------------------------------------------------------------------------
Kinds == {"replenishment", "workforce", "route", "inventory", "pricing", "units", "break_even",
          "cash_flow", "lifetime", "retention", "promotion", "assortment"}
Rejection(q) ==
  CASE q.kind = "replenishment" -> ReplenishmentError(q)
    [] q.kind = "workforce" -> WorkforceError(q)
    [] q.kind = "route" -> RouteError(q)
    [] q.kind = "inventory" -> InventoryStateError(q)
    [] q.kind = "pricing" -> PricingError(q)
    [] q.kind = "units" -> UnitEconomicsError(q)
    [] q.kind = "break_even" -> BreakEvenError(q)
    [] q.kind = "cash_flow" -> CashFlowError(q)
    [] q.kind = "lifetime" -> LifetimeError(q)
    [] q.kind = "retention" -> RetentionError(q)
    [] q.kind = "promotion" -> PromotionError(q)
    [] q.kind = "assortment" -> AssortmentError(q)
Answers(q) ==
  CASE q.kind = "replenishment" -> ReplenishmentPolicy(q)
    [] q.kind = "workforce" -> SolveWorkforce(q)
    [] q.kind = "route" -> SolveRoute(q)
    [] q.kind = "inventory" -> DecideInventory(q)
    [] q.kind = "pricing" -> DecidePrice(q)
    [] q.kind = "units" -> DecideUnits(q)
    [] q.kind = "break_even" -> EvaluateBreakEven(q)
    [] q.kind = "cash_flow" -> SummarizeCashFlows(q)
    [] q.kind = "lifetime" -> CustomerLifetimeValue(q)
    [] q.kind = "retention" -> EvaluateRetention(q)
    [] q.kind = "promotion" -> EvaluatePromotion(q)
    [] q.kind = "assortment" -> [chosen |-> SelectAssortment(q)]
Justified(q, a) ==
  CASE q.kind = "replenishment" -> ReplenishmentJustified(q, a)
    [] q.kind = "workforce" -> WorkforceJustified(q, a)
    [] q.kind = "route" -> RouteJustified(q, a)
    [] q.kind = "inventory" -> InventoryJustified(q, a)
    [] q.kind = "pricing" -> PricingJustified(q, a)
    [] q.kind = "units" -> UnitsJustified(q, a)
    [] q.kind = "break_even" -> BreakEvenJustified(q, a)
    [] q.kind = "cash_flow" -> CashFlowJustified(q, a)
    [] q.kind = "lifetime" -> LifetimeJustified(q, a)
    [] q.kind = "retention" -> RetentionJustified(q, a)
    [] q.kind = "promotion" -> PromotionJustified(q, a)
    [] q.kind = "assortment" -> AssortmentJustified(q, a)
=============================================================================
