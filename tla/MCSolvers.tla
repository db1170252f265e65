----------------------------- MODULE MCSolvers -----------------------------
(***************************************************************************)
(* The solvers and decision models of prospect-commercial(-advanced), one  *)
(* at a time, each on a problem of its own.  The three searches take many  *)
(* steps, and what they hold between two steps is what a property is       *)
(* about; a decision model answers in one.  None of them shares state with *)
(* another.                                                                *)
(*                                                                         *)
(* The problems come after the model: of two to four variables, small      *)
(* enough to be solved by trying everything, and one of every refusal.     *)
(* Probabilities are out of 4.                                             *)
(***************************************************************************)
EXTENDS SequencesExt, Integers

CONSTANTS
  Open,      \* a variable a search has not assigned
  Absent,    \* an Option that is None
  Scale,     \* PROBABILITY_SCALE_PPM
  Problems   \* for each solver, the problems it is given

ASSUME ScaleAssumption == Scale \in Nat \ {0}

VARIABLES solver, problem, work, tally, answer
vars == <<solver, problem, work, tally, answer>>

Linear == INSTANCE BranchAndBound
Finite == INSTANCE FiniteDomains
Propagation == INSTANCE Propagators
Risk == INSTANCE RiskDecisions
Operations == INSTANCE OperationsDecisions
Causal == INSTANCE CausalLearning

Unanswered == [result |-> "none"]
Decisions == {"risk", "operations", "causal"}

Init ==
  /\ solver \in DOMAIN Problems
  /\ problem \in Problems[solver]
  /\ CASE solver = "linear" -> Linear!Start(problem)
       [] solver = "finite" -> Finite!Start(problem)
       [] solver = "propagation" -> Propagation!Start(problem)
       [] solver \in Decisions -> work = << >> /\ tally = << >> /\ answer = Unanswered

Rejection(q) ==
  CASE solver = "risk" -> Risk!Rejection(q)
    [] solver = "operations" -> Operations!Rejection(q)
    [] solver = "causal" -> Causal!Rejection(q)
Answers(q) ==
  CASE solver = "risk" -> Risk!Answers(q)
    [] solver = "operations" -> Operations!Answers(q)
    [] solver = "causal" -> Causal!Answers(q)
Justified(q, a) ==
  CASE solver = "risk" -> Risk!Justified(q, a)
    [] solver = "operations" -> Operations!Justified(q, a)
    [] solver = "causal" -> Causal!Justified(q, a)

SolveLinear == solver = "linear" /\ Linear!Next /\ UNCHANGED solver
SolveFinite == solver = "finite" /\ Finite!Next /\ UNCHANGED solver
Propagate == solver = "propagation" /\ Propagation!Next /\ UNCHANGED solver

\* A decision model refuses its question or answers it.
Refuse ==
  /\ solver \in Decisions /\ answer = Unanswered
  /\ Rejection(problem) # "none"
  /\ answer' = [result |-> Rejection(problem)]
  /\ UNCHANGED <<solver, problem, work, tally>>
Decide ==
  /\ solver \in Decisions /\ answer = Unanswered
  /\ Rejection(problem) = "none"
  /\ answer' = [result |-> "decided", decision |-> Answers(problem)]
  /\ UNCHANGED <<solver, problem, work, tally>>

Next == SolveLinear \/ SolveFinite \/ Propagate \/ Refuse \/ Decide
Spec == Init /\ [][Next]_vars

\* solver.rs, integer_solver.rs, constraint_propagation.rs, cp_*.rs: no search ever
\* drops the part of the space in which what it looks for lies, at any step of any
\* interleaving of pruning, propagation and backtracking.
NothingIsLost ==
  /\ solver = "linear" => Linear!OptimumIsAhead
  /\ solver = "finite" => Finite!SolutionsAreAhead
  /\ solver = "propagation" => Propagation!SolutionsAreKept

\* The same files: an optimum is the optimum, a solution a solution, "infeasible"
\* means that there is none, and a propagation leaves what its report claims.
AnswersAreExact ==
  /\ solver = "linear" => Linear!AnswerIsOptimal
  /\ solver = "finite" => Finite!AnswerIsASolution
  /\ solver = "propagation" => Propagation!ReportIsTrue

\* Every decision model that accepts a question answers it as its definition in the
\* literature would: worst cases, least service levels, cheapest tours, critical
\* ratios, fronts, thresholds, separation in causal graphs, values of information.
DecisionsAreBest ==
  answer.result = "decided" => Justified(problem, answer.decision)

-----------------------------------------------------------------------------
Relations == {"LessOrEqual", "Equal", "GreaterOrEqual"}
Pairs(values) == {<<x, y>> : x \in values, y \in values}
Triples(values) == {<<x, y, z>> : x \in values, y \in values, z \in values}

-----------------------------------------------------------------------------
Variable(lower, upper, objective) == [lower |-> lower, upper |-> upper, objective |-> objective]
Row(coefficients, relation, rhs) ==
  [coefficients |-> coefficients, relation |-> relation, rhs |-> rhs]
LinearProblem(kind, variables, constraints, budget) ==
  [kind |-> kind, variables |-> variables, constraints |-> constraints, budget |-> budget]
Binary(objectives) == [i \in DOMAIN objectives |-> Variable(0, 1, objectives[i])]

BinaryProblems ==
  {LinearProblem("binary", Binary(o), <<Row(c, r, rhs)>>, 99) :
    o \in {<<1, 1, 1>>, <<2, -1, 0>>, <<1, 2, -3>>, <<-1, -1, 2>>},
    c \in {<<1, 1, 1>>, <<2, -1, 1>>}, r \in Relations, rhs \in {-1, 1, 2}}
IntegerProblems ==
  {LinearProblem("integer", <<Variable(-1, 1, o[1]), Variable(0, 2, o[2])>>,
                 <<Row(c, r, rhs), Row(<<1, 1>>, "LessOrEqual", 2)>>, 99) :
    o \in Pairs({-1, 0, 2}), c \in {<<1, 1>>, <<2, -1>>}, r \in Relations, rhs \in {0, 1}}
RefusedLinear ==
  {LinearProblem("binary", << >>, << >>, 9), LinearProblem("integer", << >>, << >>, 0),
   LinearProblem("binary", Binary(<<1, 1>>), << >>, 0),
   LinearProblem("integer", <<Variable(1, 0, 1)>>, << >>, 9),
   LinearProblem("binary", Binary(<<1, 1>>), <<Row(<<1>>, "Equal", 1)>>, 9)}
LinearProblems ==
  BinaryProblems \cup IntegerProblems \cup RefusedLinear
    \cup {LinearProblem("binary", Binary(<<1, 1, 1>>), << >>, budget) : budget \in {1, 3}}

-----------------------------------------------------------------------------
Constraint(kind, variables, weights, relation, rhs) ==
  [kind |-> kind, variables |-> variables, weights |-> weights, relation |-> relation, rhs |-> rhs]
AllDifferent(variables) == Constraint("AllDifferent", variables, << >>, "Equal", 0)
LinearOver(variables, weights, relation, rhs) ==
  Constraint("Linear", variables, weights, relation, rhs)
NoOverlap(variables, durations) == Constraint("NoOverlap", variables, durations, "Equal", 0)
FiniteProblem(kind, domains, constraints, budget) ==
  [kind |-> kind, domains |-> domains, constraints |-> constraints, budget |-> budget]

FiniteKinds == {"plain", "propagate", "propagated"}
DomainLists ==
  {<<<<0, 1>>, <<0, 1, 2>>, <<1, 0>>>>, <<<<2, 2, 0>>, <<1>>, <<0, 1, 2, 3>>>>,
   <<<<0, 1>>, <<0, 1>>, <<0, 1>>>>, <<<<1, 3>>, <<0, 2>>, <<2, 1>>>>}
ConstraintLists ==
  {<<AllDifferent(<<1, 2, 3>>)>>, <<AllDifferent(<<1, 1>>)>>, << >>,
   <<NoOverlap(<<1, 2, 3>>, <<1, 2, 1>>)>>, <<NoOverlap(<<1, 2>>, <<1, 1>>), AllDifferent(<<3, 2>>)>>,
   <<LinearOver(<<1, 3>>, <<1, -1>>, "Equal", 0), AllDifferent(<<1, 2>>)>>,
   <<LinearOver(<<1, 1, 2>>, <<1, 1, -1>>, "LessOrEqual", 0),
     LinearOver(<<2, 3>>, <<1, 1>>, "GreaterOrEqual", 2), NoOverlap(<<1, 3>>, <<1, 1>>)>>}
RefusedFinite ==
  {FiniteProblem(kind, << >>, << >>, 9) : kind \in FiniteKinds}
    \cup {FiniteProblem(kind, <<<<0>>, << >>>>, << >>, 9) : kind \in FiniteKinds}
    \cup {FiniteProblem(kind, <<<<0>>>>, << >>, 0) : kind \in {"plain", "propagated"}}
    \cup {FiniteProblem(kind, <<<<0>>, <<1>>>>, <<c>>, 9) :
           kind \in FiniteKinds,
           c \in {AllDifferent(<<3>>), AllDifferent(<< >>), NoOverlap(<<1>>, <<0>>),
                  LinearOver(<< >>, << >>, "Equal", 0), LinearOver(<<1>>, <<1, 1>>, "Equal", 0)}}
FiniteProblems ==
  {FiniteProblem(kind, domains, constraints, 99) :
    kind \in FiniteKinds, domains \in DomainLists, constraints \in ConstraintLists}
    \cup {FiniteProblem(kind, <<<<0, 1>>, <<0, 1>>, <<0, 1>>>>, <<AllDifferent(<<1, 2, 3>>)>>, 2) :
           kind \in {"plain", "propagated"}}
    \cup {FiniteProblem(kind, <<<<1>>, <<1>>>>, <<AllDifferent(<<1, 2>>)>>, 9) : kind \in FiniteKinds}
    \cup RefusedFinite

-----------------------------------------------------------------------------
Task(starts, duration, demand) == [starts |-> starts, duration |-> duration, demand |-> demand]
PropagationProblem(kind, tasks, capacity, budget) ==
  [kind |-> kind, tasks |-> tasks, capacity |-> capacity, budget |-> budget]
PropagationKinds == {"all_different", "timetable", "energy", "pairwise", "global"}
StartLists ==
  {<<<<0, 1>>, <<1, 0>>, <<0, 1, 2>>>>, <<<<0, 3>>, <<1, 1>>, <<2, 0>>>>,
   <<<<0, 1>>, <<0, 1>>, <<0, 1>>>>, <<<<0, 2>>, <<0, 1, 2, 3>>>>, <<<<0, 1, 2>>, <<1>>, <<0, 2, 4>>>>}
Tasks(starts, durations, demands) ==
  [i \in DOMAIN starts |-> Task(starts[i], durations[i], demands[i])]
RefusedPropagation ==
  {PropagationProblem(kind, << >>, 1, 9) : kind \in PropagationKinds}
    \cup {PropagationProblem(kind, <<Task(<< >>, 1, 1)>>, 1, 9) : kind \in PropagationKinds}
    \cup {PropagationProblem(kind, <<Task(<<0>>, 0, 0)>>, 1, 9) : kind \in PropagationKinds}
    \cup {PropagationProblem(kind, <<Task(<<0>>, 1, 1)>>, capacity, 0) :
           kind \in PropagationKinds, capacity \in {0, 1}}
PropagationProblems ==
  {PropagationProblem(kind, Tasks(starts, durations, demands), 2, 99) :
    kind \in PropagationKinds, starts \in StartLists,
    durations \in {<<1, 1, 1>>, <<2, 1, 2>>}, demands \in {<<1, 2, 1>>, <<1, 1, 1>>}}
    \cup {PropagationProblem(kind, Tasks(<<<<0, 1>>, <<0, 1, 2>>, <<0, 3>>>>, <<1, 1, 2>>, <<1, 1, 2>>), 2, 3) :
           kind \in {"energy", "global"}}
    \cup {PropagationProblem(kind, Tasks(<<<<0>>, <<1>>>>, <<2, 1>>, <<2, 1>>), 2, 99) :
           kind \in PropagationKinds}
    \cup RefusedPropagation

-----------------------------------------------------------------------------
Masses == {<<4, 0, 0>>, <<1, 1, 2>>, <<2, 1, 1>>, <<1, 3, 0>>}
Payoffs == {<<-3, 2, 5>>, <<1, 1, -1>>, <<0, -2, 7>>}
Matrices == {<<<<1, -3, 2>>, <<0, 0, 0>>, <<-3, 5, -3>>>>, <<<<2, 2, 2>>, <<2, 5, 1>>>>, <<<<-1, -1, -2>>>>}
Bid(bid, value, cost, win) == [bid |-> bid, value |-> value, cost |-> cost, win |-> win]
Distribution(probabilities, payoffs) == [probabilities |-> probabilities, payoffs |-> payoffs]

Scenarios ==
  {[kind |-> "scenarios", payoffs |-> p, probabilities |-> m, satisfied |-> s, tail |-> t] :
    p \in Payoffs, m \in Masses, s \in {<<TRUE, TRUE, FALSE>>}, t \in {0, 1, 3, 4}}
    \cup {[kind |-> "scenarios", payoffs |-> << >>, probabilities |-> << >>, satisfied |-> << >>, tail |-> 1],
          [kind |-> "scenarios", payoffs |-> <<1>>, probabilities |-> <<3>>, satisfied |-> <<TRUE>>, tail |-> 1]}
Intervals ==
  {[kind |-> "intervals", payoffs |-> p, lower |-> l, upper |-> u] :
    p \in Payoffs \cup {<<2, 2, 1>>}, l \in {<<0, 0, 0>>, <<1, 1, 0>>, <<2, 3, 0>>},
    u \in {<<1, 1, 1>>, <<2, 3, 1>>, <<4, 4, 4>>}}
Portfolios ==
  {[kind |-> "portfolio", costs |-> c, budget |-> b, payoffs |-> p, probabilities |-> m,
    maximumAssets |-> n, maximumAssignments |-> l] :
    c \in {<<1, 2, 1>>, << >>, <<-1, 1, 1>>}, b \in {-1, 0, 2, 3},
    p \in {<<<<1, -2, 3>>, <<-2, 4, 0>>>>, <<<<1, 1, 2>>, <<1, 1, 2>>>>, <<<<1, 1>>, <<1, 1>>>>},
    m \in {<<2, 2>>, <<1, 2>>}, n \in {Absent, 1}, l \in {4, 8}}
Competitions ==
  {[kind |-> "competition", payoffs |-> p, known |-> k, probabilities |-> m] :
    p \in Matrices \cup {<<>>, <<<<>>>>, <<<<1, 2, 3>>, <<1>>>>}, k \in BOOLEAN,
    m \in {<<1, 1, 2>>, <<4, 0, 0>>, <<1, 1, 1>>, <<4>>}}
Bids ==
  {[kind |-> "bids", bids |-> <<Bid(3, v, 1, 2), Bid(2, v, 1, w), Bid(2, v, 0, 1)>>] :
    v \in {0, 4, 7}, w \in {1, 2, 4}}
    \cup {[kind |-> "bids", bids |-> << >>], [kind |-> "bids", bids |-> <<Bid(1, 1, 1, 5)>>],
          [kind |-> "bids", bids |-> <<Bid(-1, 1, 1, 1)>>]}
Robusts ==
  {[kind |-> "robust", payoffs |-> p, optimism |-> o, baseline |-> b] :
    p \in Matrices \cup {<<>>, <<<<>>>>, <<<<1, 2, 3>>, <<1>>>>}, o \in {0, 2, 4, 5}, b \in {1, 4}}
Stresses ==
  {[kind |-> "stress", baseline |-> b, impacts |-> p, probabilities |-> m] :
    b \in {-1, 0, 2}, p \in Payoffs, m \in Masses \cup {<<5, 0, 0>>, <<1, 1, 1>>}}
    \cup {[kind |-> "stress", baseline |-> 0, impacts |-> << >>, probabilities |-> << >>]}
Options ==
  {[kind |-> "option", probabilities |-> m, values |-> v] :
    m \in {<<1, 3>>, <<2, 2>>, <<1, 1>>, << >>},
    v \in {<<<<1, 1>>, <<0, 2>>, <<-3, 2>>, <<0, 0>>>>, <<<<-1, -1>>, <<-3, 0>>, <<-2, -1>>, <<-1, 0>>>>}}
Distributions ==
  {[kind |-> "distributions", tail |-> t,
    candidates |-> <<Distribution(<<1, 3>>, <<-2, 3>>), Distribution(m, p), Distribution(<<2, 2>>, <<-1, 2>>)>>] :
    t \in {0, 1, 2, 4}, m \in {<<4>>, <<1, 3>>, <<3, 1>>, <<2, 2>>, <<4, 0>>, <<1, 1>>, << >>},
    p \in {<<-2, 4>>, <<3, -1>>, <<0>>, << >>}}
RiskProblems ==
  Scenarios \cup Intervals \cup Portfolios \cup Competitions \cup Bids \cup Robusts \cup Stresses
    \cup Options \cup {q \in Distributions : \A d \in {q.candidates[2]} : Len(d.payoffs) = Len(d.probabilities)}

-----------------------------------------------------------------------------
Replenishments ==
  {[kind |-> "replenishment", demands |-> d, probabilities |-> m, target |-> t] :
    d \in {<<3, 1, 2>>, <<2, 2, 0>>, <<0, 5, 5>>}, m \in Masses \cup {<<1, 1, 1>>}, t \in 0..5}
    \cup {[kind |-> "replenishment", demands |-> << >>, probabilities |-> << >>, target |-> 1]}
Workforces ==
  {[kind |-> "workforce", costs |-> c, capacities |-> w] :
    c \in {<<<<3, 1>>, <<2, 2>>, <<1, 4>>>>, <<<<Absent, 1>>, <<1, Absent>>>>, <<<<1, 1>>, <<1, 1>>, <<1, 1>>>>,
           <<<<0, Absent>>, <<2, Absent>>, <<5, 1>>>>, << >>, <<<<1>>>>, <<<<-1, 0>>>>},
    w \in {<<1, 2>>, <<2, 1>>, <<3, 0>>, << >>}}
    \cup {[kind |-> "workforce", costs |-> [t \in 1..17 |-> <<1>>], capacities |-> <<17>>]}
Routes ==
  {[kind |-> "route", distances |-> <<<<0, x, 2, 3>>, <<2, 0, y, 1>>, <<1, 2, 0, z>>, <<1, 3, 1, 0>>>>] :
    x \in 0..3, y \in 0..2, z \in 0..2}
    \cup {[kind |-> "route", distances |-> d] :
           d \in {<< >>, <<<<7>>>>, <<<<0, 1>>>>, <<<<0, -1>>, <<1, 0>>>>, <<<<0, 2>>, <<3, 0>>>>,
                  [i \in 1..12 |-> [j \in 1..12 |-> 1]]}}
Inventories ==
  {[kind |-> "inventory", demands |-> d, probabilities |-> m, quantities |-> k,
    price |-> 6, cost |-> c, salvage |-> s, penalty |-> p] :
    d \in {<<3, 1, 2>>, <<0, 2, 3>>}, m \in {<<1, 1, 2>>, <<2, 1, 1>>, <<1, 3, 0>>, <<1, 1, 1>>},
    k \in {<<2, 0, 1, 3>>, <<1, 3>>}, c \in {-1, 2, 5}, s \in {0, 1}, p \in {0, 3}}
    \cup {[kind |-> "inventory", demands |-> << >>, probabilities |-> << >>, quantities |-> <<1>>,
           price |-> 1, cost |-> 1, salvage |-> 1, penalty |-> 1]}
Point(price, demand) == [price |-> price, demand |-> demand]
Pricings ==
  {[kind |-> "pricing", curve |-> curve, capacity |-> k, cost |-> c, fixed |-> f, prices |-> p] :
    curve \in {<<Point(3, 4), Point(2, 6), Point(5, 2)>>, <<Point(2, 5), Point(5, 2), Point(3, 3)>>,
               <<Point(2, 1), Point(2, 2)>>, <<Point(-1, 2)>>, << >>},
    k \in {0, 3, 9}, c \in {-1, 0, 1, 2}, f \in {0, 5}, p \in {<<5, 2, 3>>, <<2, 3, 5>>, <<4>>}}
Delta(demand, capacity, price, cost, fixed) ==
  [demand |-> demand, capacity |-> capacity, price |-> price, cost |-> cost, fixed |-> fixed]
UnitQuestions ==
  {[kind |-> "units", state |-> Delta(d, k, p, 2, 3), penalty |-> penalty,
    interventions |-> <<[delta |-> Delta(0, 2, 0, 0, 0), oneTime |-> -1],
                        [delta |-> Delta(1, 0, x, -1, 0), oneTime |-> 0],
                        [delta |-> Delta(y, 1, 0, 0, -2), oneTime |-> 2]>>] :
    d \in {2, 4}, k \in {1, 3, 5}, p \in {-1, 1, 4}, x \in {-3, 0, 1}, y \in {-3, 0}, penalty \in {0, 2}}
BreakEvens ==
  {[kind |-> "break_even", state |-> [units |-> u, price |-> p, cost |-> c, fixed |-> f],
    delta |-> [units |-> du, price |-> 1, cost |-> 0, fixed |-> df]] :
    u \in {0, 3}, p \in {-1, 0, 2, 3}, c \in {0, 2, 5}, f \in {0, 3, 7}, du \in {-1, 0, 2}, df \in {-3, 0}}
CashFlows ==
  {[kind |-> "cash_flow", flows |-> flows, rate |-> r] :
    flows \in Triples({-5, -1, 0, 3, 7}) \cup {<< >>, <<-4>>}, r \in {0, 1, 4}}
Lifetimes ==
  {[kind |-> "lifetime", margins |-> m, retention |-> r, rate |-> d] :
    m \in {<<9, 7, 5>>, <<3, 3, 3>>, <<-1, 1, 1>>}, r \in {<<4, 4, 4>>, <<3, 3, 3>>, <<4, 2, 1>>, <<5, 1, 1>>}, d \in {0, 1, 3}}
    \cup {[kind |-> "lifetime", margins |-> << >>, retention |-> << >>, rate |-> 0]}
Retentions ==
  {[kind |-> "retention", churn |-> c, uplift |-> u, value |-> v, incentive |-> i, contact |-> 1] :
    c \in {2, 4, 5}, u \in 0..3, v \in {0, 5, 9}, i \in {-1, 0, 2}}
Promotions ==
  {[kind |-> "promotion", demand |-> d, price |-> p, cost |-> c, fixed |-> f] :
    d \in 0..3, p \in {1, 4}, c \in {-1, 1, 2}, f \in {0, 5}}
Assortments ==
  {[kind |-> "assortment", margins |-> m, capital |-> <<2, 1, 3>>, slots |-> <<1, 2, 1>>,
    maximumCapital |-> k, maximumSlots |-> s, maximumAssignments |-> l] :
    m \in {<<2, 2, 4>>, <<3, 3, 3>>, <<-1, 0, 0>>}, k \in {-1, 0, 3, 5}, s \in {0, 2, 3}, l \in {4, 8}}
    \cup {[kind |-> "assortment", margins |-> << >>, capital |-> << >>, slots |-> << >>,
           maximumCapital |-> 0, maximumSlots |-> 0, maximumAssignments |-> 1],
          [kind |-> "assortment", margins |-> [i \in 1..25 |-> 1], capital |-> [i \in 1..25 |-> 1],
           slots |-> [i \in 1..25 |-> 1], maximumCapital |-> 0, maximumSlots |-> 0, maximumAssignments |-> 1]}
OperationsProblems ==
  Replenishments \cup Workforces \cup Routes \cup Inventories \cup Pricings \cup UnitQuestions
    \cup BreakEvens \cup CashFlows \cup Lifetimes \cup Retentions \cup Promotions \cup Assortments

-----------------------------------------------------------------------------
Populations ==
  {<<>>, <<<<1>>, <<2, 1>>>>, <<<<1, 1>>>>, <<<<0, 4>>, <<1, 3>>, <<2, 2>>, <<4, 0>>, <<1, 2>>, <<0, 0>>>>,
   <<<<0, 0>>, <<1, 1>>, <<2, 2>>, <<3, 3>>>>, <<<<2, 2>>, <<2, 2>>, <<1, 4>>, <<4, 1>>, <<2, 2>>>>,
   <<<<0, 4>>, <<1, 2>>, <<2, 1>>, <<4, 0>>, <<3, 3>>, <<4, 4>>>>}
Fronts ==
  {[kind |-> "fronts", population |-> p, directions |-> <<d, e>>, limit |-> l] :
    p \in Populations, d \in {"Maximize", "Minimize"}, e \in {"Maximize", "Minimize"}, l \in {0, 1, 3, 4, 9}}
Criterion(weight, direction, minimum) ==
  [weight |-> weight, direction |-> direction, minimum |-> minimum]
CriteriaQuestions ==
  {[kind |-> "criteria", criteria |-> <<Criterion(w, "Maximize", m), Criterion(4 - w, "Minimize", n)>>,
    alternatives |-> a, baseline |-> 1] :
    w \in {1, 3, 4}, m \in {Absent, 2, 4, 5}, n \in {Absent, 3},
    a \in {<<<<3, 2>>, <<4, 3>>, <<1, 0>>>>, <<<<2, 2>>, <<3, 1>>>>, <<<<0, 4>>, <<1, 3>>>>, <<<<5, 0>>>>, <<<<1>>>>, << >>}}
    \cup {[kind |-> "criteria", criteria |-> c, alternatives |-> <<<<1>>>>, baseline |-> b] :
           c \in {<<>>, <<Criterion(3, "Maximize", Absent)>>, <<Criterion(4, "Maximize", Absent)>>}, b \in {1, 2}}
Case(score, positive) == [score |-> score, positive |-> positive]
Thresholds ==
  {[kind |-> "threshold", cases |-> c, baseline |-> b,
    economics |-> [truePositive |-> tp, trueNegative |-> tn, falsePositive |-> fp, falseNegative |-> 2]] :
    c \in {<<>>, <<Case(4, TRUE), Case(2, FALSE), Case(2, TRUE), Case(0, FALSE)>>, <<Case(5, TRUE)>>,
           <<Case(1, TRUE), Case(3, FALSE)>>, <<Case(4, FALSE)>>},
    b \in {0, 5}, tp \in {0, 3}, tn \in {0, 1}, fp \in {-1, 0, 4}}
Action(eligible, propensity, success, failure, cost) ==
  [eligible |-> eligible, propensity |-> propensity, success |-> success, failure |-> failure,
   cost |-> cost, reserve |-> 1]
NextActions ==
  {[kind |-> "next_action", baseline |-> b, asked |-> k,
    actions |-> <<Action(e, 1, 9, -1, 0), Action(TRUE, p, 4, 0, c), Action(FALSE, 4, 9, 9, 0)>>] :
    b \in {Absent, 1, 3}, k \in {<<2, 1>>, <<2>>, <<3>>, <<4>>}, e \in BOOLEAN, p \in {2, 3, 5}, c \in {-1, 0, 1}}
    \cup {[kind |-> "next_action", baseline |-> Absent, asked |-> << >>, actions |-> a] :
           a \in {<< >>, <<Action(FALSE, 1, 1, 1, 1)>>}}
CriteriaProblems == Fronts \cup CriteriaQuestions \cup Thresholds \cup NextActions

-----------------------------------------------------------------------------
Forecasts ==
  {[kind |-> "forecast", series |-> s, alpha |-> a, beta |-> b] :
    s \in Triples({-2, 0, 3}) \cup {<<>>, <<5>>, <<1, 3, 5, 7>>, <<4, -1>>}, a \in {0, 1, 3, 4, 5}, b \in {0, 2, 4}}
Record(segment, treated, policy, outcome, propensity, control, treatment) ==
  [segment |-> segment, treated |-> treated, policy |-> policy, outcome |-> outcome,
   propensity |-> propensity, control |-> control, treatment |-> treatment]
Effects ==
  {[kind |-> "effects", records |-> <<Record(1, TRUE, p, o, k, 1, 3), Record(s, FALSE, TRUE, 2, 3, c, 4),
                                      Record(2, t, FALSE, 3, 1, 0, 3)>>] :
    p \in BOOLEAN, t \in BOOLEAN, o \in {-4, 3, 8}, k \in {0, 1, 3, 4}, s \in {1, 2}, c \in {2, 5}}
    \cup {[kind |-> "effects", records |-> << >>]}
Experiment(likelihood, cost) == [likelihood |-> likelihood, cost |-> cost]
Informations ==
  {[kind |-> "information", prior |-> p, utilities |-> u,
    experiments |-> <<Experiment(<<x, y>>, c), Experiment(<<0, 4>>, 1), Experiment(<<2, 2>>, 0)>>] :
    p \in {<<1, 3>>, <<2, 2>>, <<1, 1>>}, u \in {<<<<5, -1>>, <<0, 2>>>>, <<<<-3, 1>>, <<1, -3>>, <<0, 0>>>>, <<<<1, 2, 3>>>>},
    x \in {0, 1, 3, 5}, y \in {1, 4}, c \in {-1, 0, 2}}
    \cup {[kind |-> "information", prior |-> <<4>>, utilities |-> <<<<1>>>>, experiments |-> e] :
           e \in {<<Experiment(<<1, 1>>, 0)>>, <<Experiment(<<1>>, 0)>>}}
    \cup {[kind |-> "information", prior |-> << >>, utilities |-> << >>, experiments |-> << >>]}
LearningProblems == Forecasts \cup Effects \cup Informations

-----------------------------------------------------------------------------
\* Every graph on four variables whose arcs go up, and three on five.
UpArcs == {<<1, 2>>, <<1, 3>>, <<1, 4>>, <<2, 3>>, <<2, 4>>, <<3, 4>>}
Graphs == {[nodes |-> 4, edges |-> SetToSortSeq(arcs, LAMBDA a, b : a[1] * 5 + a[2] < b[1] * 5 + b[2])] :
            arcs \in SUBSET UpArcs}
LargerGraphs ==
  {[nodes |-> 5, edges |-> e] :
    e \in {<<<<1, 3>>, <<2, 3>>, <<1, 4>>, <<2, 5>>, <<3, 5>>, <<4, 5>>>>,
           <<<<1, 2>>, <<1, 5>>, <<3, 4>>, <<3, 5>>, <<2, 4>>, <<4, 5>>>>}}
Endpoints == {pair \in (1..4) \X (1..4) : pair[1] # pair[2]}
SubsetsOfRest(used) == {SetToSortSeq(z, <) : z \in SUBSET (1..4 \ used)}
CausalProblems ==
  UNION {{[kind |-> "backdoor", nodes |-> g.nodes, edges |-> g.edges, treatment |-> e[1], outcome |-> e[2],
           adjustment |-> z] : z \in SubsetsOfRest({e[1], e[2]})} :
          g \in Graphs \cup LargerGraphs, e \in {<<1, 4>>, <<2, 4>>, <<3, 4>>, <<4, 2>>, <<2, 3>>}}
    \cup {[kind |-> "adjustments", nodes |-> g.nodes, edges |-> g.edges, treatment |-> e[1], outcome |-> e[2],
           maximum |-> m] : g \in Graphs \cup LargerGraphs, e \in {<<3, 4>>, <<2, 4>>, <<4, 3>>}, m \in {1, 2}}
    \cup {[kind |-> "front_door", nodes |-> g.nodes, edges |-> g.edges, treatment |-> t[1], mediator |-> t[2],
           outcome |-> t[3]] : g \in Graphs, t \in {<<2, 3, 4>>, <<1, 3, 4>>, <<1, 2, 3>>, <<1, 1, 2>>, <<5, 1, 2>>}}
    \cup {[kind |-> "instrument", nodes |-> g.nodes, edges |-> g.edges, instrument |-> t[1], treatment |-> t[2],
           outcome |-> t[3], adjustment |-> z] :
           g \in Graphs \cup LargerGraphs, t \in {<<2, 3, 4>>, <<1, 3, 4>>, <<1, 2, 4>>}, z \in {<< >>, <<1>>, <<2>>, <<3, 3>>, <<6>>}}
    \cup {[kind |-> "backdoor", nodes |-> n, edges |-> e, treatment |-> t, outcome |-> 2, adjustment |-> z] :
           n \in {0, 3}, e \in {<<<<1, 1>>>>, <<<<1, 2>>, <<1, 2>>>>, <<<<1, 4>>>>, <<<<1, 2>>, <<2, 3>>, <<3, 1>>>>, <<<<1, 2>>>>},
           t \in {1, 2, 4}, z \in {<<3, 3>>, <<1>>, <<5>>}}

MCProblems ==
  [linear |-> LinearProblems, finite |-> FiniteProblems, propagation |-> PropagationProblems,
   risk |-> RiskProblems \cup CriteriaProblems, operations |-> OperationsProblems,
   causal |-> LearningProblems \cup CausalProblems]
=============================================================================
