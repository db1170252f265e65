--------------------------- MODULE BranchAndBound ---------------------------
(***************************************************************************)
(* The two exact branch-and-bound solvers: binary (solver.rs) and bounded  *)
(* integer (integer_solver.rs).  Both walk the same depth-first search; the*)
(* binary one is the integer one over 0..1 with the variables in their own *)
(* order.  A problem is [kind, variables, constraints, budget], a variable *)
(* [lower, upper, objective].  The call stack of the code is a sequence of *)
(* nodes still to enter, the next one first; a node is a partial           *)
(* assignment.  One step enters one node.                                  *)
(***************************************************************************)
EXTENDS Checks

CONSTANT Open   \* the value of a variable that is not assigned yet

VARIABLES problem, work, tally, answer
vars == <<problem, work, tally, answer>>

Variables(p) == DOMAIN p.variables
Rejection(p) ==
  FirstError(
    << <<p.variables = << >>, "EmptyProblem">>,
       <<p.budget = 0, "InvalidNodeBudget">>,
       <<\E i \in Variables(p) : p.variables[i].lower > p.variables[i].upper,
         "InvalidBounds">>,
       <<\E i \in DOMAIN p.constraints :
           Len(p.constraints[i].coefficients) # Len(p.variables),
         "ConstraintWidthMismatch">> >>)

\* The binary solver takes the variables as they come; the integer solver takes
\* first those that weigh most on the objective, then the narrower, then the first.
Order(p) ==
  LET Span(i) == p.variables[i].upper - p.variables[i].lower + 1
      Impact(i) == Magnitude(p.variables[i].objective) * Span(i)
      Earlier(i, j) == LexBefore(<<-Impact(i), Span(i), i>>, <<-Impact(j), Span(j), j>>)
  IN  IF p.kind = "binary" THEN [i \in Variables(p) |-> i]
      ELSE SetToSortSeq(Variables(p), Earlier)

Low(p, node) == [i \in Variables(p) |-> IF node[i] = Open THEN p.variables[i].lower ELSE node[i]]
High(p, node) == [i \in Variables(p) |-> IF node[i] = Open THEN p.variables[i].upper ELSE node[i]]

ConstraintsPossible(p, node) ==
  \A i \in DOMAIN p.constraints :
    PossibleInBox(p.constraints[i], Low(p, node), High(p, node))

Objective(p) == [i \in Variables(p) |-> p.variables[i].objective]
ObjectiveUpperBound(p, node) == Greatest(Objective(p), Low(p, node), High(p, node))

\* Fault: an assignment as good as the incumbent is given up before the tie is broken.
PrunesTies(p, node, best) ==
  \/ ~ConstraintsPossible(p, node)
  \/ best.found /\ ObjectiveUpperBound(p, node) <= best.value

Prunes(p, node, best) ==
  \/ ~ConstraintsPossible(p, node)
  \/ best.found /\ ObjectiveUpperBound(p, node) < best.value

\* The objective's favourite value comes first.
ValuesToTry(variable) ==
  LET ascending == [k \in 1..(variable.upper - variable.lower + 1) |-> variable.lower + k - 1]
  IN  IF variable.objective >= 0 THEN Reverse(ascending) ELSE ascending

\* Order is fixed when the search starts.
Children(p, node) ==
  LET next == SelectInSeq(work.order, LAMBDA i : node[i] = Open)
      variable == work.order[next]
      values == ValuesToTry(p.variables[variable])
  IN  [k \in DOMAIN values |-> [node EXCEPT ![variable] = values[k]]]

Complete(node) == \A i \in DOMAIN node : node[i] # Open

Improves(value, values, best) ==
  \/ ~best.found \/ value > best.value
  \/ value = best.value /\ LexBefore(values, best.values)

Unanswered == [result |-> "none"]
Start(p) ==
  IF Rejection(p) # NoError
  THEN /\ work = << >>
       /\ answer = [result |-> Rejection(p)]
       /\ tally = [explored |-> 0, pruned |-> 0]
  ELSE /\ work = [stack |-> << [i \in Variables(p) |-> Open] >>, order |-> Order(p),
                  best |-> [found |-> FALSE, value |-> 0, values |-> << >>]]
       /\ answer = Unanswered
       /\ tally = [explored |-> 0, pruned |-> 0]

Running == answer = Unanswered /\ work.stack # << >>
Enter(condition, pruned) ==
  /\ Running
  /\ tally.explored < problem.budget
  /\ condition
  /\ tally' = [explored |-> tally.explored + 1, pruned |-> tally.pruned + pruned]
  /\ UNCHANGED <<problem, answer>>

Top == Head(work.stack)

\* The node budget is spent: the search reports it and nothing else.
Exceed ==
  /\ Running
  /\ tally.explored >= problem.budget
  /\ answer' = [result |-> "NodeBudgetExceeded", explored |-> tally.explored]
  /\ UNCHANGED <<problem, work, tally>>

Prune ==
  /\ Enter(Prunes(problem, Top, work.best), 1)
  /\ work' = [work EXCEPT !.stack = Tail(@)]

Leaf ==
  /\ Enter(Complete(Top) /\ ~Prunes(problem, Top, work.best), 0)
  /\ LET value == Dot(Objective(problem), Top)
     IN  work' = [work EXCEPT
           !.stack = Tail(@),
           !.best = IF Improves(value, Top, @)
                    THEN [found |-> TRUE, value |-> value, values |-> Top] ELSE @]

Branch ==
  /\ Enter(~Complete(Top) /\ ~Prunes(problem, Top, work.best), 0)
  /\ work' = [work EXCEPT !.stack = Children(problem, Top) \o Tail(@)]

Finish ==
  /\ answer = Unanswered
  /\ work.stack = << >>
  /\ answer' = IF work.best.found
               THEN [result |-> "solved", values |-> work.best.values,
                     value |-> work.best.value, explored |-> tally.explored,
                     pruned |-> tally.pruned]
               ELSE [result |-> "NoFeasibleSolution"]
  /\ UNCHANGED <<problem, work, tally>>

Next == Exceed \/ Prune \/ Leaf \/ Branch \/ Finish

(***************************************************************************)
(* What it is compared with: every assignment, tried one by one.  The      *)
(* binary solver has such a twin in the repository, solve_binary_linear_   *)
(* exact (optimization.rs), which takes masks in increasing order.         *)
(***************************************************************************)
Box(p) ==
  {v \in [Variables(p) -> UNION {p.variables[i].lower..p.variables[i].upper : i \in Variables(p)}] :
    \A i \in Variables(p) : v[i] \in p.variables[i].lower..p.variables[i].upper}
Solutions(p) == {v \in Box(p) : \A i \in DOMAIN p.constraints : Holds(p.constraints[i], v)}
Optima(p) ==
  {v \in Solutions(p) : \A u \in Solutions(p) : Dot(Objective(p), u) <= Dot(Objective(p), v)}
Optimum(p) == CHOOSE v \in Optima(p) : \A u \in Optima(p) \ {v} : LexBefore(v, u)

\* solve_binary_linear_exact: the assignments a mask counts through, the first
\* variable fastest, keeping the better of the incumbent and the next one.
MaximumBinaryVariables == 24
SolveBinaryLinearExact(p, maximumAssignments) ==
  LET width == Len(p.variables)
      rejection == FirstError(
        << <<width = 0, "EmptyProblem">>,
           <<width > MaximumBinaryVariables, "TooManyBinaryVariables">>,
           <<\E i \in DOMAIN p.constraints : Len(p.constraints[i].coefficients) # width,
             "ConstraintWidthMismatch">>,
           <<2^width > maximumAssignments, "EnumerationBudgetTooSmall">> >>)
      Keep(best, chosen) ==
        LET values == [i \in 1..width |-> IF i \in chosen THEN 1 ELSE 0]
            value == Dot(Objective(p), values)
        IN  IF /\ \A i \in DOMAIN p.constraints : Holds(p.constraints[i], values)
               /\ Improves(value, values, best)
            THEN [found |-> TRUE, value |-> value, values |-> values] ELSE best
      best == FoldLeft(Keep, [found |-> FALSE, value |-> 0, values |-> << >>],
                       SubsetsOf(width))
  IN  IF rejection # NoError THEN [result |-> rejection]
      ELSE IF best.found
      THEN [result |-> "solved", values |-> best.values, value |-> best.value,
            enumerated |-> 2^width]
      ELSE [result |-> "NoFeasibleSolution"]

Extends(values, node) == \A i \in DOMAIN node : node[i] \in {Open, values[i]}

\* The search never loses the optimum it is looking for: it is the incumbent, or
\* it lies under a node that is still to be entered.
OptimumIsAhead ==
  answer = Unanswered /\ Solutions(problem) # {} =>
    LET optimum == Optimum(problem)
    IN  \/ work.best.found /\ work.best.values = optimum
        \/ \E k \in DOMAIN work.stack : Extends(optimum, work.stack[k])

\* What an answer says is what trying every assignment finds.
AnswerIsOptimal ==
  /\ answer.result = "solved" =>
       /\ answer.values = Optimum(problem)
       /\ answer.value = Dot(Objective(problem), answer.values)
  /\ answer.result = "NoFeasibleSolution" => Solutions(problem) = {}
  /\ answer.result = "NodeBudgetExceeded" => answer.explored = problem.budget
  /\ problem.kind = "binary" /\ answer.result \in {"solved", "NoFeasibleSolution"} =>
       LET exact == SolveBinaryLinearExact(problem, 2^Len(problem.variables))
       IN  /\ exact.result = answer.result
           /\ answer.result = "solved" =>
                exact.values = answer.values /\ exact.value = answer.value
=============================================================================
