--------------------------- MODULE FiniteDomains ---------------------------
(***************************************************************************)
(* Finite-domain constraint problems: the plain backtracking search of     *)
(* solver.rs ("plain"), and of constraint_propagation.rs the propagation   *)
(* to a fixed point ("propagate") and the search that propagates at every  *)
(* node ("propagated").                                                    *)
(*                                                                         *)
(* A problem is [kind, domains, constraints, budget]; domains is a sequence*)
(* of sequences, repetitions and all.  A constraint is [kind, variables,   *)
(* weights, relation, rhs]; weights are the coefficients of a "Linear" and *)
(* the durations of a "NoOverlap".  A plain node is a partial assignment,  *)
(* a propagated node the domains, as sets, with the passes made on it so   *)
(* far.  A step enters a plain node or leaves one whose values are all     *)
(* tried; a step of the other two is one pass over the constraints.        *)
(***************************************************************************)
EXTENDS Checks

CONSTANT Open   \* the value of a variable that is not assigned yet

VARIABLES problem, work, tally, answer
vars == <<problem, work, tally, answer>>

Unanswered == [result |-> "none"]
Variables(p) == DOMAIN p.domains
DomainSets(p) == [v \in Variables(p) |-> Elements(p.domains[v])]

ConstraintError(p, c) ==
  LET malformed == c.kind # "AllDifferent" /\
                     (c.variables = << >> \/ Len(c.variables) # Len(c.weights))
      instant == c.kind = "NoOverlap" /\ \E d \in Elements(c.weights) : d <= 0
  IN  FirstError(<< <<malformed \/ instant, "InvalidConstraint">>,
                    <<\E v \in Elements(c.variables) : v \notin Variables(p),
                      "InvalidVariableIndex">> >>)

\* The plain search names what is wrong; propagation has one error for all of
\* it, asks that an AllDifferent name a variable, and looks at the budget last.
Rejection(p) ==
  LET wrong == FirstOf(
        << FirstError(<< <<\E v \in Variables(p) : p.domains[v] = << >>, "EmptyDomain">> >>),
           FirstOf([i \in DOMAIN p.constraints |-> ConstraintError(p, p.constraints[i])]) >>)
  IN  IF p.kind = "plain"
      THEN FirstError(<< <<p.domains = << >>, "EmptyProblem">>,
                         <<p.budget = 0, "InvalidNodeBudget">>,
                         <<wrong # NoError, wrong>> >>)
      ELSE FirstError(
        << <<\/ p.domains = << >> \/ wrong # NoError
             \/ \E i \in DOMAIN p.constraints : p.constraints[i].variables = << >>,
             "InvalidProblem">>,
           <<p.kind = "propagated" /\ p.budget = 0, "InvalidNodeBudget">> >>)

-----------------------------------------------------------------------------
(* The plain search's view of a partial assignment.                        *)
DisjointIntervals(start, duration, otherStart, otherDuration) ==
  start + duration <= otherStart \/ otherStart + otherDuration <= start

ConstraintPossible(p, node, c) ==
  LET at == [k \in DOMAIN c.variables |-> node[c.variables[k]]]
      Low(k) == IF at[k] = Open THEN Min(Elements(p.domains[c.variables[k]])) ELSE at[k]
      High(k) == IF at[k] = Open THEN Max(Elements(p.domains[c.variables[k]])) ELSE at[k]
  IN  CASE c.kind = "AllDifferent" ->
             Distinct(SelectSeq(at, LAMBDA value : value # Open))
        [] c.kind = "Linear" ->
             PossibleInBox([coefficients |-> c.weights, relation |-> c.relation, rhs |-> c.rhs],
                           [k \in DOMAIN at |-> Low(k)], [k \in DOMAIN at |-> High(k)])
        [] c.kind = "NoOverlap" ->
             \A l, r \in DOMAIN at : l < r /\ at[l] # Open /\ at[r] # Open =>
               DisjointIntervals(at[l], c.weights[l], at[r], c.weights[r])

ConstraintsPossible(p, node) ==
  \A i \in DOMAIN p.constraints : ConstraintPossible(p, node, p.constraints[i])

Complete(node) == \A v \in DOMAIN node : node[v] # Open

\* The unassigned variable with the shortest domain as it was given.
NextVariable(p, node) ==
  LET open == {v \in DOMAIN node : node[v] = Open}
  IN  CHOOSE v \in open :
        \A u \in open \ {v} : LexBefore(<<Len(p.domains[v]), v>>, <<Len(p.domains[u]), u>>)

Ascending(values) == SetToSortSeq(values, <)

-----------------------------------------------------------------------------
(* One pass of propagation over domains; a domain left empty means that    *)
(* the code has returned Infeasible.                                       *)
Fixed(values) == Cardinality(values) = 1
Sole(values) == CHOOSE value \in values : TRUE
Emptied(domains) == \E v \in DOMAIN domains : domains[v] = {}
Nowhere(domains) == [v \in DOMAIN domains |-> {}]

\* The values of fixed variables are taken from the others; two equal ones cannot be.
PropagateAllDifferent(domains, c) ==
  LET fixed == SelectSeq(c.variables, LAMBDA v : Fixed(domains[v]))
      taken == [k \in DOMAIN fixed |-> Sole(domains[fixed[k]])]
  IN  IF ~Distinct(taken) THEN Nowhere(domains)
      ELSE [v \in DOMAIN domains |->
             IF v \in Elements(c.variables) /\ ~Fixed(domains[v])
             THEN domains[v] \ Elements(taken) ELSE domains[v]]

\* A value stays when the bounds of the other positions leave the relation possible.
\* The positions are revised in turn, each on what the ones before have left.
PropagateLinear(domains, c) ==
  LET form == [coefficients |-> c.weights, relation |-> c.relation, rhs |-> c.rhs]
      Supported(current, position, value) ==
        PossibleInBox(form,
          [k \in DOMAIN c.variables |-> IF k = position THEN value ELSE Min(current[c.variables[k]])],
          [k \in DOMAIN c.variables |-> IF k = position THEN value ELSE Max(current[c.variables[k]])])
      Revise(current, position) ==
        IF Emptied(current) THEN current
        ELSE [v \in DOMAIN current |->
               {value \in current[v] :
                 v = c.variables[position] => Supported(current, position, value)}]
  IN  FoldLeftDomain(Revise, domains, c.variables)

\* Only an interval whose start is fixed pushes the others out of its way.
PropagateNoOverlap(domains, c) ==
  LET Clear(current, left) ==
        LET start == Sole(current[c.variables[left]])
        IN  [v \in DOMAIN current |->
              {value \in current[v] :
                \A right \in DOMAIN c.variables \ {left} : c.variables[right] = v =>
                  DisjointIntervals(start, c.weights[left], value, c.weights[right])}]
      Revise(current, left) ==
        IF Emptied(current) \/ ~Fixed(current[c.variables[left]])
        THEN current ELSE Clear(current, left)
  IN  FoldLeftDomain(Revise, domains, c.variables)

Propagate(domains, kind, constraints) ==
  LET Apply(current, c) ==
        IF Emptied(current) \/ c.kind # kind THEN current
        ELSE CASE kind = "AllDifferent" -> PropagateAllDifferent(current, c)
               [] kind = "Linear" -> PropagateLinear(current, c)
               [] kind = "NoOverlap" -> PropagateNoOverlap(current, c)
  IN  FoldLeft(Apply, domains, constraints)

\* First every AllDifferent, then every Linear, then every NoOverlap.
OnePass(domains, constraints) ==
  FoldLeft(LAMBDA current, kind : Propagate(current, kind, constraints),
           domains, <<"AllDifferent", "Linear", "NoOverlap">>)

Values(domains) == MapThenSumSet(LAMBDA v : Cardinality(domains[v]), DOMAIN domains)

-----------------------------------------------------------------------------
NewNode(domains) == [domains |-> domains, passes |-> 0, entered |-> Values(domains)]
Exhausted == << >>   \* what is left of a plain node below its last child

Start(p) ==
  /\ tally = [explored |-> 0, backtracks |-> 0, passes |-> 0, removed |-> 0]
  /\ IF Rejection(p) # NoError
     THEN work = << >> /\ answer = [result |-> Rejection(p)]
     ELSE /\ answer = Unanswered
          /\ work = IF p.kind = "plain" THEN << [v \in Variables(p) |-> Open] >>
                    ELSE << NewNode(DomainSets(p)) >>

Running == answer = Unanswered /\ work # << >>
Plain == Running /\ problem.kind = "plain"
Top == Head(work)
AtNewNode == IF problem.kind = "plain" THEN Top # Exhausted ELSE Top.passes = 0
Entering == AtNewNode /\ problem.kind # "propagate"

Exceed ==
  /\ Running
  /\ Entering
  /\ tally.explored >= problem.budget
  /\ answer' = [result |-> "NodeBudgetExceeded", explored |-> tally.explored]
  /\ UNCHANGED <<problem, work, tally>>

Enter == Plain /\ Top # Exhausted /\ tally.explored < problem.budget
Explored(backtracks) ==
  tally' = [tally EXCEPT !.explored = @ + 1, !.backtracks = @ + backtracks]

\* A node the constraints exclude.
Prune ==
  /\ Enter
  /\ ~ConstraintsPossible(problem, Top)
  /\ work' = Tail(work)
  /\ Explored(1)
  /\ UNCHANGED <<problem, answer>>

Accept ==
  /\ Enter
  /\ ConstraintsPossible(problem, Top) /\ Complete(Top)
  /\ Explored(0)
  /\ answer' = [result |-> "solved", values |-> Top]
  /\ UNCHANGED <<problem, work>>

Branch ==
  /\ Enter
  /\ ConstraintsPossible(problem, Top) /\ ~Complete(Top)
  /\ LET variable == NextVariable(problem, Top)
         values == Ascending(Elements(problem.domains[variable]))
     IN  work' = [k \in DOMAIN values |-> [Top EXCEPT ![variable] = values[k]]]
                   \o <<Exhausted>> \o Tail(work)
  /\ Explored(0)
  /\ UNCHANGED <<problem, answer>>

\* All the values of a plain node are tried.
Backtrack ==
  /\ Plain
  /\ Top = Exhausted
  /\ work' = Tail(work)
  /\ tally' = [tally EXCEPT !.backtracks = @ + 1]
  /\ UNCHANGED <<problem, answer>>

Propagated(node) ==
  [node EXCEPT !.domains = OnePass(node.domains, problem.constraints), !.passes = @ + 1]
ExploredNow == IF Entering THEN tally.explored + 1 ELSE tally.explored

\* Passes and removed values are counted when a fixed point is reached, not when
\* the node turns out to be infeasible.
Settled(node) ==
  [tally EXCEPT !.explored = ExploredNow,
                !.passes = @ + node.passes,
                !.removed = @ + node.entered - Values(node.domains)]

SplitOn(domains) ==
  LET open == {v \in DOMAIN domains : ~Fixed(domains[v])}
      variable == CHOOSE v \in open : \A u \in open \ {v} :
                    LexBefore(<<Cardinality(domains[v]), v>>, <<Cardinality(domains[u]), u>>)
      values == Ascending(domains[variable])
  IN  [k \in DOMAIN values |-> NewNode([domains EXCEPT ![variable] = {values[k]}])]

Pass ==
  /\ Running
  /\ problem.kind # "plain"
  /\ Entering => tally.explored < problem.budget
  /\ LET node == Propagated(Top)
         fixpoint == node.domains = Top.domains
     IN  \/ /\ Emptied(node.domains)
            /\ work' = Tail(work)
            /\ tally' = [tally EXCEPT !.explored = ExploredNow]
            /\ UNCHANGED answer
         \/ /\ ~Emptied(node.domains) /\ ~fixpoint
            /\ work' = <<node>> \o Tail(work)
            /\ tally' = [tally EXCEPT !.explored = ExploredNow]
            /\ UNCHANGED answer
         \/ /\ fixpoint /\ problem.kind = "propagate"
            /\ answer' = [result |-> "propagated", domains |-> node.domains]
            /\ tally' = Settled(node)
            /\ UNCHANGED work
         \/ /\ fixpoint /\ problem.kind = "propagated"
            /\ tally' = Settled(node)
            /\ IF \A v \in DOMAIN node.domains : Fixed(node.domains[v])
               THEN /\ answer' = [result |-> "solved",
                                  values |-> [v \in DOMAIN node.domains |-> Sole(node.domains[v])]]
                    /\ UNCHANGED work
               ELSE /\ work' = SplitOn(node.domains) \o Tail(work)
                    /\ UNCHANGED answer
  /\ UNCHANGED problem

Finish ==
  /\ answer = Unanswered
  /\ work = << >>
  /\ answer' = [result |-> IF problem.kind = "plain" THEN "NoFeasibleSolution" ELSE "Infeasible"]
  /\ UNCHANGED <<problem, work, tally>>

Next == Exceed \/ Prune \/ Accept \/ Branch \/ Backtrack \/ Pass \/ Finish

-----------------------------------------------------------------------------
Assignments(domains) ==
  {v \in [DOMAIN domains -> UNION {domains[i] : i \in DOMAIN domains}] :
    \A i \in DOMAIN domains : v[i] \in domains[i]}
Satisfied(c, values) ==
  LET at == [k \in DOMAIN c.variables |-> values[c.variables[k]]]
  IN  CASE c.kind = "AllDifferent" -> Distinct(at)
        [] c.kind = "Linear" ->
             Holds([coefficients |-> c.weights, relation |-> c.relation, rhs |-> c.rhs], at)
        [] c.kind = "NoOverlap" ->
             \A l, r \in DOMAIN at : l < r =>
               DisjointIntervals(at[l], c.weights[l], at[r], c.weights[r])
Solutions(p) ==
  {v \in Assignments(DomainSets(p)) :
    \A i \in DOMAIN p.constraints : Satisfied(p.constraints[i], v)}

Under(values, node) ==
  IF problem.kind = "plain"
  THEN node # Exhausted /\ \A v \in DOMAIN node : node[v] \in {Open, values[v]}
  ELSE \A v \in DOMAIN node.domains : values[v] \in node.domains[v]

\* Until a search answers, no solution is lost: each lies under a node that is
\* still to be entered, however many values were pruned on the way.
SolutionsAreAhead ==
  answer = Unanswered =>
    \A values \in Solutions(problem) : \E k \in DOMAIN work : Under(values, work[k])

\* A returned assignment is a solution and "none" means none, for the plain search
\* and for the propagated one alike; propagation alone keeps every solution.
AnswerIsASolution ==
  /\ answer.result = "solved" => answer.values \in Solutions(problem)
  /\ answer.result \in {"NoFeasibleSolution", "Infeasible"} => Solutions(problem) = {}
  /\ answer.result = "propagated" =>
       \A values \in Solutions(problem) : values \in Assignments(answer.domains)
  /\ answer.result = "NodeBudgetExceeded" => answer.explored = problem.budget
=============================================================================
