---------------------------- MODULE Propagators ----------------------------
(***************************************************************************)
(* The global propagators of prospect-commercial-advanced: all-different   *)
(* consistency by matching and the time-table of a cumulative resource     *)
(* (cp_global.rs), energetic reasoning (cp_energy.rs), pairwise disjunctive*)
(* consistency (cp_disjunctive.rs) and global disjunctive consistency by   *)
(* budgeted search (cp_disjunctive_global.rs).                             *)
(*                                                                         *)
(* All five have one shape: normalise the domains, then passes in which    *)
(* every task in turn keeps only its supported starts, in place, until a   *)
(* pass changes nothing.  A problem is [kind, tasks, capacity, budget], a  *)
(* task [starts, duration, demand] with its starts as given.  A step opens *)
(* a pass, revises one task, or closes the pass.                           *)
(***************************************************************************)
EXTENDS Checks

VARIABLES problem, work, tally, answer
vars == <<problem, work, tally, answer>>

Unanswered == [result |-> "none"]
Cumulative == {"timetable", "energy"}
Tasks(p) == DOMAIN p.tasks

TaskError(p, task) ==
  FirstError(
    << <<\/ p.kind # "all_different" /\ task.duration <= 0
         \/ p.kind \in Cumulative /\ task.demand <= 0, "InvalidTask">>,
       <<task.starts = << >>, "EmptyDomain">> >>)
\* The time-table looks at its capacity before it looks for tasks, the energetic
\* propagator after.
Rejection(p) ==
  FirstError(
    << <<p.kind = "timetable" /\ p.capacity <= 0, "InvalidCapacity">>,
       <<p.tasks = << >>, "EmptyTasks">>,
       <<p.kind = "energy" /\ p.capacity <= 0, "InvalidCapacity">>,
       <<p.kind \in {"energy", "global"} /\ p.budget = 0, "InvalidBudget">>,
       <<TRUE, FirstOf([i \in Tasks(p) |-> TaskError(p, p.tasks[i])])>> >>)

Initial(p) == [i \in Tasks(p) |-> Elements(p.tasks[i].starts)]
Size(domains) == MapThenSumSet(LAMBDA i : Cardinality(domains[i]), DOMAIN domains)
Ascending(values) == SetToSortSeq(values, <)

-----------------------------------------------------------------------------
(* All-different: a matching of every variable to a value of its own, grown*)
(* one variable at a time along augmenting paths.                          *)
NoOwner == 0
NoVariable == 0

\* Fault: an owner is never moved.
AugmentOnce(variable, candidates, fixed, search) ==
  LET free == SelectSeq(candidates, LAMBDA value : search.owner[value] = NoOwner)
  IN  IF free = << >> THEN search
      ELSE [search EXCEPT !.ok = TRUE, !.owner[free[1]] = variable]

\* Try to give the variable one of the values, moving owners that can move; what
\* was visited stays visited on the whole path.  The fixed variable never moves.
RECURSIVE Augment(_, _, _, _)
Augment(variable, candidates, fixed, search) ==
  LET Owns(v) == Ascending(fixed.domains[v])
      Try(found, value) ==
        IF found.ok \/ value \in found.visited THEN found
        ELSE LET seen == [found EXCEPT !.visited = @ \cup {value}]
                 owner == found.owner[value]
             IN  IF owner = NoOwner THEN [seen EXCEPT !.ok = TRUE, !.owner[value] = variable]
                 ELSE IF owner = fixed.variable THEN seen
                 ELSE LET moved == Augment(owner, Owns(owner), fixed, seen)
                      IN  IF moved.ok THEN [moved EXCEPT !.owner[value] = variable] ELSE moved
  IN  FoldLeft(Try, search, candidates)

HasPerfectMatching(domains, variable, value) ==
  LET pinned == IF variable = NoVariable THEN domains ELSE [domains EXCEPT ![variable] = {value}]
      fixed == [domains |-> pinned, variable |-> variable]
      Grow(search, v) ==
        IF ~search.ok THEN search
        ELSE Augment(v, Ascending(pinned[v]), fixed,
                     [search EXCEPT !.ok = FALSE, !.visited = {}])
      values == UNION {domains[v] : v \in DOMAIN domains}
  IN  FoldLeftDomain(Grow, [ok |-> TRUE, visited |-> {}, owner |-> [x \in values |-> NoOwner]],
                     domains).ok

-----------------------------------------------------------------------------
(* The time-table: what a task occupies whatever its start.                *)
Mandatory(p, domains, i) ==
  Max(domains[i])..(Min(domains[i]) + p.tasks[i].duration - 1)
Load(p, domains, instant, others) ==
  MapThenSumSet(LAMBDA i : IF instant \in Mandatory(p, domains, i) THEN p.tasks[i].demand ELSE 0,
                others)
MandatoryPeakLoad(p, domains) ==
  LET instants == UNION {Mandatory(p, domains, i) : i \in Tasks(p)}
  IN  Max({0} \cup {Load(p, domains, instant, Tasks(p)) : instant \in instants})
TimetableSupports(p, domains, i, start) ==
  \A instant \in start..(start + p.tasks[i].duration - 1) :
    Load(p, domains, instant, Tasks(p) \ {i}) + p.tasks[i].demand <= p.capacity

-----------------------------------------------------------------------------
(* Energy: over every interval between two endpoints of the pass, the least*)
(* that each task must consume there.                                      *)
Overlap(start, duration, interval) ==
  Larger(0, Smaller(start + duration, interval[2]) - Larger(start, interval[1]))
CandidateIntervals(p, domains) ==
  LET points == UNION {domains[i] \cup {s + p.tasks[i].duration : s \in domains[i]} : i \in Tasks(p)}
  IN  {<<left, right>> \in points \X points : left < right}
RequiredEnergy(p, domains, interval) ==
  MapThenSumSet(
    LAMBDA i : p.tasks[i].demand *
                 Min({Overlap(s, p.tasks[i].duration, interval) : s \in domains[i]}),
    Tasks(p))
Slack(p, domains, interval) ==
  p.capacity * (interval[2] - interval[1]) - RequiredEnergy(p, domains, interval)
EnergyFeasible(p, domains, intervals) ==
  \A interval \in intervals : Slack(p, domains, interval) >= 0
MinimumSlack(p, domains) ==
  Min({Slack(p, domains, interval) : interval \in CandidateIntervals(p, domains)})

-----------------------------------------------------------------------------
(* Disjunctive resources.                                                  *)
NonOverlapping(p, i, start, j, other) ==
  start + p.tasks[i].duration <= other \/ other + p.tasks[j].duration <= start
PairwiseSupports(p, domains, i, start) ==
  \A j \in Tasks(p) \ {i} : \E other \in domains[j] : NonOverlapping(p, i, start, j, other)

\* i is before j when some pair of starts fits and every pair that fits says so.
AllPairsForceBefore(p, domains, i, j) ==
  LET fitting == {pair \in domains[i] \X domains[j] :
                   NonOverlapping(p, i, pair[1], j, pair[2])}
  IN  /\ fitting # {}
      /\ \A pair \in fitting : pair[1] + p.tasks[i].duration <= pair[2]
ForcedPrecedences(p, domains) ==
  {pair \in Tasks(p) \X Tasks(p) :
    /\ pair[1] # pair[2]
    /\ AllPairsForceBefore(p, domains, pair[1], pair[2])
    /\ ~AllPairsForceBefore(p, domains, pair[2], pair[1])}

\* Depth first, the task with the fewest starts first, until every task is placed
\* or the budget shared by all the searches of the propagation is spent.
RECURSIVE SearchCompleteAssignment(_, _, _, _)
SearchCompleteAssignment(p, domains, placed, search) ==
  LET open == Tasks(p) \ DOMAIN placed
      next == CHOOSE i \in open : \A j \in open \ {i} :
                \/ Cardinality(domains[i]) < Cardinality(domains[j])
                \/ Cardinality(domains[i]) = Cardinality(domains[j]) /\ i < j
      Fits(start) == \A j \in DOMAIN placed : NonOverlapping(p, next, start, j, placed[j])
      Try(result, start) ==
        IF result.found \/ result.exceeded \/ ~Fits(start) THEN result
        ELSE SearchCompleteAssignment(p, domains, placed @@ (next :> start), result)
      entered == [search EXCEPT !.visited = @ + 1]
  IN  IF search.visited >= p.budget THEN [search EXCEPT !.exceeded = TRUE]
      ELSE IF open = {} THEN [entered EXCEPT !.found = TRUE]
      ELSE FoldLeft(Try, entered, Ascending(domains[next]))

\* The starts of a task with global support, and the nodes spent to find out.
GlobalRevision(p, domains, i, visited) ==
  LET Check(result, start) ==
        IF result.exceeded THEN result
        ELSE LET search == SearchCompleteAssignment(p, domains, i :> start,
                             [found |-> FALSE, exceeded |-> FALSE, visited |-> result.visited])
             IN  [visited |-> search.visited, exceeded |-> search.exceeded,
                  supported |-> result.supported \cup IF search.found THEN {start} ELSE {}]
  IN  FoldLeft(Check, [visited |-> visited, exceeded |-> FALSE, supported |-> {}],
               Ascending(domains[i]))

-----------------------------------------------------------------------------
\* The energetic propagator keeps for a whole pass the intervals it opened it with.
EnergySupports(p, domains, i, start, intervals) ==
  EnergyFeasible(p, [domains EXCEPT ![i] = {start}], intervals)

Supported(p, domains, i, start) ==
  CASE p.kind = "all_different" -> HasPerfectMatching(domains, i, start)
    [] p.kind = "timetable" -> TimetableSupports(p, domains, i, start)
    [] p.kind = "energy" -> EnergySupports(p, domains, i, start, work.intervals)
    [] p.kind = "pairwise" -> PairwiseSupports(p, domains, i, start)

\* What a pass asks of the domains before it revises any task.
PassInfeasible(p, domains, intervals) ==
  CASE p.kind = "all_different" -> ~HasPerfectMatching(domains, NoVariable, 0)
    [] p.kind = "timetable" -> MandatoryPeakLoad(p, domains) > p.capacity
    [] p.kind = "energy" -> ~EnergyFeasible(p, domains, intervals)
    [] OTHER -> FALSE

IntervalsOf(p, domains) == IF p.kind = "energy" THEN CandidateIntervals(p, domains) ELSE {}

Report(p, domains) ==
  CASE p.kind = "timetable" -> [peak |-> MandatoryPeakLoad(p, domains)]
    [] p.kind = "energy" -> [slack |-> MinimumSlack(p, domains)]
    [] p.kind = "pairwise" -> [precedences |-> ForcedPrecedences(p, domains)]
    [] OTHER -> << >>

Start(p) ==
  /\ tally = [passes |-> 0, examined |-> 0]
  /\ IF Rejection(p) # NoError
     THEN work = << >> /\ answer = [result |-> Rejection(p)]
     ELSE /\ work = [domains |-> Initial(p), before |-> Initial(p), next |-> 0, intervals |-> {}]
          /\ answer = Unanswered

Running == answer = Unanswered
Between == Running /\ work.next = 0
Stop(result) == answer' = [result |-> result] /\ UNCHANGED <<problem, work>>

OpenPass ==
  /\ Between
  /\ LET intervals == IntervalsOf(problem, work.domains)
         opened == [tally EXCEPT !.passes = @ + 1]
         examined == [opened EXCEPT !.examined = @ + Cardinality(intervals)]
     IN  \/ /\ problem.kind = "energy" /\ Cardinality(intervals) > problem.budget
            /\ Stop("IntervalBudgetExceeded")
            /\ tally' = opened
         \/ /\ problem.kind = "energy" => Cardinality(intervals) <= problem.budget
            /\ PassInfeasible(problem, work.domains, intervals)
            /\ Stop("Infeasible")
            /\ tally' = examined
         \/ /\ problem.kind = "energy" => Cardinality(intervals) <= problem.budget
            /\ ~PassInfeasible(problem, work.domains, intervals)
            /\ work' = [work EXCEPT !.next = 1, !.intervals = intervals]
            /\ tally' = examined
            /\ UNCHANGED <<problem, answer>>

Keep(supported) ==
  IF supported = {} THEN Stop("Infeasible")
  ELSE /\ work' = [work EXCEPT !.domains[work.next] = supported, !.next = @ + 1]
       /\ UNCHANGED <<problem, answer>>

Revise ==
  /\ Running
  /\ work.next \in Tasks(problem)
  /\ problem.kind # "global"
  /\ Keep({start \in work.domains[work.next] :
             Supported(problem, work.domains, work.next, start)})
  /\ UNCHANGED tally

ReviseGlobally ==
  /\ Running
  /\ work.next \in Tasks(problem)
  /\ problem.kind = "global"
  /\ LET revision == GlobalRevision(problem, work.domains, work.next, tally.examined)
     IN  /\ tally' = [tally EXCEPT !.examined = revision.visited]
         /\ IF revision.exceeded THEN Stop("SearchBudgetExceeded") ELSE Keep(revision.supported)

ClosePass ==
  /\ Running
  /\ work.next > Len(problem.tasks)
  /\ IF work.domains = work.before
     THEN /\ answer' = [result |-> "propagated", domains |-> work.domains,
                        removed |-> Size(Initial(problem)) - Size(work.domains),
                        report |-> Report(problem, work.domains)]
          /\ UNCHANGED work
     ELSE /\ work' = [work EXCEPT !.before = work.domains, !.next = 0, !.intervals = {}]
          /\ UNCHANGED answer
  /\ UNCHANGED <<problem, tally>>

Next == OpenPass \/ Revise \/ ReviseGlobally \/ ClosePass

-----------------------------------------------------------------------------
Starts(domains) ==
  {v \in [DOMAIN domains -> UNION {domains[i] : i \in DOMAIN domains}] :
    \A i \in DOMAIN domains : v[i] \in domains[i]}
Valid(p, v) ==
  CASE p.kind = "all_different" -> \A i, j \in Tasks(p) : i # j => v[i] # v[j]
    [] p.kind \in Cumulative ->
         \A instant \in {v[i] : i \in Tasks(p)} :
           MapThenSumSet(LAMBDA i : IF instant \in v[i]..(v[i] + p.tasks[i].duration - 1)
                                    THEN p.tasks[i].demand ELSE 0, Tasks(p)) <= p.capacity
    [] OTHER -> \A i, j \in Tasks(p) : i # j => NonOverlapping(p, i, v[i], j, v[j])
Solutions(p) == {v \in Starts(Initial(p)) : Valid(p, v)}

\* No propagator ever removes a start that some solution uses.
SolutionsAreKept ==
  answer = Unanswered => Solutions(problem) \subseteq Starts(work.domains)

\* What each report claims, no more and no less: the two exact propagators leave
\* exactly the supported values, the others a sound over-approximation that is a
\* solution once every start is fixed.
ReportIsTrue ==
  /\ answer.result = "Infeasible" => Solutions(problem) = {}
  /\ answer.result = "propagated" =>
       LET solutions == Solutions(problem)
           supported == [i \in Tasks(problem) |-> {v[i] : v \in solutions}]
       IN  /\ solutions \subseteq Starts(answer.domains)
           /\ problem.kind \in {"all_different", "global"} => answer.domains = supported
           /\ problem.kind = "pairwise" =>
                \A pair \in answer.report.precedences : \A v \in solutions :
                  v[pair[1]] + problem.tasks[pair[1]].duration <= v[pair[2]]
           /\ problem.kind = "timetable" => answer.report.peak <= problem.capacity
           /\ problem.kind = "energy" => answer.report.slack >= 0
           /\ (\A i \in Tasks(problem) : Cardinality(answer.domains[i]) = 1) =>
                solutions = Starts(answer.domains)
=============================================================================
