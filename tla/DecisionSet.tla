----------------------------- MODULE DecisionSet -----------------------------
(***************************************************************************)
(* Constraint-first decisions of prospect-scenario: the baseline and every *)
(* scenario of a completed batch are assessed one after the other by a     *)
(* callback, which rejects an alternative or gives it a vector of          *)
(* objectives; the admissible ones are then compared, lexicographically    *)
(* and by Pareto dominance.  What the callback answers is arbitrary.       *)
(***************************************************************************)
EXTENDS Integers, Sequences, FiniteSets

CONSTANTS
  Batches,      \* completed batches: sequences of scenario ids
  ObjectiveIds, \* objective ids
  Blank,        \* an objective id that is empty once trimmed
  Vectors,      \* objective vectors the callback may return
  Reasons,      \* reasons it may reject an alternative for
  Baseline,     \* AlternativeId::Baseline
  NoValue       \* None

Directions == {"Maximize", "Minimize"}
Objectives == [id : ObjectiveIds, direction : Directions, value : Int]

(* DecisionSetError.                                                       *)
Errors == {"DuplicateAlternativeId", "EmptyObjectiveVector", "EmptyObjectiveId",
           "DuplicateObjectiveId", "ObjectiveSchemaMismatch"}

ASSUME VectorsAssumption == Vectors \subseteq Seq(Objectives)
ASSUME DecisionAssumption ==
  /\ NoValue \notin Reasons \cup Errors
  /\ NoValue \notin Seq(Objectives) \cup Seq([id : ObjectiveIds, direction : Directions])
  /\ \A scenarios \in Batches : scenarios \in Seq({ scenarios[i] : i \in DOMAIN scenarios })

VARIABLES
  batch,        \* the batch's scenario ids
  pc,           \* where the assessment, then the selection, stands
  alternatives, \* what has been assessed: [id, objectives, reason]
  schema,       \* the ids and directions of the first admissible vector
  error,        \* the DecisionSetError, or NoValue
  next,         \* the alternative lexicographic_best looks at
  best          \* its best so far: a position of alternatives, 0 for None

vars == <<batch, pc, alternatives, schema, error, next, best>>

----------------------------------------------------------------------------
(* Comparisons.  Two vectors of one decision set have the same length,     *)
(* ids and directions.                                                     *)

Cmp(x, y) == IF x < y THEN "Less" ELSE IF x > y THEN "Greater" ELSE "Equal"

PreferredCmp(left, right) ==
  IF left.direction = "Maximize" THEN Cmp(left.value, right.value)
  ELSE Cmp(right.value, left.value)

Ranked(left, right, order) ==
  { i \in DOMAIN left : PreferredCmp(left[i], right[i]) = order }

(* compare_vectors: the first objective that tells the two apart.          *)
CompareVectors(left, right) ==
  LET differing == DOMAIN left \ Ranked(left, right, "Equal") IN
    IF differing = {} THEN "Equal"
    ELSE LET first == CHOOSE i \in differing : \A j \in differing : i <= j
         IN PreferredCmp(left[first], right[first])

Dominates(left, right) ==
  Ranked(left, right, "Less") = {} /\ Ranked(left, right, "Greater") # {}

(* Fault: also the objectives on which it is no worse.                     *)
NoWorseIds(left, right) == { left[i].id : i \in DOMAIN left }

(* dominance_strict_objective_ids, when Dominates holds.                   *)
StrictIds(left, right) == { left[i].id : i \in Ranked(left, right, "Greater") }

----------------------------------------------------------------------------
Init ==
  /\ batch \in Batches
  /\ pc = "admit"
  /\ alternatives = <<>> /\ schema = NoValue /\ error = NoValue
  /\ next = 1 /\ best = 0

Repeated == \E i, j \in DOMAIN batch : i < j /\ batch[i] = batch[j]

(* Repeated scenario ids are refused before the callback runs.             *)
Admit ==
  /\ pc = "admit"
  /\ IF Repeated THEN pc' = "error" /\ error' = "DuplicateAlternativeId"
     ELSE pc' = "assess" /\ UNCHANGED error
  /\ UNCHANGED <<batch, alternatives, schema, next, best>>

Candidate == IF alternatives = <<>> THEN Baseline ELSE batch[Len(alternatives)]
Assessing == pc = "assess" /\ Len(alternatives) <= Len(batch)

SchemaOf(vector) ==
  [i \in DOMAIN vector |-> [id |-> vector[i].id, direction |-> vector[i].direction]]

RepeatsId(vector, i) == \E j \in 1 .. i - 1 : vector[j].id = vector[i].id

(* Fault: the schema is compared by its length.                            *)
SchemaErrorByLength(vector) ==
  LET defects == { i \in DOMAIN vector : vector[i].id = Blank \/ RepeatsId(vector, i) } IN
    IF vector = <<>> THEN "EmptyObjectiveVector"
    ELSE IF defects # {} THEN "EmptyObjectiveId"
    ELSE IF schema # NoValue /\ Len(schema) # Len(vector) THEN "ObjectiveSchemaMismatch"
    ELSE NoValue

(* validate_objectives: the error it returns, or NoValue.                  *)
SchemaError(vector) ==
  LET defects == { i \in DOMAIN vector : vector[i].id = Blank \/ RepeatsId(vector, i) } IN
    IF vector = <<>> THEN "EmptyObjectiveVector"
    ELSE IF defects # {}
    THEN LET first == CHOOSE i \in defects : \A j \in defects : i <= j
         IN IF vector[first].id = Blank THEN "EmptyObjectiveId" ELSE "DuplicateObjectiveId"
    ELSE IF schema \notin {NoValue, SchemaOf(vector)} THEN "ObjectiveSchemaMismatch"
    ELSE NoValue

Push(objectives, reason) ==
  alternatives' = Append(alternatives,
                         [id |-> Candidate, objectives |-> objectives, reason |-> reason])

(* The callback's Err: the objectives are discarded.                       *)
Reject(reason) ==
  /\ Assessing
  /\ Push(NoValue, reason)
  /\ UNCHANGED <<batch, pc, schema, error, next, best>>

(* The callback's Ok, with a vector that fits the schema or founds it.     *)
Accept(vector) ==
  /\ Assessing /\ SchemaError(vector) = NoValue
  /\ Push(vector, NoValue)
  /\ schema' = IF schema = NoValue THEN SchemaOf(vector) ELSE schema
  /\ UNCHANGED <<batch, pc, error, next, best>>

(* Any structural error rejects the whole decision set.                    *)
Refuse(vector) ==
  /\ Assessing /\ SchemaError(vector) # NoValue
  /\ error' = SchemaError(vector)
  /\ pc' = "error"
  /\ UNCHANGED <<batch, alternatives, schema, next, best>>

Assessed ==
  /\ pc = "assess" /\ Len(alternatives) = Len(batch) + 1
  /\ pc' = "select"
  /\ UNCHANGED <<batch, alternatives, schema, error, next, best>>

----------------------------------------------------------------------------
(* lexicographic_best.                                                     *)

IsAdmissible(i) == alternatives[i].objectives # NoValue
Vector(i) == alternatives[i].objectives
Admissible == { i \in DOMAIN alternatives : IsAdmissible(i) }

Looked(found) ==
  /\ best' = found
  /\ next' = next + 1
  /\ UNCHANGED <<batch, pc, alternatives, schema, error>>

(* Fault: an equal vector replaces the best.                               *)
LookKeepsLatest ==
  /\ pc = "select" /\ next <= Len(alternatives)
  /\ Looked(IF IsAdmissible(next)
               /\ (best = 0 \/ CompareVectors(Vector(next), Vector(best)) # "Less")
            THEN next ELSE best)

Look ==
  /\ pc = "select" /\ next <= Len(alternatives)
  /\ Looked(IF IsAdmissible(next)
               /\ (best = 0 \/ CompareVectors(Vector(next), Vector(best)) = "Greater")
            THEN next ELSE best)

Selected ==
  /\ pc = "select" /\ next > Len(alternatives)
  /\ pc' = "done"
  /\ UNCHANGED <<batch, alternatives, schema, error, next, best>>

----------------------------------------------------------------------------
(* pareto_front, as the set of its positions; its order is theirs.         *)
ParetoFront ==
  { i \in Admissible : ~\E j \in Admissible \ {i} : Dominates(Vector(j), Vector(i)) }

(* pareto_dominance_witnesses, in no particular order.                     *)
Dominations ==
  { p \in Admissible \X Admissible : p[1] # p[2] /\ Dominates(Vector(p[1]), Vector(p[2])) }
Witnesses ==
  { [dominator |-> p[1], dominated |-> p[2],
     ids |-> StrictIds(Vector(p[1]), Vector(p[2]))] : p \in Dominations }

----------------------------------------------------------------------------
Callback ==
  \/ \E reason \in Reasons : Reject(reason)
  \/ \E vector \in Vectors : Accept(vector) \/ Refuse(vector)

Ended == pc \in {"done", "error"} /\ UNCHANGED vars

Next == Admit \/ Callback \/ Assessed \/ Look \/ Selected \/ Ended

Spec == Init /\ [][Next]_vars

----------------------------------------------------------------------------
(* Properties.                                                             *)

(* Every variable keeps its type; the alternatives are the baseline and    *)
(* then the scenarios in input order, each admissible or rejected.         *)
TypeOK ==
  /\ batch \in Batches
  /\ pc \in {"admit", "assess", "select", "done", "error"}
  /\ alternatives \in
       Seq([id : {Baseline} \cup { batch[i] : i \in DOMAIN batch },
            objectives : Vectors \cup {NoValue}, reason : Reasons \cup {NoValue}])
  /\ Len(alternatives) <= Len(batch) + 1
  /\ \A i \in DOMAIN alternatives :
       /\ alternatives[i].id = IF i = 1 THEN Baseline ELSE batch[i - 1]
       /\ (alternatives[i].objectives = NoValue) # (alternatives[i].reason = NoValue)
  /\ schema = NoValue \/ \E vector \in Vectors : schema = SchemaOf(vector)
  /\ error \in Errors \cup {NoValue}
  /\ next \in 1 .. Len(alternatives) + 1
  /\ best \in 0 .. next - 1

(* Numbers that are compared are comparable: whatever was rejected in      *)
(* between, any two admissible alternatives have the same ids and the same *)
(* directions at every index, no id twice and none blank.                  *)
Comparable ==
  \A i, j \in Admissible :
    /\ SchemaOf(Vector(i)) = SchemaOf(Vector(j))
    /\ Vector(i) # <<>>
    /\ \A k, m \in DOMAIN Vector(i) :
         /\ Vector(i)[k].id # Blank
         /\ Vector(i)[k].id = Vector(i)[m].id => k = m

(* Worth of an objective value: the larger the better, in either direction. *)
Worth(i, k) ==
  IF Vector(i)[k].direction = "Minimize" THEN -Vector(i)[k].value ELSE Vector(i)[k].value

(* Alternative i beats j at the first objective on which they differ.      *)
Beats(i, j) ==
  \E k \in DOMAIN Vector(i) :
    /\ Worth(i, k) > Worth(j, k)
    /\ \A m \in 1 .. k - 1 : Worth(i, m) = Worth(j, m)

(* The selection is the first of the best: nobody beats it, it beats every *)
(* earlier alternative (so an exact tie retains the baseline or the        *)
(* earliest scenario), and there is one as soon as something is admissible. *)
SelectionIsEarliestBest ==
  pc = "done" =>
    /\ best = 0 <=> Admissible = {}
    /\ best # 0 =>
         /\ best \in Admissible
         /\ \A j \in Admissible : ~Beats(j, best) /\ (j < best => Beats(best, j))

(* i is at least as good as j everywhere and better somewhere.             *)
Improves(i, j) ==
  /\ \A k \in DOMAIN Vector(i) : Worth(i, k) >= Worth(j, k)
  /\ \E k \in DOMAIN Vector(i) : Worth(i, k) > Worth(j, k)

(* The two ways to decide agree, and neither hides anything: no front      *)
(* member can be improved, everything off the front is improved by a       *)
(* member of it, and the lexicographic selection is on the front.          *)
FrontCovers ==
  pc = "done" =>
    /\ \A i \in ParetoFront, j \in Admissible : ~Improves(j, i)
    /\ \A i \in Admissible \ ParetoFront : \E j \in ParetoFront : Improves(j, i)
    /\ best # 0 => best \in ParetoFront

(* The witnesses explain the front: exactly the alternatives off it are    *)
(* dominated, the named objectives are those strictly improved (at least   *)
(* one), and dominance is transitive and never mutual.                     *)
WitnessesExplainFront ==
  pc = "done" =>
    /\ { w.dominated : w \in Witnesses } = Admissible \ ParetoFront
    /\ \A w \in Witnesses :
         /\ w.ids # {}
         /\ w.ids = { Vector(w.dominator)[k].id :
                        k \in { k \in DOMAIN Vector(w.dominator) :
                                  Worth(w.dominator, k) # Worth(w.dominated, k) } }
    /\ \A v, w \in Witnesses : v.dominated = w.dominator =>
         /\ v.dominator # w.dominated
         /\ \E u \in Witnesses : u.dominator = v.dominator /\ u.dominated = w.dominated

(* The front is what cannot be improved, and what is off it says why.      *)
FrontIsExplained == FrontCovers /\ WitnessesExplainFront
=============================================================================
