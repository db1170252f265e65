---------------------------- MODULE ElasticCommit ----------------------------
(***************************************************************************)
(* prospect-elastic, from probes to evidence: a probe set is evaluated     *)
(* prospectively against its explicit no-op, one alternative is chosen,    *)
(* the gate hands the chosen plan to the ElasticXxx runtime, and what came *)
(* of it is captured.  Choosing and acting are separate calls: the probe   *)
(* set and the plan presented to the gate are whatever the caller holds by *)
(* then.  The runtime is external; its cycle may end in any way.           *)
(***************************************************************************)
EXTENDS Integers, Sequences, FiniteSets, SequencesExt

CONSTANTS
  ProbeInputs, \* arguments of ElasticProbeSetV1::new: [baseline, probes]
  Plans,       \* plans at action time: [validated, candidate, resource]
  Signatures,  \* what the prospective model returns
  Policies,    \* utilities of signatures: functions from Signatures to Int
  NoValue      \* None

Errors ==
  {"PlanNotValidated", "MissingPlanCandidate", "CandidateNotDeclared", "Probe", "Engine",
   "BaselineMismatch", "SelectedProbeMissing", "RollbackIntentMismatch", "PlanIntentMismatch",
   "Runtime", "ChoiceScenarioMismatch", "ChoiceUtilityDrift", "Evidence",
   "InconsistentCycleOutcome"}
Dispositions == {"NoOp", "Committed", "RolledBack", "NoPhysicalActuation"}

(* Ids are integers in their order.  Nothing that may be missing is NoValue *)
(* when it is there.                                                        *)
ASSUME ElasticAssumption ==
  /\ Policies \subseteq [Signatures -> Int]
  /\ \A plan \in Plans :
       plan.validated \in BOOLEAN
         /\ [resource |-> plan.resource, candidate |-> plan.candidate] # NoValue
  /\ NoValue \notin Signatures /\ NoValue \notin Errors \cup Dispositions
  /\ \A input \in ProbeInputs :
       /\ input.baseline \in Int /\ input.probes \in Seq(ToSet(input.probes))
       /\ \A probe \in ToSet(input.probes) : probe.id \in Int

Verifications == {"NotPerformed", "Pass", "Fail", "Inconclusive"}

(* elastic_runtime::CycleResult, as far as the evidence looks.             *)
CycleResults ==
  [validated : BOOLEAN \cup {NoValue}, actuated : BOOLEAN, verification : Verifications,
   commit : BOOLEAN, rollback : BOOLEAN]

VARIABLES
  pc,         \* which call comes next
  probes,     \* the probe set that is compared: [baseline, probes]
  policy,     \* the policy of the comparison
  reference,  \* the model's answer for the no-op
  signatures, \* its answers for the probes, in their order
  choice,     \* the ElasticPrecommitChoice: [noop, id, utility, rollback]
  supplied,   \* the probe set presented to the gate
  plan,       \* the plan presented to the gate
  proposal,   \* what the runtime was given: [plan, candidate], or NoValue
  outcome,    \* [noop, cycle, declared], or NoValue
  evidence,   \* the captured bundle, or NoValue
  error       \* the error a call returned, or NoValue

vars == <<pc, probes, policy, reference, signatures, choice, supplied, plan, proposal,
          outcome, evidence, error>>
compared == <<probes, policy, reference, signatures>>
acted == <<supplied, plan, proposal, outcome>>

----------------------------------------------------------------------------
(* Plans and probe sets.                                                   *)

(* ValidatedPlanIntentV1::from_validated_plan: the error, or NoValue.      *)
IntentError(validated) ==
  IF ~validated.validated THEN "PlanNotValidated"
  ELSE IF validated.candidate = NoValue THEN "MissingPlanCandidate"
  ELSE IF validated.candidate \notin validated.resource.declares THEN "CandidateNotDeclared"
  ELSE NoValue

Intent(validated) ==
  [resource |-> validated.resource, candidate |-> validated.candidate]

(* Records with distinct ids in the order of their ids: each stands behind *)
(* as many as have smaller ids.                                            *)
Ascending(s) ==
  [i \in DOMAIN s |->
     CHOOSE x \in ToSet(s) : Cardinality({ y \in ToSet(s) : y.id < x.id }) = i - 1]

Repeats(input) ==
  \E i, j \in DOMAIN input.probes : i # j /\ input.probes[i].id = input.probes[j].id

NamesBaseline(input) == \E i \in DOMAIN input.probes : input.probes[i].id = input.baseline

(* Fault: the probes stay as they were listed.                             *)
ProbeSetAsListed(input) == IF Repeats(input) \/ NamesBaseline(input) THEN NoValue ELSE input

(* ElasticProbeSetV1::new: sorted by id, or NoValue for an error.          *)
ProbeSet(input) ==
  IF Repeats(input) \/ NamesBaseline(input) THEN NoValue
  ELSE [baseline |-> input.baseline, probes |-> Ascending(input.probes)]

ProbeSets == { ProbeSet(input) : input \in ProbeInputs } \ {NoValue}

(* probes().iter().find(id), as a set of at most one position.             *)
Find(set, id) == { i \in DOMAIN set.probes : set.probes[i].id = id }

----------------------------------------------------------------------------
Init ==
  /\ pc = "build"
  /\ policy \in Policies
  /\ probes = NoValue /\ reference = NoValue /\ signatures = <<>> /\ choice = NoValue
  /\ supplied = NoValue /\ plan = NoValue /\ proposal = NoValue
  /\ outcome = NoValue /\ evidence = NoValue /\ error = NoValue

Fail(reason) ==
  /\ error' = reason /\ pc' = "error"
  /\ UNCHANGED <<compared, choice, acted, evidence>>

Build(input) ==
  /\ pc = "build"
  /\ IF ProbeSet(input) = NoValue THEN Fail("Probe")
     ELSE /\ probes' = ProbeSet(input) /\ pc' = "baseline"
          /\ UNCHANGED <<policy, reference, signatures, choice, acted, evidence, error>>

(* evaluate_batch: the baseline first, then every scenario; the first      *)
(* error is returned and nothing is kept.                                  *)
EvaluateBaseline(signature) ==
  /\ pc = "baseline"
  /\ reference' = signature /\ pc' = "evaluate"
  /\ UNCHANGED <<probes, policy, signatures, choice, acted, evidence, error>>

Evaluate(signature) ==
  /\ pc = "evaluate" /\ Len(signatures) < Len(probes.probes)
  /\ signatures' = Append(signatures, signature)
  /\ UNCHANGED <<pc, probes, policy, reference, choice, acted, evidence, error>>

EngineFails ==
  /\ \/ pc = "baseline"
     \/ pc = "evaluate" /\ Len(signatures) < Len(probes.probes)
  /\ Fail("Engine")

(* best_by_policy: the position of the best outcome, 0 for an empty batch. *)
Improve(best, i) ==
  IF best = 0 THEN i ELSE IF policy[signatures[i]] > policy[signatures[best]] THEN i ELSE best

BestByPolicy ==
  LET best[i \in 0 .. Len(signatures)] == IF i = 0 THEN 0 ELSE Improve(best[i - 1], i)
  IN best[Len(signatures)]

NoOp == [noop |-> TRUE, id |-> probes.baseline, utility |-> policy[reference], rollback |-> NoValue]

Probe(i) ==
  [noop |-> FALSE, id |-> probes.probes[i].id, utility |-> policy[signatures[i]],
   rollback |-> probes.probes[i].rollback]

(* compare_before_commit: a probe has to improve on the no-op.  The best   *)
(* outcome is looked up by its id among the probes it was made from, which *)
(* are in the order of the outcomes and have distinct ids.                 *)
Compare ==
  /\ pc = "evaluate" /\ Len(signatures) = Len(probes.probes)
  /\ choice' = IF BestByPolicy # 0 /\ policy[signatures[BestByPolicy]] > policy[reference]
               THEN Probe(BestByPolicy) ELSE NoOp
  /\ pc' = "gate"
  /\ UNCHANGED <<compared, acted, evidence, error>>

----------------------------------------------------------------------------
(* execute_selected_probe.                                                 *)

(* Fault: the plan is trusted to be the probe's.                           *)
GateErrorUnbound(set, validated) ==
  IF choice.noop THEN IF choice.id = set.baseline THEN NoValue ELSE "BaselineMismatch"
  ELSE IF Find(set, choice.id) = {} THEN "SelectedProbeMissing"
  ELSE IF IntentError(validated) # NoValue THEN "Probe"
  ELSE NoValue

(* The error it returns before the runtime is involved, or NoValue.        *)
GateError(set, validated) ==
  IF choice.noop THEN IF choice.id = set.baseline THEN NoValue ELSE "BaselineMismatch"
  ELSE IF Find(set, choice.id) = {} THEN "SelectedProbeMissing"
  ELSE LET probe == set.probes[CHOOSE i \in Find(set, choice.id) : TRUE] IN
       IF probe.rollback # choice.rollback THEN "RollbackIntentMismatch"
       ELSE IF IntentError(validated) # NoValue THEN "Probe"
       ELSE IF Intent(validated) # probe.plan THEN "PlanIntentMismatch"
       ELSE NoValue

Present(set, validated) == supplied' = set /\ plan' = validated

Refuse(set, validated) ==
  /\ pc = "gate" /\ GateError(set, validated) # NoValue
  /\ Present(set, validated)
  /\ error' = GateError(set, validated) /\ pc' = "error"
  /\ UNCHANGED <<compared, choice, proposal, outcome, evidence>>

KeepNoOp(set, validated) ==
  /\ pc = "gate" /\ choice.noop /\ GateError(set, validated) = NoValue
  /\ Present(set, validated)
  /\ outcome' = [noop |-> TRUE, cycle |-> NoValue, declared |-> NoValue]
  /\ pc' = "capture"
  /\ UNCHANGED <<compared, choice, proposal, evidence, error>>

(* LockedCandidatePlanner: the plan's candidate, if the resource that the  *)
(* runtime plans for declares it.                                          *)
ProposeTransition(validated) ==
  [resource |-> validated.resource,
   candidate |-> IF validated.candidate \in validated.resource.declares
                 THEN validated.candidate ELSE NoValue]

(* Runtime::cycle, with the plan's resource and the locked planner.        *)
EnterRuntime(set, validated) ==
  /\ pc = "gate" /\ ~choice.noop /\ GateError(set, validated) = NoValue
  /\ Present(set, validated)
  /\ proposal' = ProposeTransition(validated)
  /\ pc' = "cycle"
  /\ UNCHANGED <<compared, choice, outcome, evidence, error>>

Cycle(cycle) ==
  /\ pc = "cycle"
  /\ outcome' = [noop |-> FALSE, cycle |-> cycle, declared |-> choice.rollback]
  /\ pc' = "capture"
  /\ UNCHANGED <<compared, choice, supplied, plan, proposal, evidence, error>>

RuntimeFails == pc = "cycle" /\ Fail("Runtime")

----------------------------------------------------------------------------
(* capture_elastic_execution_evidence.                                     *)

Committed(cycle) ==
  /\ cycle.actuated /\ cycle.validated = TRUE
  /\ cycle.verification = "Pass" /\ cycle.commit /\ ~cycle.rollback

RolledBack(cycle) ==
  cycle.actuated /\ cycle.validated = TRUE /\ ~cycle.commit /\ cycle.rollback

(* The ElasticExecutionDisposition, or NoValue for an inconsistent cycle.  *)
Classify(cycle) ==
  IF cycle.commit /\ cycle.rollback THEN NoValue
  ELSE IF cycle.commit THEN IF Committed(cycle) THEN "Committed" ELSE NoValue
  ELSE IF cycle.rollback THEN IF RolledBack(cycle) THEN "RolledBack" ELSE NoValue
  ELSE IF cycle.actuated THEN NoValue
  ELSE "NoPhysicalActuation"

Disposition == IF outcome.noop THEN "NoOp" ELSE Classify(outcome.cycle)

(* It gets the comparison, the outcome, and the set and plan the gate got, *)
(* but a policy of its own: it computes the utilities again.               *)

(* The utilities recorded: the no-op of the supplied set, then the batch.  *)
Scores(utility) ==
  <<[id |-> supplied.baseline, score |-> utility[reference]]>>
    \o [i \in DOMAIN signatures |-> [id |-> probes.probes[i].id, score |-> utility[signatures[i]]]]

(* The first score recorded for the choice, as a set of at most one.       *)
Selected(scores) ==
  LET matching == { i \in DOMAIN scores : scores[i].id = choice.id }
  IN { scores[i].score : i \in { i \in matching : \A j \in matching : i <= j } }

(* Fault: the utility is not compared with the choice's.                   *)
CaptureErrorUndrifted(scores, repeatsSource) ==
  IF IntentError(plan) # NoValue THEN "Probe"
  ELSE IF Selected(scores) = {} THEN "ChoiceScenarioMismatch"
  ELSE IF repeatsSource \/ Cardinality({ scores[i].id : i \in DOMAIN scores }) < Len(scores)
  THEN "Evidence"
  ELSE IF Disposition = NoValue THEN "InconsistentCycleOutcome"
  ELSE NoValue

(* repeatsSource: the caller's sources already hold the runtime's, or one  *)
(* of them twice.                                                          *)
CaptureError(scores, repeatsSource) ==
  IF IntentError(plan) # NoValue THEN "Probe"
  ELSE IF Selected(scores) = {} THEN "ChoiceScenarioMismatch"
  ELSE IF Selected(scores) # {choice.utility} THEN "ChoiceUtilityDrift"
  ELSE IF repeatsSource \/ Cardinality({ scores[i].id : i \in DOMAIN scores }) < Len(scores)
  THEN "Evidence"
  ELSE IF Disposition = NoValue THEN "InconsistentCycleOutcome"
  ELSE NoValue

Capture(utility, repeatsSource) ==
  /\ pc = "capture"
  /\ IF CaptureError(Scores(utility), repeatsSource) # NoValue
     THEN Fail(CaptureError(Scores(utility), repeatsSource))
     ELSE /\ evidence' = [selected |-> choice.id, scores |-> Ascending(Scores(utility)),
                          resource |-> plan.resource, disposition |-> Disposition,
                          cycle |-> outcome.cycle, declared |-> outcome.declared]
          /\ pc' = "done"
          /\ UNCHANGED <<compared, choice, acted, error>>

Ended == pc \in {"done", "error"} /\ UNCHANGED vars

Next ==
  \/ \E input \in ProbeInputs : Build(input)
  \/ \E signature \in Signatures : EvaluateBaseline(signature) \/ Evaluate(signature)
  \/ EngineFails \/ Compare
  \/ \E set \in ProbeSets, validated \in Plans :
       Refuse(set, validated) \/ KeepNoOp(set, validated) \/ EnterRuntime(set, validated)
  \/ \E cycle \in CycleResults : Cycle(cycle)
  \/ RuntimeFails
  \/ \E utility \in Policies, repeatsSource \in BOOLEAN : Capture(utility, repeatsSource)
  \/ Ended

Spec == Init /\ [][Next]_vars

----------------------------------------------------------------------------
(* Properties.                                                             *)

Ids(set) == { set.probes[i].id : i \in DOMAIN set.probes }

(* No-op wins ties and whenever nothing improves on it; a chosen probe is  *)
(* strictly better than the no-op and than every probe of smaller id, and  *)
(* no probe is better.  The choice depends on the ids, not on the order in *)
(* which the probes were listed.                                           *)
ChoiceBeatsNoOp ==
  choice # NoValue =>
    LET U(i) == policy[signatures[i]]
        Better == { i \in DOMAIN signatures : U(i) > policy[reference] }
    IN /\ choice.noop <=> Better = {}
       /\ ~choice.noop => \E i \in Better :
            /\ choice.id = probes.probes[i].id /\ choice.utility = U(i)
            /\ choice.rollback = probes.probes[i].rollback
            /\ \A j \in DOMAIN signatures :
                 U(j) <= U(i) /\ (probes.probes[j].id < choice.id => U(j) < U(i))

(* The runtime only ever gets what was decided: a no-op never reaches it,  *)
(* it gets a validated plan whose candidate the resource declares, equal   *)
(* to the intent of the supplied probe with the chosen id and rollback;    *)
(* and when the supplied set is the compared one, that probe is the one    *)
(* whose prospective signature improved on the no-op.                      *)
ActsAsSelected ==
  proposal # NoValue =>
    /\ ~choice.noop /\ plan.validated
    /\ proposal.candidate # NoValue /\ proposal.candidate \in proposal.resource.declares
    /\ \E probe \in ToSet(supplied.probes) :
         probe.id = choice.id /\ probe.rollback = choice.rollback /\ probe.plan = proposal
    /\ supplied = probes => \E i \in DOMAIN signatures :
         /\ probes.probes[i].plan = proposal
         /\ policy[signatures[i]] > policy[reference]
         /\ \A j \in DOMAIN signatures : policy[signatures[j]] <= policy[signatures[i]]

(* Evidence is the truth about the transaction: it names the choice with   *)
(* the utility that decided it, one score per alternative, an effect only  *)
(* if the runtime was entered, a commit only after an actuation of a       *)
(* validated plan passed verification, and no effect only if nothing was   *)
(* actuated.                                                               *)
EvidenceIsTrue ==
  evidence # NoValue =>
    LET cycle == evidence.cycle
        Recorded == { s \in ToSet(evidence.scores) : s.id = evidence.selected }
    IN /\ Recorded = {[id |-> choice.id, score |-> choice.utility]}
       /\ Len(evidence.scores) = Len(probes.probes) + 1
       /\ Cardinality({ s.id : s \in ToSet(evidence.scores) }) = Len(evidence.scores)
       /\ evidence.disposition = "NoOp" <=> proposal = NoValue
       /\ proposal # NoValue =>
            /\ evidence.resource = proposal.resource
            /\ evidence.disposition = "Committed" <=> cycle.commit
            /\ evidence.disposition = "RolledBack" <=> cycle.rollback
            /\ evidence.disposition = "NoPhysicalActuation" <=> ~cycle.actuated
            /\ cycle.commit => cycle.verification = "Pass"
            /\ evidence.declared = choice.rollback
=============================================================================
