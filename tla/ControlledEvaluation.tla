----------------------- MODULE ControlledEvaluation -----------------------
(***************************************************************************)
(* The cooperative batch evaluator of prospect-scenario: one caller thread *)
(* runs a baseline and then every scenario of a batch on an engine, and    *)
(* consults a shared cancellation flag, a monotonic deadline and a quota   *)
(* of candidate calls between the calls.                                   *)
(*                                                                         *)
(* Other threads (and progress callbacks) may cancel at any moment, and    *)
(* the clock may pass the deadline at any moment: both are actions of      *)
(* their own, interleaved with every step of the evaluator.                *)
(***************************************************************************)
EXTENDS Naturals, Sequences, FiniteSets

CONSTANTS
  Ids,         \* scenario ids
  Inputs,      \* the batches a caller may submit: sequences of ids
  Limits,      \* candidate quotas (EvaluationControl::max_evaluations)
  Signatures,  \* values an engine call may return
  Errors,      \* errors an engine call may return
  Baseline,    \* the target of the baseline call, not an id
  NoValue      \* "not there": None, or a call still in flight

ASSUME InputsAssumption == Inputs \subseteq Seq(Ids)
ASSUME LimitsAssumption == Limits \subseteq Nat
ASSUME BaselineAssumption == Baseline \notin Ids
ASSUME ResultAssumption == Signatures \cap Errors = {}   \* Ok and Err differ
ASSUME NoValueAssumption == NoValue \notin Ids \cup Signatures \cup Errors \cup {Baseline}

VARIABLES
  input,      \* the submitted batch
  limit,      \* control.max_evaluations
  deadline,   \* control.deadline is configured
  cancelled,  \* the shared AtomicBool of the cancellation token
  expired,    \* the monotonic clock has reached the deadline
  pc,         \* where the evaluator stands
  late,       \* the last clock reading was at or past the deadline
  baseline,   \* report.baseline
  outcomes,   \* report.outcomes
  taken,      \* scenarios the iterator `pending` has yielded
  current,    \* target of the engine call in flight
  status,     \* report.status
  called,     \* history: the engine calls, with what each one returned
  notices     \* history: the progress callbacks that were delivered

control == <<input, limit, deadline>>
environment == <<cancelled, expired>>
report == <<baseline, outcomes, taken, status>>
vars == <<control, environment, pc, late, report, current, called, notices>>

----------------------------------------------------------------------------
(* The report's status and the interruption reasons.                       *)

Completed == [kind |-> "Completed"]
Interrupted(reason) == [kind |-> "Interrupted", reason |-> reason]
EngineFailed(scenario, error) ==
  [kind |-> "EngineFailed", scenario |-> scenario, error |-> error]
DuplicateScenarioId(id) == [kind |-> "DuplicateScenarioId", id |-> id]

Reasons == {"Cancelled", "DeadlineReached", "EvaluationLimitReached"}
ASSUME ReasonAssumption == NoValue \notin Reasons

Statuses ==
  {Completed} \cup [kind : {"Interrupted"}, reason : Reasons]
    \cup [kind : {"EngineFailed"}, scenario : Ids \cup {NoValue}, error : Errors]
    \cup [kind : {"DuplicateScenarioId"}, id : Ids]

(* BatchExecution::state: the terminal classification of a status.         *)
StateOf(s) ==
  CASE s.kind = "Completed"           -> "Completed"
    [] s.kind = "Interrupted"         -> "Interrupted"
    [] s.kind = "EngineFailed"        -> "Failed"
    [] s.kind = "DuplicateScenarioId" -> "Rejected"

Outcomes == [scenario : Ids, signature : Signatures]
Calls ==
  [target : Ids \cup {Baseline}, cancelled : BOOLEAN, expired : BOOLEAN,
   result : Signatures \cup Errors \cup {NoValue}]
Notices ==
  [event : {"BaselineCompleted", "ScenarioCompleted", "Completed", "Interrupted",
            "Failed", "Rejected"},
   completed : Nat, cancelled : BOOLEAN]

(* BatchExecution::pending: what the iterator has not yielded.             *)
Pending == SubSeq(input, taken + 1, Len(input))

(* The batch contains the same id twice; RepeatAt(i) when position i is an *)
(* id the scan has already seen.                                           *)
RepeatAt(i) == \E j \in 1 .. i - 1 : input[j] = input[i]
HasDuplicate == \E i \in DOMAIN input : RepeatAt(i)
FirstRepeat ==
  CHOOSE i \in DOMAIN input : RepeatAt(i) /\ \A j \in 1 .. i - 1 : ~RepeatAt(j)

----------------------------------------------------------------------------
Init ==
  /\ input \in Inputs
  /\ limit \in Limits
  /\ deadline \in BOOLEAN
  /\ cancelled \in BOOLEAN      \* a token may be cancelled before admission
  /\ expired \in {FALSE, deadline}
  /\ pc = "admit"
  /\ late = FALSE
  /\ baseline = NoValue
  /\ outcomes = <<>>
  /\ taken = 0
  /\ current = NoValue
  /\ status = Completed
  /\ called = <<>>
  /\ notices = <<>>

----------------------------------------------------------------------------
(* The environment.                                                        *)

(* CancellationToken::cancel, from any thread or from a progress callback; *)
(* there is no reset.                                                      *)
Cancel ==
  /\ ~cancelled
  /\ cancelled' = TRUE
  /\ UNCHANGED <<control, expired, pc, late, report, current, called, notices>>

(* The clock reaches the configured deadline.                              *)
PassDeadline ==
  /\ deadline /\ ~expired
  /\ expired' = TRUE
  /\ UNCHANGED <<control, cancelled, pc, late, report, current, called, notices>>

----------------------------------------------------------------------------
(* The evaluator.                                                          *)

(* Duplicate ids are rejected before any engine call.                      *)
Admit ==
  /\ pc = "admit"
  /\ \/ /\ HasDuplicate
        /\ status' = DuplicateScenarioId(input[FirstRepeat])
        /\ pc' = "report"
     \/ /\ ~HasDuplicate
        /\ pc' = "clock"
        /\ UNCHANGED status
  /\ UNCHANGED <<control, environment, late, baseline, outcomes, taken, current, called, notices>>

(* The checkpoint's first half: now() is an argument, so the clock is read *)
(* before the token.                                                       *)
ReadClock ==
  /\ pc = "clock"
  /\ late' = expired
  /\ pc' = "token"
  /\ UNCHANGED <<control, environment, report, current, called, notices>>

(* Fault: the quota is compared with > instead of >=.                      *)
QuotaOffByOne ==
  IF cancelled THEN "Cancelled"
  ELSE IF deadline /\ late THEN "DeadlineReached"
  ELSE IF taken # Len(input) /\ Len(outcomes) > limit THEN "EvaluationLimitReached"
  ELSE NoValue

(* Fault: no checkpoint once every candidate has been called.              *)
NoFinalCheckpoint ==
  IF taken = Len(input) /\ Len(called) > 0 THEN NoValue
  ELSE IF cancelled THEN "Cancelled"
  ELSE IF deadline /\ late THEN "DeadlineReached"
  ELSE IF taken # Len(input) /\ Len(outcomes) >= limit THEN "EvaluationLimitReached"
  ELSE NoValue

(* interruption_at: cancellation, then the deadline, then the quota.       *)
InterruptionAt ==
  IF cancelled THEN "Cancelled"
  ELSE IF deadline /\ late THEN "DeadlineReached"
  ELSE IF taken # Len(input) /\ Len(outcomes) >= limit THEN "EvaluationLimitReached"
  ELSE NoValue

(* Fault: the loop is left without recording why.                          *)
BreakWithoutReason ==
  /\ pc = "token"
  /\ pc' = IF InterruptionAt # NoValue THEN "report" ELSE "step"
  /\ UNCHANGED <<control, environment, late, report, current, called, notices>>

(* The checkpoint's second half: the token is loaded and the verdict made. *)
Checkpoint ==
  /\ pc = "token"
  /\ \/ /\ InterruptionAt # NoValue
        /\ status' = Interrupted(InterruptionAt)
        /\ pc' = "report"
     \/ /\ InterruptionAt = NoValue
        /\ pc' = "step"
        /\ UNCHANGED status
  /\ UNCHANGED <<control, environment, late, baseline, outcomes, taken, current, called, notices>>

(* An engine call begins: the history notes what had been requested by then. *)
Call(target) ==
  /\ current' = target
  /\ called' = Append(called, [target |-> target, cancelled |-> cancelled,
                               expired |-> expired, result |-> NoValue])
  /\ pc' = "calling"
  /\ UNCHANGED <<control, environment, late, baseline, outcomes, status, notices>>

CallBaseline ==
  /\ pc = "step" /\ baseline = NoValue
  /\ Call(Baseline)
  /\ UNCHANGED taken

CallScenario ==
  /\ pc = "step" /\ baseline # NoValue /\ taken < Len(input)
  /\ taken' = taken + 1
  /\ Call(input[taken + 1])

(* Fault: an exhausted iterator re-enters the loop.                        *)
ExhaustContinues ==
  /\ pc = "step" /\ baseline # NoValue /\ taken = Len(input)
  /\ pc' = "clock"
  /\ UNCHANGED <<control, environment, late, report, current, called, notices>>

(* pending.next() is None: the loop ends with the initial status Completed. *)
Exhaust ==
  /\ pc = "step" /\ baseline # NoValue /\ taken = Len(input)
  /\ pc' = "report"
  /\ UNCHANGED <<control, environment, late, report, current, called, notices>>

Answered(value) == called' = [called EXCEPT ![Len(called)].result = value]

ReturnBaseline(signature) ==
  /\ pc = "calling" /\ current = Baseline
  /\ baseline' = signature
  /\ UNCHANGED outcomes
  /\ Answered(signature)
  /\ current' = NoValue
  /\ pc' = "progress"
  /\ UNCHANGED <<control, environment, late, taken, status, notices>>

ReturnScenario(signature) ==
  /\ pc = "calling" /\ current \in Ids
  /\ outcomes' = Append(outcomes, [scenario |-> current, signature |-> signature])
  /\ UNCHANGED baseline
  /\ Answered(signature)
  /\ current' = NoValue
  /\ pc' = "progress"
  /\ UNCHANGED <<control, environment, late, taken, status, notices>>

(* Faults: the failed candidate is named wrongly, or not at all, or the    *)
(* error of a cancelled call is reported as the cancellation.              *)
FailWith(newStatus, error) ==
  /\ pc = "calling"
  /\ status' = newStatus
  /\ Answered(error)
  /\ current' = NoValue
  /\ pc' = "report"
  /\ UNCHANGED <<control, environment, late, baseline, outcomes, taken, notices>>
FailDropsCandidate(error) == FailWith(EngineFailed(NoValue, error), error)
FailAsCancelled(error) ==
  FailWith(IF cancelled THEN Interrupted("Cancelled")
           ELSE EngineFailed(IF current = Baseline THEN NoValue ELSE current, error), error)

(* An engine error ends the loop whatever the controls say.                *)
Fail(error) ==
  /\ pc = "calling"
  /\ status' = EngineFailed(IF current = Baseline THEN NoValue ELSE current, error)
  /\ Answered(error)
  /\ current' = NoValue
  /\ pc' = "report"
  /\ UNCHANGED <<control, environment, late, baseline, outcomes, taken, notices>>

(* Faults: the callback returns straight to the next call; the count is    *)
(* taken before the outcome.                                               *)
ProgressWith(completed, next) ==
  /\ pc = "progress"
  /\ notices' = Append(notices,
       [event |-> IF outcomes = <<>> THEN "BaselineCompleted" ELSE "ScenarioCompleted",
        completed |-> completed, cancelled |-> cancelled])
  /\ pc' = next
  /\ UNCHANGED <<control, environment, late, report, current, called>>
(* The progress callback of a successful return.  It may cancel: that is   *)
(* Cancel, while pc is "progress"; the callback's return is this step.     *)
Progress ==
  /\ pc = "progress"
  /\ notices' = Append(notices,
       [event |-> IF outcomes = <<>> THEN "BaselineCompleted" ELSE "ScenarioCompleted",
        completed |-> Len(outcomes), cancelled |-> cancelled])
  /\ pc' = "clock"
  /\ UNCHANGED <<control, environment, late, report, current, called>>

(* The terminal notification; the report is final before it is sent.       *)
Finish ==
  /\ pc = "report"
  /\ notices' = Append(notices, [event |-> StateOf(status), completed |-> Len(outcomes),
                                 cancelled |-> cancelled])
  /\ pc' = "done"
  /\ UNCHANGED <<control, environment, late, report, current, called>>

----------------------------------------------------------------------------
EngineReturns ==
  \/ \E s \in Signatures : ReturnBaseline(s) \/ ReturnScenario(s)
  \/ \E e \in Errors : Fail(e)

Evaluator ==
  \/ Admit \/ ReadClock \/ Checkpoint
  \/ CallBaseline \/ CallScenario \/ Exhaust
  \/ EngineReturns
  \/ Progress \/ Finish

Done == pc = "done" /\ UNCHANGED vars

Next == Evaluator \/ Cancel \/ PassDeadline \/ Done

(* The evaluator is one sequential call that the caller waits for: it      *)
(* takes its next step, and an engine call returns.  Nobody has to cancel. *)
Fairness == WF_vars(Evaluator)

Spec == Init /\ [][Next]_vars
FairSpec == Spec /\ Fairness

----------------------------------------------------------------------------
(* into_completed_batch: the rankable batch, or nothing.                   *)
CompletedBatch ==
  IF pc = "done" /\ status = Completed /\ baseline # NoValue
  THEN [baseline |-> baseline, outcomes |-> outcomes]
  ELSE NoValue

----------------------------------------------------------------------------
(* Properties.                                                             *)

(* Every variable keeps its type. *)
TypeOK ==
  /\ input \in Seq(Ids) /\ limit \in Nat /\ deadline \in BOOLEAN
  /\ cancelled \in BOOLEAN /\ expired \in BOOLEAN
  /\ pc \in {"admit", "clock", "token", "step", "calling", "progress", "report", "done"}
  /\ late \in BOOLEAN
  /\ baseline \in Signatures \cup {NoValue}
  /\ outcomes \in Seq(Outcomes)
  /\ taken \in 0 .. Len(input)
  /\ current \in Ids \cup {Baseline, NoValue}
  /\ status \in Statuses
  /\ called \in Seq(Calls)
  /\ notices \in Seq(Notices)

(* The candidate a failed call consumed, as a sequence of at most one id.  *)
FailedCandidate ==
  IF status.kind = "EngineFailed" /\ status.scenario # NoValue
  THEN <<status.scenario>> ELSE <<>>
InFlight == IF current \in Ids THEN <<current>> ELSE <<>>

(* No candidate is lost, duplicated or reordered: the successes, then the  *)
(* failed or in-flight candidate, then the pending ones are the input.     *)
Accounting ==
  [i \in DOMAIN outcomes |-> outcomes[i].scenario] \o FailedCandidate \o InFlight \o Pending
    = input

(* The report tells what the engine did: each outcome is paired with what  *)
(* the engine returned for that very scenario, in call order, and nothing  *)
(* was called beyond the reported candidates.                              *)
ReportMatchesCalls ==
  /\ baseline # NoValue => called[1].target = Baseline /\ called[1].result = baseline
  /\ \A i \in DOMAIN outcomes :
       /\ called[i + 1].target = outcomes[i].scenario
       /\ called[i + 1].result = outcomes[i].signature
  /\ pc = "done" =>
       Len(called) = Len(outcomes)
                      + (IF baseline # NoValue THEN 1 ELSE 0)
                      + (IF status.kind = "EngineFailed" THEN 1 ELSE 0)

(* The quota bounds the candidates ever called, failed one included, and a *)
(* zero quota on a non-empty batch stops it before its baseline.           *)
QuotaRespected ==
  /\ Cardinality({ i \in DOMAIN called : called[i].target # Baseline }) <= limit
  /\ limit = 0 /\ input # <<>> => called = <<>>

(* The report accounts for every candidate and every call: what is left in *)
(* it after any interleaving of stops and failures is the whole input, what *)
(* the engine did, and no more calls than the quota admits.                *)
ReportIsFaithful == Accounting /\ ReportMatchesCalls /\ QuotaRespected

(* A request seen too late costs at most one call, the last one: the one   *)
(* whose checkpoint had already passed.                                    *)
StopHonoured ==
  \A i \in DOMAIN called :
    called[i].cancelled \/ (called[i].expired /\ deadline) => i = Len(called)

(* A progress callback that cancels (or returns with cancellation already  *)
(* requested) is always obeyed: no engine call follows it, and the report  *)
(* says Cancelled, whatever the deadline, the quota or the exhausted input *)
(* would have said.                                                        *)
CallbackCancellationWins ==
  \A i \in DOMAIN notices :
    notices[i].event \in {"BaselineCompleted", "ScenarioCompleted"} /\ notices[i].cancelled =>
      /\ Len(called) = i
      /\ pc \in {"report", "done"} => status = Interrupted("Cancelled")

(* An interruption has its cause, and no cause of higher precedence had    *)
(* been observed; an interrupted run had no failure and no call in flight. *)
InterruptionJustified ==
  status.kind = "Interrupted" =>
    /\ status.reason = "Cancelled" => cancelled
    /\ status.reason = "DeadlineReached" => deadline /\ late
    /\ status.reason = "EvaluationLimitReached" =>
         ~late /\ Pending # <<>> /\ Len(outcomes) = limit
    /\ \A i \in DOMAIN called : called[i].result \in Signatures

(* A stop is obeyed at the next checkpoint, a stop asked for by a callback *)
(* at once, and the report names a cause that was there.                   *)
StopsAreObeyed == StopHonoured /\ CallbackCancellationWins /\ InterruptionJustified

(* Only an uninterrupted, exhausted, duplicate-free run yields a rankable  *)
(* batch: it holds every candidate of the input once, in input order.      *)
RankableIsComplete ==
  CompletedBatch # NoValue =>
    /\ [i \in DOMAIN outcomes |-> outcomes[i].scenario] = input
    /\ ~HasDuplicate
    /\ Len(input) <= limit
    /\ \A i \in DOMAIN called : ~called[i].cancelled /\ called[i].result \in Signatures

(* The callbacks tell the report's story: one per successful return, with  *)
(* consecutive counts, then exactly one terminal one that agrees with the  *)
(* returned report.                                                        *)
NoticesTellTheReport ==
  /\ \A i \in DOMAIN notices : (i < Len(notices) \/ pc # "done") =>
       /\ notices[i].event = IF i = 1 THEN "BaselineCompleted" ELSE "ScenarioCompleted"
       /\ notices[i].completed = i - 1
  /\ pc = "done" =>
       /\ Len(notices) = Len(outcomes) + (IF baseline # NoValue THEN 2 ELSE 1)
       /\ notices[Len(notices)].event = StateOf(status)
       /\ notices[Len(notices)].completed = Len(outcomes)

(* Engine errors are never masked: once a call has failed, the run can only *)
(* end as Failed, even if it is cancelled or late by then.                 *)
FailureNotMasked ==
  [][(\E i \in DOMAIN called : called[i].result \in Errors) =>
       status.kind = "EngineFailed" /\ UNCHANGED <<report, called>>]_vars

(* The evaluator implements the contract callers rely on.                  *)
Contract == INSTANCE BatchContract WITH
  size <- Len(input), limit <- limit, unique <- ~HasDuplicate,
  issued <- Len(called),
  answered <- Len(outcomes) + (IF baseline # NoValue THEN 1 ELSE 0),
  verdict <- IF pc \in {"report", "done"} THEN StateOf(status) ELSE "open"

ImplementsContract == Contract!Spec

(* Whatever is requested and whenever, an evaluation whose engine calls    *)
(* return ends, and with a verdict the caller can read.                    *)
Termination == <>(pc = "done")

=============================================================================
