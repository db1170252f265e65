-------------------------- MODULE ContinuationRun --------------------------
(***************************************************************************)
(* A continuation child: a fresh process that evaluates, under its own     *)
(* controls, the candidates a stopped parent never started, and writes a   *)
(* journal of its own linked to the parent's.                              *)
(*                                                                         *)
(* The evaluator is ControlledEvaluation again, over the remaining suffix; *)
(* the wrapper answers the baseline call from the plan and journals the    *)
(* candidate calls only.  `wpc` is the wrapper's position, as in           *)
(* JournaledRun; it is "idle" until the continuation is executed.          *)
(***************************************************************************)
EXTENDS Continuation

CONSTANTS
  Limits, Signatures, EngineErrors, Blocked,
  RunIds,      \* run ids a child may be given
  Identities,  \* implementation, codecs and adapter metadata of a process
  Plans        \* prepared continuations that may be executed

VARIABLES
  input, limit, deadline, cancelled, expired, pc, late,
  baseline, outcomes, taken, current, status, called, notices,
  plan,       \* the prepared continuation, consumed by execution
  run,        \* child_run_id
  wpc, event, lines, torn, sequence, previous, poisoned, error,
  next,       \* session.next
  engine,     \* history: the calls the real engine received
  crashed

Eval == INSTANCE ControlledEvaluation WITH
  Ids <- ScenarioIds, Inputs <- {Scenarios}, Errors <- EngineErrors \cup {Blocked}
Journal == INSTANCE JournalEmitter WITH Capacity <- MaxContinuationEntries

evaluation == <<input, limit, deadline, cancelled, expired, pc, late, baseline, outcomes,
                taken, current, status, called, notices>>
file == <<lines, torn>>
emitter == <<sequence, previous, poisoned>>
journal == <<plan, run, wpc, event, file, emitter, error, next, engine, crashed>>
vars == <<evaluation, journal>>

NoError == NoValue

----------------------------------------------------------------------------
Init ==
  /\ input = <<>> /\ limit = 0 /\ deadline = FALSE
  /\ cancelled = FALSE /\ expired = FALSE
  /\ pc = "admit" /\ late = FALSE
  /\ baseline = NoValue /\ outcomes = <<>> /\ taken = 0
  /\ current = NoValue /\ status = Eval!Completed
  /\ called = <<>> /\ notices = <<>>
  /\ plan \in Plans /\ run = NoValue
  /\ wpc = "idle" /\ event = NoValue
  /\ Journal!Init /\ next = 0
  /\ engine = <<>> /\ crashed = FALSE

(* A fresh evaluator for the remaining suffix.                             *)
NewEvaluation(remaining, quota, timed, stop, late_) ==
  /\ input' = remaining /\ limit' = quota /\ deadline' = timed
  /\ cancelled' = stop /\ expired' = late_
  /\ pc' = "admit" /\ late' = FALSE
  /\ baseline' = NoValue /\ outcomes' = <<>> /\ taken' = 0
  /\ current' = NoValue /\ status' = Eval!Completed
  /\ called' = <<>> /\ notices' = <<>>

(* What execution compares with the plan before it touches the child file. *)
Admitted(p, id, identity) == id # p.run /\ identity = p.identity

(* execute_typed_continuation up to the header, which is being emitted.    *)
Execute(p, id, identity, quota, timed, stop, late_) ==
  /\ Admitted(p, id, identity)
  /\ NewEvaluation(p.remaining, quota, timed, stop, late_)
  /\ run' = id
  /\ event' = Initialized(ChildHeader(p, id, identity, quota, timed))
  /\ wpc' = "emit"
  /\ sequence' = 0 /\ previous' = NoValue /\ poisoned' = FALSE
  /\ error' = NoError /\ next' = 0 /\ crashed' = FALSE

Start ==
  /\ wpc = "idle"
  /\ \E id \in RunIds, identity \in Identities, quota \in Limits, timed, stop \in BOOLEAN :
       \E late_ \in {FALSE, timed} : Execute(plan, id, identity, quota, timed, stop, late_)
  /\ UNCHANGED <<plan, file, engine>>

----------------------------------------------------------------------------
Emit == Journal!Emit /\ UNCHANGED <<evaluation, plan, run, next, engine, crashed>>

(* The evaluator between two calls; the progress closure does nothing.     *)
Evaluate ==
  /\ wpc = "evaluate"
  /\ \/ Eval!Admit \/ Eval!ReadClock \/ Eval!Checkpoint \/ Eval!Exhaust
     \/ Eval!Progress \/ Eval!Finish
  /\ UNCHANGED journal

Request == (Eval!Cancel \/ Eval!PassDeadline) /\ UNCHANGED journal

(* ContinuationEngine::baseline: the restored value, whatever became of    *)
(* the journal; the session is not consulted.                              *)
RestoreBaseline ==
  /\ wpc = "evaluate"
  /\ Eval!CallBaseline
  /\ wpc' = "restore"
  /\ UNCHANGED <<plan, run, event, file, emitter, error, next, engine, crashed>>

ReturnRestored ==
  /\ wpc = "restore"
  /\ Eval!ReturnBaseline(plan.baseline)
  /\ wpc' = "evaluate"
  /\ UNCHANGED <<plan, run, event, file, emitter, error, next, engine, crashed>>

(* Fault: the wrapper counts its calls from the start of the bundle.       *)
IntendFromBundle ==
  /\ wpc = "evaluate" /\ Eval!CallScenario
  /\ IF error # NoError
     THEN wpc' = "blocked" /\ UNCHANGED <<event, error, next>>
     ELSE /\ next' = next + 1
          /\ event' = CallStarted(Scenarios[next + 1])
          /\ wpc' = "emit"
          /\ UNCHANGED error
  /\ UNCHANGED <<plan, run, file, emitter, engine, crashed>>

(* ContinuationEngine::evaluate.                                           *)
Intend ==
  /\ wpc = "evaluate" /\ Eval!CallScenario
  /\ IF error # NoError
     THEN wpc' = "blocked" /\ UNCHANGED <<event, error, next>>
     ELSE IF next = Len(plan.remaining)
     THEN wpc' = "blocked" /\ error' = "contract" /\ UNCHANGED <<event, next>>
     ELSE /\ next' = next + 1
          /\ event' = CallStarted(plan.remaining[next + 1])
          /\ wpc' = "emit"
          /\ UNCHANGED error
  /\ UNCHANGED <<plan, run, file, emitter, engine, crashed>>

(* The real engine is passed the evaluator's intervention.                 *)
Invoke ==
  /\ wpc = "engine"
  /\ engine' = Append(engine, [target |-> current, result |-> NoValue])
  /\ wpc' = "in engine"
  /\ UNCHANGED <<evaluation, plan, run, event, file, emitter, error, next, crashed>>

EngineReturns ==
  /\ wpc = "in engine"
  /\ \E value \in Signatures \cup EngineErrors :
       engine' = [engine EXCEPT ![Len(engine)].result = value]
  /\ wpc' = "returned"
  /\ UNCHANGED <<evaluation, plan, run, event, file, emitter, error, next, crashed>>

Result == engine[Len(engine)].result

(* ChildSession::returned: the payload goes to the journal, ...            *)
RecordReturn ==
  /\ wpc = "returned"
  /\ event' = IF Result \in Signatures
              THEN CallSucceeded(event.target, Encode(Result))
              ELSE CallFailed(event.target, Encode(Result))
  /\ wpc' = "emit"
  /\ UNCHANGED <<evaluation, plan, run, file, emitter, error, next, engine, crashed>>

(* ... or the codec fails, or its payload is above the limit.              *)
CodecFails ==
  /\ wpc = "returned"
  /\ error' = "contract"
  /\ wpc' = "answer"
  /\ UNCHANGED <<evaluation, plan, run, event, file, emitter, next, engine, crashed>>

Answer ==
  /\ wpc = "answer"
  /\ IF Result \in Signatures
     THEN Eval!ReturnScenario(Result)
     ELSE Eval!Fail(Result)
  /\ wpc' = "evaluate"
  /\ UNCHANGED <<plan, run, event, file, emitter, error, next, engine, crashed>>

AnswerBlocked ==
  /\ wpc = "blocked"
  /\ Eval!Fail(Blocked)
  /\ wpc' = "evaluate"
  /\ UNCHANGED <<plan, run, event, file, emitter, error, next, engine, crashed>>

(* The terminal event of an evaluation that no journal failure touched.    *)
Terminal ==
  CASE status.kind = "Completed" -> Finished("Completed", NoValue)
    [] status.kind = "Interrupted" -> Finished("Interrupted", status.reason)
    [] status.kind = "EngineFailed" /\ status.error # Blocked -> Finished("Failed", NoValue)
    [] OTHER -> NoValue

Close ==
  /\ wpc = "evaluate" /\ pc = "done"
  /\ IF error # NoError
     THEN wpc' = "closed" /\ UNCHANGED <<event, error>>
     ELSE IF Terminal = NoValue
     THEN wpc' = "closed" /\ error' = "contract" /\ UNCHANGED event
     ELSE wpc' = "emit" /\ event' = Terminal /\ UNCHANGED error
  /\ UNCHANGED <<evaluation, plan, run, file, emitter, next, engine, crashed>>

(* The process dies: a panic, a kill or a power loss.                      *)
Crash ==
  /\ wpc \notin {"idle", "closed"}
  /\ crashed' = TRUE
  /\ Journal!Lost
  /\ UNCHANGED <<evaluation, plan, run, next, engine>>

----------------------------------------------------------------------------
Caller ==
  \/ Evaluate \/ RestoreBaseline \/ ReturnRestored \/ Intend
  \/ Invoke \/ EngineReturns \/ RecordReturn \/ CodecFails
  \/ Answer \/ AnswerBlocked
  \/ Close \/ Emit

Stopped == crashed \/ wpc \in {"idle", "closed"}

Process ==
  \/ ~crashed /\ (Caller \/ Crash)
  \/ ~Stopped /\ Request

Next == Start \/ Process \/ (Stopped /\ UNCHANGED vars)

Spec == Init /\ [][Next]_vars

----------------------------------------------------------------------------
(* ContinuationRun: what the caller is handed.                             *)

RunState ==
  IF error # NoError THEN "JournalFailed"
  ELSE CASE status.kind = "Completed" -> "Completed"
         [] status.kind = "Interrupted" -> "Interrupted"
         [] status.kind \in {"EngineFailed", "DuplicateScenarioId"} -> "EngineFailed"

NeverStarted ==
  (IF status.kind = "EngineFailed" /\ status.error = Blocked /\ status.scenario # NoValue
   THEN <<status.scenario>> ELSE <<>>)
    \o Eval!Pending

----------------------------------------------------------------------------
(* Properties.                                                             *)

File == [lines |-> lines, torn |-> torn]
Summary == InspectChild(File, plan.log, plan.expected)
Returned == wpc = "closed" /\ ~crashed

(* The engine receives the remaining candidates, in order, each once, each *)
(* after its own intent was acknowledged, and never the baseline.          *)
OnlyTheSuffixIsCalled ==
  /\ Journal!IntentsPrecede(engine)
  /\ Len(engine) <= Len(plan.remaining)
  /\ \A i \in DOMAIN engine : engine[i].target = plan.remaining[i]

(* Writer and reader agree: a child file that starts with its header and   *)
(* ends with a line feed is accepted by the child's inspector, and what it *)
(* reports is what the engine did.                                         *)
ChildInspectionIsTrue ==
  lines # <<>> /\ ~torn =>
    LET summary == Summary IN
      /\ summary # NoValue
      /\ Len(engine) <= summary.successful
                          + (IF summary.failed # NoValue \/ summary.unknown # NoValue THEN 1 ELSE 0)
      /\ \A i \in 1 .. summary.successful : engine[i].result = Restored(lines, i).signature
      /\ summary.failed # NoValue => engine[summary.successful + 1].result \in EngineErrors
      /\ summary.successful + summary.neverStarted <= Len(plan.remaining)

(* The returned report, the engine and a clean journal tell the same story, *)
(* and so does the file that a child leaves behind anywhere.               *)
ChildReportAgrees ==
  /\ ChildInspectionIsTrue
  /\ Returned =>
    /\ RunState = "Completed" =>
         /\ Summary.state = "Completed"
         /\ Len(engine) = Len(plan.remaining)
         /\ \A i \in DOMAIN outcomes :
              outcomes[i] = [scenario |-> plan.remaining[i], signature |-> engine[i].result]
    /\ error = NoError => Summary.state = Eval!StateOf(status)
    /\ NeverStarted = SubSeq(plan.remaining, Len(engine) + 1, Len(plan.remaining))

=============================================================================
