--------------------------- MODULE JournaledRun ---------------------------
(***************************************************************************)
(* A journaled evaluation: the controlled evaluator drives a recording     *)
(* engine, which appends an intent to the journal before every call of the *)
(* real engine and the call's result after it.  The journal is a file that *)
(* is written and then synchronized; either half can fail, an append can   *)
(* be refused by the entry or byte limits, a codec can fail, and the       *)
(* process can die between any two steps.                                  *)
(*                                                                         *)
(* The evaluator's own steps are those of ControlledEvaluation.  Its       *)
(* engine calls are answered by the wrapper, whose position is `wpc`.      *)
(***************************************************************************)
EXTENDS JournalLifecycle, FiniteSets

CONSTANTS
  Limits, Signatures,
  EngineErrors, \* errors of the real engine
  Blocked,      \* CallFailure::BlockedBeforeEngine
  RunIds,       \* run ids the capture may carry
  Identity      \* implementation, adapter metadata and codecs of this run

VARIABLES
  input, limit, deadline, cancelled, expired, pc, late,
  baseline, outcomes, taken, current, status, called, notices,
  run,        \* capture.run_id
  wpc,        \* where the journaling layer stands
  event,      \* the event being appended
  lines,      \* the file: its LF-terminated lines
  torn,       \* the file: bytes follow the last LF
  sequence,   \* emitter.sequence: acknowledged entries
  previous,   \* emitter.previous: digest of the last acknowledged entry
  poisoned,   \* FileJournal.poisoned
  error,      \* session.error
  next,       \* session.next
  engine,     \* history: the calls the real engine received
  crashed     \* the process has died

Eval == INSTANCE ControlledEvaluation WITH
  Ids <- ScenarioIds, Inputs <- {Scenarios}, Errors <- EngineErrors \cup {Blocked}

Journal == INSTANCE JournalEmitter WITH Capacity <- MaxEntries

evaluation == <<input, limit, deadline, cancelled, expired, pc, late, baseline, outcomes,
                taken, current, status, called, notices>>
file == <<lines, torn>>
emitter == <<sequence, previous, poisoned>>
session == <<error, next>>
journal == <<run, wpc, event, file, emitter, session, engine, crashed>>
vars == <<evaluation, journal>>

NoError == NoValue

----------------------------------------------------------------------------
(* Admission is over: the header is about to be emitted.                   *)
Header == [run |-> run, bundle |-> Scenarios, identity |-> Identity,
           limit |-> limit, deadline |-> deadline]

Init ==
  /\ Eval!Init
  /\ run \in RunIds
  /\ wpc = "emit" /\ event = Initialized(Header)
  /\ Journal!Init /\ next = 0
  /\ engine = <<>> /\ crashed = FALSE

----------------------------------------------------------------------------
(* Session::emit, Emitter::append and FileJournal::append_record.          *)
Emit == Journal!Emit /\ UNCHANGED <<evaluation, run, next, engine, crashed>>

----------------------------------------------------------------------------
(* The evaluator between two calls; the progress closure does nothing.     *)
Evaluate ==
  /\ wpc = "evaluate"
  /\ \/ Eval!Admit \/ Eval!ReadClock \/ Eval!Checkpoint \/ Eval!Exhaust
     \/ Eval!Progress \/ Eval!Finish
  /\ UNCHANGED journal

Request == (Eval!Cancel \/ Eval!PassDeadline) /\ UNCHANGED journal

(* RecordingEngine::baseline.                                              *)
IntendBaseline ==
  /\ wpc = "evaluate" /\ Eval!CallBaseline
  /\ event' = CallStarted(Baseline)
  /\ wpc' = "emit"
  /\ UNCHANGED <<run, file, emitter, session, engine, crashed>>

(* RecordingEngine::evaluate: the id is the session's own next one, taken  *)
(* unless a failure is already recorded.                                   *)
IntendScenario ==
  /\ wpc = "evaluate" /\ Eval!CallScenario
  /\ IF error # NoError
     THEN wpc' = "blocked" /\ UNCHANGED <<event, session>>
     ELSE IF next = Len(Scenarios)
     THEN wpc' = "blocked" /\ error' = "contract" /\ UNCHANGED <<event, next>>
     ELSE /\ next' = next + 1
          /\ event' = CallStarted(Scenarios[next + 1])
          /\ wpc' = "emit"
          /\ UNCHANGED error
  /\ UNCHANGED <<run, file, emitter, engine, crashed>>

(* The real engine receives the evaluator's call; the journal's target is  *)
(* the session's own.                                                      *)
Invoke ==
  /\ wpc = "engine"
  /\ engine' = Append(engine, [target |-> current, result |-> NoValue])
  /\ wpc' = "in engine"
  /\ UNCHANGED <<evaluation, run, event, file, emitter, session, crashed>>

EngineReturns ==
  /\ wpc = "in engine"
  /\ \E value \in Signatures \cup EngineErrors :
       engine' = [engine EXCEPT ![Len(engine)].result = value]
  /\ wpc' = "returned"
  /\ UNCHANGED <<evaluation, run, event, file, emitter, session, crashed>>

Result == engine[Len(engine)].result

(* Session::returned: the codec's payload goes to the journal, ...         *)
RecordReturn ==
  /\ wpc = "returned"
  /\ event' = IF Result \in Signatures
              THEN CallSucceeded(event.target, Encode(Result))
              ELSE CallFailed(event.target, Encode(Result))
  /\ wpc' = "emit"
  /\ UNCHANGED <<evaluation, run, file, emitter, session, engine, crashed>>

(* ... or the codec fails, or its payload is above the limit.              *)
CodecFails ==
  /\ wpc = "returned"
  /\ error' = "contract"
  /\ wpc' = "answer"
  /\ UNCHANGED <<evaluation, run, event, file, emitter, next, engine, crashed>>

(* The wrapper hands the engine's own result to the evaluator, whatever    *)
(* became of its journal entry.                                            *)
Answer ==
  /\ wpc = "answer"
  /\ IF Result \in Signatures
     THEN Eval!ReturnBaseline(Result) \/ Eval!ReturnScenario(Result)
     ELSE Eval!Fail(Result)
  /\ wpc' = "evaluate"
  /\ UNCHANGED <<run, event, file, emitter, session, engine, crashed>>

(* Fault: the blocked call is tried again.                                 *)
AnswerBlockedRetries ==
  /\ wpc = "blocked"
  /\ wpc' = "emit"
  /\ UNCHANGED <<evaluation, run, event, file, emitter, session, engine, crashed>>

AnswerBlocked ==
  /\ wpc = "blocked"
  /\ Eval!Fail(Blocked)
  /\ wpc' = "evaluate"
  /\ UNCHANGED <<run, event, file, emitter, session, engine, crashed>>

(* The terminal event of an evaluation that no journal failure touched.    *)
Terminal ==
  CASE status.kind = "Completed" -> Finished("Completed", NoValue)
    [] status.kind = "Interrupted" -> Finished("Interrupted", status.reason)
    [] status.kind = "EngineFailed" /\ status.error # Blocked -> Finished("Failed", NoValue)
    [] OTHER -> NoValue

Close ==
  /\ wpc = "evaluate" /\ pc = "done"
  /\ IF error # NoError
     THEN wpc' = "closed" /\ UNCHANGED <<event, error>>
     ELSE IF Terminal = NoValue
     THEN wpc' = "closed" /\ error' = "contract" /\ UNCHANGED event
     ELSE wpc' = "emit" /\ event' = Terminal /\ UNCHANGED error
  /\ UNCHANGED <<evaluation, run, file, emitter, next, engine, crashed>>

(* The process dies: a panic, a kill or a power loss.                      *)
Crash ==
  /\ wpc # "closed"
  /\ crashed' = TRUE
  /\ Journal!Lost
  /\ UNCHANGED <<evaluation, run, next, engine>>

----------------------------------------------------------------------------
Caller ==
  \/ Evaluate \/ IntendBaseline \/ IntendScenario
  \/ Invoke \/ EngineReturns \/ RecordReturn \/ CodecFails
  \/ Answer \/ AnswerBlocked
  \/ Close \/ Emit

Stopped == crashed \/ wpc = "closed"

Process ==
  \/ ~crashed /\ (Caller \/ Crash)
  \/ ~Stopped /\ Request

Next == Process \/ (Stopped /\ UNCHANGED vars)

Spec == Init /\ [][Next]_vars

----------------------------------------------------------------------------
(* JournalRun: what the caller is handed.                                  *)

RunState ==
  IF error # NoError THEN "JournalFailed"
  ELSE CASE status.kind = "Completed" -> "Completed"
         [] status.kind = "Interrupted" -> "Interrupted"
         [] status.kind = "EngineFailed" -> "EngineFailed"
         [] status.kind = "DuplicateScenarioId" -> "Rejected"

(* never_started: a call blocked by the journal never reached the engine.  *)
NeverStarted ==
  (IF status.kind = "EngineFailed" /\ status.error = Blocked /\ status.scenario # NoValue
   THEN <<status.scenario>> ELSE <<>>)
    \o Eval!Pending

(* into_completed_batch.                                                   *)
CompletedBatch ==
  IF wpc = "closed" /\ ~crashed /\ RunState = "Completed" THEN Eval!CompletedBatch ELSE NoValue

----------------------------------------------------------------------------
(* Properties.                                                             *)

Summary == Inspect(lines, torn)

(* Write-ahead: the real engine never receives a call whose intent had not *)
(* been acknowledged by the journal, and receives each intended call once. *)
WriteAhead == Journal!IntentsPrecede(engine)

(* Writer and reader agree, whatever failed and wherever the process died: *)
(* a file whose header is complete is a log the inspector accepts, and     *)
(* what it reports is what happened.  A recorded return carries the        *)
(* engine's own value, a candidate reported as never started was never     *)
(* passed to the engine, and every call the engine received is reported as *)
(* succeeded, failed or unknown.                                           *)
InspectionIsTrue ==
  LET summary == Summary IN lines # <<>> =>
    /\ summary # NoValue
    /\ \A k \in DOMAIN lines : lines[k].event.event \in {"CallSucceeded", "CallFailed"} =>
         \E i \in DOMAIN engine :
           /\ engine[i].target = lines[k].event.target
           /\ engine[i].result = Decode(lines[k].event.payload)
    /\ \A i \in Len(Scenarios) - summary.neverStarted + 1 .. Len(Scenarios) :
         \A j \in DOMAIN engine : engine[j].target # Scenarios[i]
    /\ Len(engine) <= summary.successful + (IF summary.baseline THEN 1 ELSE 0)
                        + (IF summary.failed # NoValue \/ summary.unknown # NoValue THEN 1 ELSE 0)

(* A rankable batch was journaled to the end: the acknowledged file says   *)
(* completed and carries the same values in the same order.                *)
RankableIsJournaled ==
  CompletedBatch # NoValue =>
    /\ Summary # NoValue /\ Summary.state = "Completed" /\ Len(lines) = sequence
    /\ \A i \in DOMAIN outcomes :
         lines[2 * i + 3].event =
           CallSucceeded(outcomes[i].scenario, Encode(outcomes[i].signature))

(* The entry limit is never what stops a run: the longest lifecycle fits.  *)
LongestRunFits == wpc = "emit" /\ error = NoError => sequence < MaxEntries

(* The report tells the truth about file and engine: with no journal       *)
(* failure it agrees with the file on the outcome and on every count, and  *)
(* never_started is exactly what the real engine never received, blocked   *)
(* wrapper calls included.  A rankable batch was journaled to its end, and *)
(* it is never the entry limit that stops a run.                           *)
ReportAgrees ==
  LET summary == Summary IN
    /\ RankableIsJournaled
    /\ LongestRunFits
    /\ wpc = "closed" /\ error = NoError =>
         /\ summary # NoValue /\ Len(lines) = sequence
         /\ summary.state = Eval!StateOf(status)
         /\ summary.successful = Len(outcomes)
         /\ summary.baseline = (baseline # NoValue)
         /\ summary.neverStarted = Len(NeverStarted)
         /\ summary.failed = IF status.kind # "EngineFailed" THEN NoValue
                             ELSE IF status.scenario = NoValue THEN Baseline ELSE status.scenario
    /\ pc = "done" =>
         /\ Len(NeverStarted) = Cardinality(ScenarioIds \ { engine[i].target : i \in DOMAIN engine })
         /\ \A i \in DOMAIN NeverStarted : \A j \in DOMAIN engine :
              engine[j].target # NeverStarted[i]

=============================================================================
