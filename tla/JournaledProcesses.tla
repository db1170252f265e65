------------------------- MODULE JournaledProcesses -------------------------
(***************************************************************************)
(* One process that keeps a journal: a run of a whole bundle, or the       *)
(* continuation of a stopped one.  Both are the controlled evaluator under *)
(* a recording engine and the same emitter; what they journal, and what a  *)
(* reader checks of it, is written twice in the code.  The properties say  *)
(* of each kind of process what its readers rely on.                       *)
(***************************************************************************)
EXTENDS Continuation

CONSTANTS
  Limits, Signatures, EngineErrors, Blocked,
  RunIds, Identity, Identities,
  Logs,   \* files of stopped runs
  Plans   \* continuations prepared from them

(* What a journal may hold.                                                *)
Headers ==
  [run : RunIds, bundle : {Scenarios}, identity : {Identity}, limit : Limits, deadline : BOOLEAN]
Outcomes == [scenario : ScenarioIds, signature : Signatures]
Anchors ==
  [run : RunIds, log : Logs, bundle : {Scenarios}, identity : Identities,
   semantics : {"PureIndependent", "RequiresReconciliation"}]
Preparations ==
  [run : RunIds, log : Logs, identity : Identities, expected : Anchors, baseline : Signatures,
   restored : Seq(Outcomes), remaining : Seq(ScenarioIds)]
ChildHeaders ==
  [run : RunIds, parent : [run : RunIds, log : Logs, expected : Anchors], identity : Identities,
   restored : Nat, remaining : Seq(ScenarioIds), limit : Limits, deadline : BOOLEAN]
Payloads == [encoded : Signatures \cup EngineErrors]
Events ==
  [event : {"Initialized"}, header : Headers \cup ChildHeaders]
    \cup [event : {"CallStarted"}, target : Targets]
    \cup [event : {"CallSucceeded", "CallFailed"}, target : Targets, payload : Payloads]
    \cup [event : {"Finished"}, terminal : {"Completed", "Interrupted", "Failed"},
          reason : {NoValue, "Cancelled", "DeadlineReached", "EvaluationLimitReached"}]
Entries == [sequence : Nat, previous : {NoValue} \cup (Nat \X Events), event : Events]

(* What a reader may know of a journal, and report of it.                  *)
Lifecycles ==
  [header : {NoValue} \cup Headers \cup ChildHeaders, baseline : BOOLEAN, started : Nat,
   successful : Nat, active : {NoValue} \cup Targets, failed : {NoValue} \cup Targets,
   terminal : {NoValue} \cup Events]
ChildLifecycles ==
  [header : {NoValue} \cup Headers \cup ChildHeaders, active : {NoValue} \cup Targets,
   successful : Nat, failed : {NoValue} \cup Targets, terminal : {NoValue} \cup Events]
States ==
  {"incomplete_tail", "unknown_call_result", "Completed", "Interrupted", "Failed",
   "open_after_failure", "open_after_return", "not_started"}
Summaries ==
  [state : States, header : Headers \cup ChildHeaders, baseline : BOOLEAN, successful : Nat,
   failed : {NoValue} \cup Targets, unknown : {NoValue} \cup Targets, neverStarted : Nat]
Clearances == [summary : Summaries, blockers : {{}}]
ChildSummaries ==
  [state : States, run : RunIds, successful : Nat, failed : {NoValue} \cup Targets,
   unknown : {NoValue} \cup Targets, neverStarted : Nat]

(* Ok and Err differ, and a call blocked before the engine is no error of  *)
(* the engine; None is none of the values it stands next to, and no        *)
(* record; a malformed line is no entry.                                   *)
ASSUME ValuesAssumption ==
  /\ Limits \subseteq Nat
  /\ Signatures \cap (EngineErrors \cup {Blocked}) = {} /\ Blocked \notin EngineErrors
  /\ NoValue \notin Signatures \cup EngineErrors \cup {Blocked, Baseline}
  /\ NoValue \notin {"contract", "storage"} \cup
                    {"Cancelled", "DeadlineReached", "EvaluationLimitReached"}
  /\ Malformed \notin Entries
  /\ NoValue \notin Headers \cup ChildHeaders \cup Events \cup Preparations
  /\ NoValue \notin Lifecycles \cup ChildLifecycles
  /\ NoValue \notin Summaries \cup ChildSummaries \cup Clearances

(* A plan is what preparation made of a log, by the build that prepared it. *)
ASSUME PlansAssumption ==
  \A p \in Plans :
    /\ p \in Preparations /\ p = Prepare(p.log, p.expected, p.identity)
    /\ Len(p.log.lines) \in Nat

VARIABLES
  role,    \* "parent" or "child"
  input, limit, deadline, cancelled, expired, pc, late,
  baseline, outcomes, taken, current, status, called, notices,
  plan, run, wpc, event, lines, torn, sequence, previous, poisoned, error,
  next, engine, crashed

vars == <<role, input, limit, deadline, cancelled, expired, pc, late, baseline, outcomes,
          taken, current, status, called, notices, plan, run, wpc, event, lines, torn,
          sequence, previous, poisoned, error, next, engine, crashed>>

Parent == INSTANCE JournaledRun
Child == INSTANCE ContinuationRun

IsParent == role = "parent"

Init ==
  \/ role = "parent" /\ plan = NoValue /\ Parent!Init
  \/ role = "child" /\ Child!Init

Next ==
  /\ UNCHANGED role
  /\ \/ IsParent /\ Parent!Next /\ UNCHANGED plan
     \/ ~IsParent /\ Child!Next

Step == IF IsParent THEN Parent!Caller /\ UNCHANGED plan ELSE Child!Caller

(* One thread runs an evaluation, its journal and its engine calls, which  *)
(* all return; nobody has to crash, to cancel or to start a continuation.  *)
Spec == Init /\ [][Next]_vars
FairSpec == Spec /\ WF_vars(~crashed /\ UNCHANGED role /\ Step)

----------------------------------------------------------------------------
(* Write-ahead: the engine never receives a call whose intent the journal  *)
(* had not acknowledged, and receives each intended call once, in order; a *)
(* continuation calls the parent's remaining candidates and nothing else.  *)
WriteAhead == IF IsParent THEN Parent!WriteAhead ELSE Child!OnlyTheSuffixIsCalled

(* Writer and reader agree, whatever failed and wherever the process died: *)
(* a file with a header is accepted by its inspector, which reports what   *)
(* the engine did.                                                         *)
InspectionIsTrue == IF IsParent THEN Parent!InspectionIsTrue ELSE Child!ChildInspectionIsTrue

(* The report, the file and the engine tell the same story: on the outcome *)
(* and every count, on what was never started, and of a batch that may be  *)
(* ranked the file holds every value.                                      *)
ReportAgrees == IF IsParent THEN Parent!ReportAgrees ELSE Child!ChildReportAgrees

(* Once a codec, a limit or the storage has failed, the engine receives no *)
(* further call and the file is left as it is.                             *)
NothingAfterJournalFailure ==
  [][error # NoValue => Len(engine') = Len(engine) /\ (~crashed' => UNCHANGED <<lines, torn>>)]_vars

(* A process that has started and does not crash hands its report back.    *)
Termination == wpc # "idle" ~> (wpc = "closed" \/ crashed)
=============================================================================
