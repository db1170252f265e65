---------------------------- MODULE RestartChain ----------------------------
(***************************************************************************)
(* A journaled run and its continuation.  The parent process runs until it *)
(* returns or dies; a trusted controller captures its stopped log and      *)
(* retains the restart expectations; a continuation is prepared, possibly  *)
(* from a stale copy of the log or by a different build; the child process *)
(* runs, and may be interrupted, fail or die in its turn; and assembly     *)
(* rebuilds the batch from the two files.                                  *)
(*                                                                         *)
(* The variables of a process are its memory: the child's process starts   *)
(* with fresh values of the variables the parent's process used.  The two  *)
(* files and the history of engine calls outlive both.                     *)
(***************************************************************************)
EXTENDS Continuation

CONSTANTS
  Limits, Signatures, EngineErrors, Blocked,
  ParentRun,   \* the parent's run id
  RunIds,      \* run ids a child may be given
  Identity,    \* the parent's implementation, codecs and adapter metadata
  Identities   \* builds a continuation may be attempted with

VARIABLES
  input, limit, deadline, cancelled, expired, pc, late,
  baseline, outcomes, taken, current, status, called, notices,
  run, lines, torn,                \* the parent's run id and file
  childRun, childLines, childTorn, \* the child's
  wpc, event, sequence, previous, poisoned, error, next, crashed,
  engine,        \* history: the calls the engine received, of both processes
  phase,         \* how far the chain has come
  acknowledged,  \* history: entries the parent knew to be synchronized
  ranked,        \* history: the batch the parent's own report yielded
  expected,      \* RestartExpectations retained by the controller
  plan,          \* the prepared continuation
  batch          \* the assembled batch

Parent == INSTANCE JournaledRun WITH RunIds <- {ParentRun}
Child == INSTANCE ContinuationRun WITH
  run <- childRun, lines <- childLines, torn <- childTorn, Plans <- {}

(* Each of the two as a process that keeps a journal, and what its values  *)
(* may be: the child's header names the file of the parent.                *)
First == INSTANCE JournaledProcesses WITH
  role <- "parent", plan <- NoValue,
  RunIds <- {ParentRun}, Identities <- {Identity}, Logs <- {}, Plans <- {}
Second == INSTANCE JournaledProcesses WITH
  role <- "child", run <- childRun, lines <- childLines, torn <- childTorn,
  RunIds <- RunIds \cup {ParentRun}, Identities <- Identities \cup {Identity},
  Logs <- [lines : Seq(First!Entries), torn : BOOLEAN], Plans <- {}

ASSUME ValuesAssumption == First!ValuesAssumption /\ Second!ValuesAssumption

memory == <<input, limit, deadline, cancelled, expired, pc, late, baseline, outcomes,
            taken, current, status, called, notices,
            wpc, event, sequence, previous, poisoned, error, next, crashed>>
parentFile == <<run, lines, torn>>
childFile == <<childRun, childLines, childTorn>>
chain == <<phase, acknowledged, ranked, expected, plan, batch>>
vars == <<memory, parentFile, childFile, engine, chain>>

ParentLog == [lines |-> lines, torn |-> torn]
ChildLog == [lines |-> childLines, torn |-> childTorn]

----------------------------------------------------------------------------
Init ==
  /\ Parent!Init
  /\ childRun = NoValue /\ childLines = <<>> /\ childTorn = FALSE
  /\ phase = "parent" /\ acknowledged = 0 /\ ranked = NoValue
  /\ expected = NoValue /\ plan = NoValue /\ batch = NoValue

ParentStep ==
  /\ phase = "parent" /\ Parent!Process
  /\ UNCHANGED <<childFile, chain>>

(* The controller captures the log of a process that has stopped; nothing  *)
(* of the process's memory survives.                                       *)
Capture ==
  /\ phase = "parent" /\ Parent!Stopped
  /\ \E semantics \in {"PureIndependent", "RequiresReconciliation"} :
       expected' = Expectations(run, ParentLog, Identity, semantics)
  /\ acknowledged' = sequence
  /\ ranked' = Parent!CompletedBatch
  /\ phase' = "captured"
  /\ Child!NewEvaluation(<<>>, 0, FALSE, FALSE, FALSE)
  /\ wpc' = "idle" /\ event' = NoValue
  /\ sequence' = 0 /\ previous' = NoValue /\ poisoned' = FALSE
  /\ error' = NoValue /\ next' = 0 /\ crashed' = FALSE
  /\ UNCHANGED <<parentFile, childFile, engine, plan, batch>>

(* Copies of the log that may be presented: the captured file, or one made *)
(* while the parent was still running.                                     *)
Copies ==
  {ParentLog} \cup { [lines |-> SubSeq(lines, 1, k), torn |-> FALSE] : k \in 1 .. Len(lines) }

PrepareChild ==
  /\ phase = "captured"
  /\ \E log \in Copies, artifact \in Identities : plan' = Prepare(log, expected, artifact)
  /\ plan' # NoValue
  /\ phase' = "prepared"
  /\ UNCHANGED <<memory, parentFile, childFile, engine, acknowledged, ranked, expected, batch>>

ExecuteChild ==
  /\ phase = "prepared"
  /\ \E id \in RunIds, identity \in Identities, quota \in Limits, timed, stop \in BOOLEAN :
       \E late_ \in {FALSE, timed} :
         Child!Execute(plan, id, identity, quota, timed, stop, late_)
  /\ phase' = "child"
  /\ UNCHANGED <<parentFile, childLines, childTorn, engine,
                 acknowledged, ranked, expected, plan, batch>>

ChildStep ==
  /\ phase = "child" /\ Child!Process
  /\ UNCHANGED <<parentFile, phase, acknowledged, ranked, expected, batch>>

(* The controller retains the identity of the stopped child's file, and    *)
(* the batch is assembled from the two files.                              *)
AssembleChain ==
  /\ phase = "child" /\ Child!Stopped
  /\ batch' = Assemble(ParentLog, ChildLog, [run |-> childRun, log |-> ChildLog],
                       expected, Identity)
  /\ batch' # NoValue
  /\ phase' = "assembled"
  /\ UNCHANGED <<memory, parentFile, childFile, engine, acknowledged, ranked, expected, plan>>

(* The chain may be left where it is once the parent has stopped.          *)
Rest == phase # "parent" /\ UNCHANGED vars

Next ==
  \/ ParentStep \/ Capture \/ PrepareChild \/ ExecuteChild \/ ChildStep \/ AssembleChain
  \/ Rest

Spec == Init /\ [][Next]_vars

----------------------------------------------------------------------------
(* Properties.                                                             *)

(* The batch that metrics and policies may be given, from either process.  *)
Released ==
  IF batch # NoValue THEN batch
  ELSE IF phase = "parent" THEN Parent!CompletedBatch ELSE ranked

(* Whatever fails or crashes in either process, the engine sees each call  *)
(* at most once and in order, none follows a failed or unknown one, and at *)
(* most one batch, complete and made of the engine's own values, is        *)
(* released by run and continuation together.                              *)
Ledger == INSTANCE EngineLedger WITH Order <- <<Baseline>> \o Scenarios, released <- Released
ImplementsLedger == Ledger!Spec

(* A prepared plan is the truth about the parent: it restores the value    *)
(* the engine returned for each completed call, and what remains is        *)
(* exactly what the engine was never asked.                                *)
PlanIsTrue ==
  phase = "prepared" =>
    /\ plan.baseline = engine[1].result
    /\ plan.restored = [i \in 1 .. Len(engine) - 1 |->
                          [scenario |-> engine[i + 1].target, signature |-> engine[i + 1].result]]
    /\ plan.remaining = Suffix(Len(engine) - 1)

(* An honest interruption is never a dead end: when the parent returned    *)
(* Interrupted, with its baseline and candidates left, preparation of its  *)
(* own log succeeds.                                                       *)
InterruptedRunsContinue ==
  phase = "parent" /\ wpc = "closed" /\ ~crashed /\ Parent!RunState = "Interrupted"
    /\ baseline # NoValue /\ Parent!NeverStarted # <<>> =>
      Prepare(ParentLog, Expectations(run, ParentLog, Identity, "PureIndependent"), Identity)
        # NoValue

(* A child that reported completion can always be assembled from its file, *)
(* into the parent's and its own outcomes.                                 *)
CompletedChildAssembles ==
  phase = "child" /\ wpc = "closed" /\ ~crashed /\ Child!RunState = "Completed" =>
    Assemble(ParentLog, ChildLog, [run |-> childRun, log |-> ChildLog], expected, Identity)
      = [baseline |-> plan.baseline, outcomes |-> plan.restored \o outcomes]

(* No dead end: what was interrupted honestly can be continued, and what   *)
(* the continuation completed can be assembled.                            *)
ChainGoesOn == InterruptedRunsContinue /\ CompletedChildAssembles

(* The documentation's claim that only acknowledged payloads are restored: *)
(* every restored value was in an entry the parent knew to be durable.     *)
RestoredOnlyAcknowledged ==
  phase = "prepared" =>
    Len(Successes(SubSeq(lines, 1, acknowledged))) >= Len(plan.restored) + 1

=============================================================================
