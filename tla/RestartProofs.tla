---------------------------- MODULE RestartProofs ----------------------------
(***************************************************************************)
(* Theorems about a run and its continuation, for any bundle, engine,      *)
(* quotas and builds, any failure and a crash of either process anywhere:  *)
(* plans are the truth, nothing honest is a dead end, and run and          *)
(* continuation together implement the ledger of the engine's calls.       *)
(***************************************************************************)
EXTENDS RestartSteps

----------------------------------------------------------------------------
(* The invariant of the chain is kept.                                     *)

(* What a stopped parent is said to have come to, it has come to.          *)
LEMMA ParentEnds ==
  ASSUME Running, wpc = "closed", ~crashed, Parent!RunState \in {"Completed", "Interrupted"}
  PROVE  error = NoValue /\ status.kind = Parent!RunState /\ P!ReportInv
<1>1. error = NoValue
  BY DEF Parent!RunState, Parent!NoError
<1>2. pc = "done"
  BY DEF Running, P!Sent
<1>3. status.kind \in {"Completed", "Interrupted", "EngineFailed", "DuplicateScenarioId"}
  BY <1>1, <1>2 DEF Running, P!InspectionInv, P!Evaluated, P!Clean
<1>4. status.kind = Parent!RunState
  BY <1>1, <1>3 DEF Parent!RunState, Parent!NoError
<1> QED BY <1>1, <1>4 DEF Running, P!ReportInv, P!Fits

(* So it is with the child.                                                *)
LEMMA ChildEnds ==
  ASSUME Continuing, wpc = "closed", ~crashed, Child!RunState = "Completed"
  PROVE  error = NoValue /\ status.kind = "Completed" /\ C!ReportInv
<1>1. error = NoValue
  BY DEF Child!RunState, Child!NoError
<1>2. pc = "done"
  BY DEF Continuing, C!Sent
<1>3. status.kind \in {"Completed", "Interrupted", "EngineFailed", "DuplicateScenarioId"}
  BY <1>1, <1>2 DEF Continuing, C!InspectionInv, C!Evaluated, C!Clean
<1>4. status.kind = "Completed"
  BY <1>1, <1>3 DEF Child!RunState, Child!NoError
<1> QED BY <1>1, <1>4 DEF Continuing, C!ReportInv, C!Fits, C!IsParent

(* A batch that the parent yields is the whole of it.                      *)
LEMMA YieldedIsWhole ==
  ASSUME Running, Parent!CompletedBatch # NoValue
  PROVE  wpc = "closed" /\ ~crashed /\ Whole(Parent!CompletedBatch)
<1>1. wpc = "closed" /\ ~crashed /\ Parent!RunState = "Completed"
  BY DEF Parent!CompletedBatch
<1>2. error = NoValue /\ status.kind = "Completed" /\ P!ReportInv
  BY <1>1, ParentEnds
<1>3. Parent!CompletedBatch = [baseline |-> baseline, outcomes |-> outcomes]
  BY <1>1 DEF Parent!CompletedBatch, Parent!Eval!CompletedBatch
<1>4. P!JournalInv /\ P!InspectionInv /\ P!FromTheEngine /\ P!IsParent
  BY DEF Running, P!IsParent
<1>5. /\ P!Calls = Len(Scenarios) + 1
      /\ \A i \in 1 .. P!Calls : engine[i].result \in Signatures
      /\ baseline = engine[1].result
      /\ outcomes = [i \in 1 .. Len(Scenarios) |->
                       [scenario |-> Scenarios[i], signature |-> engine[i + 1].result]]
  BY <1>1, <1>2, <1>4, ParentAssumptions, P!CompletedRunIsWhole
<1> QED BY <1>1, <1>3, <1>5, Zenon DEF Whole, P!Calls

(* Only the captured log is prepared, by the retained build: digest and    *)
(* identity are compared.                                                  *)
LEMMA OnlyTheCapturedLog ==
  ASSUME NEW log, NEW artifact, Prepare(log, expected, artifact) # NoValue
  PROVE  log = expected.log /\ artifact = expected.identity
BY DEF Prepare, Prepared, Preflight, Continuable

(* The controller captures the truth.                                      *)
LEMMA CaptureKeeps ==
  ASSUME Running, NoFile, batch = NoValue, Capture
  PROVE  Captured' /\ phase' = "captured" /\ batch' = NoValue
<1>1. /\ phase' = "captured" /\ batch' = batch
      /\ UNCHANGED <<run, lines, torn, childRun, childLines, childTorn, engine>>
      /\ ranked' = Parent!CompletedBatch
  BY DEF Capture, parentFile, childFile
<1>2. PICK semantics \in {"PureIndependent", "RequiresReconciliation"} :
        expected' = Expectations(run, ParentLog, Identity, semantics)
  BY DEF Capture
<1>3. PICK retained : retained = expected'
  OBVIOUS
<1>4. retained.log = ParentLog /\ retained.identity = Identity
  BY <1>2, <1>3 DEF Expectations
<1>5. PICK p : p = Prepare(ParentLog, retained, Identity)
  OBVIOUS
<1>6. ASSUME p # NoValue PROVE Truthful(p, Len(engine))' /\ ranked' = NoValue
  <2>1. p = P!Prepare(ParentLog, retained, Identity)
    BY <1>5, SamePrepare
  <2>2. P!Continuable(P!Preflight(ParentLog, retained, Identity))
    BY <1>6, <2>1 DEF P!Prepare, P!Prepared
  <2>3. /\ Len(engine) \in Nat /\ Len(engine) > 0 /\ Len(engine) - 1 < Len(Scenarios)
        /\ engine \in Seq(C!EngineCalls)
        /\ \A i \in 1 .. Len(engine) : engine[i].result \in Signatures
        /\ \A i \in 1 .. Len(engine) - 1 : engine[i + 1].target = Scenarios[i]
        /\ p.baseline = engine[1].result
        /\ p.restored = [i \in 1 .. Len(engine) - 1 |->
                           [scenario |-> engine[i + 1].target, signature |-> engine[i + 1].result]]
        /\ p.remaining = Suffix(Len(engine) - 1)
        /\ p \in Preparable /\ p.log = ParentLog /\ p.expected = retained
    BY <1>2, <1>3, <1>5, <2>2, StoppedIsTruthful
  <2>4. Len(engine) <= Len(engine)
    BY <2>3
  <2>5. ParentLog' = ParentLog
    BY <1>1 DEF ParentLog
  <2>6. Truthful(p, Len(engine))'
    BY <1>1, <1>3, <1>5, <2>3, <2>4, <2>5, Zenon DEF Truthful
  <2>7. Len(Scenarios) \in Nat
    BY ScenariosAssumption
  <2>8. Parent!CompletedBatch = NoValue
    BY <2>3, <2>7, YieldedIsWhole DEF Whole
  <2> QED BY <1>1, <2>6, <2>8
<1>7. Fresh'
  BY <1>1 DEF Capture, NoFile, Fresh, Child!NewEvaluation, Child!Eval!Completed
<1>8. expected'.log = ParentLog' /\ expected'.identity = Identity
  BY <1>1, <1>3, <1>4 DEF ParentLog
<1>9. p = Prepare(ParentLog, expected, Identity)'
  BY <1>1, <1>3, <1>5 DEF ParentLog
<1> QED BY <1>1, <1>6, <1>7, <1>8, <1>9 DEF Captured

(* Every step of the chain keeps what is known of it.                      *)
LEMMA ChainKept ==
  ASSUME ChainInv, [Next]_vars
  PROVE  ChainInv'
<1>1. CASE ParentStep
  <2>1. phase = "parent" /\ phase' = "parent" /\ P!Next /\ batch' = batch
    BY <1>1, ParentRuns DEF ParentStep, chain
  <2>2. Running'
    BY <2>1, RunningKept DEF ChainInv
  <2>3. NoFile'
    BY <1>1, <2>1 DEF ParentStep, childFile, ChainInv, NoFile
  <2> QED BY <2>1, <2>2, <2>3 DEF ChainInv
<1>2. CASE Capture
  <2>1. phase = "parent"
    BY <1>2 DEF Capture
  <2>2. Captured' /\ phase' = "captured" /\ batch' = NoValue
    BY <1>2, <2>1, CaptureKeeps DEF ChainInv
  <2> QED BY <2>2 DEF ChainInv
<1>3. CASE PrepareChild
  <2>1. /\ phase = "captured" /\ phase' = "prepared" /\ plan' # NoValue
        /\ UNCHANGED <<lines, torn, engine, expected, ranked, batch, memory, childFile>>
    BY <1>3 DEF PrepareChild, parentFile
  <2>2. PICK log \in Copies, artifact \in Identities : plan' = Prepare(log, expected, artifact)
    BY <1>3 DEF PrepareChild
  <2>3. Captured
    BY <2>1 DEF ChainInv
  <2>4. log = ParentLog /\ artifact = Identity
    BY <2>1, <2>2, <2>3, OnlyTheCapturedLog DEF Captured
  <2>5. Truthful(plan', Len(engine)) /\ ranked = NoValue
    BY <2>1, <2>2, <2>3, <2>4 DEF Captured
  <2>6. ParentLog' = ParentLog
    BY <2>1 DEF ParentLog
  <2>7. Truthful(plan, Len(engine))'
    BY <2>1, <2>5, <2>6, Zenon DEF Truthful
  <2>8. Fresh'
    BY <2>1, <2>3 DEF Captured, Fresh, NoFile, memory, childFile
  <2> QED BY <2>1, <2>5, <2>7, <2>8 DEF ChainInv
<1>4. CASE ExecuteChild
  <2>1. /\ phase = "prepared" /\ phase' = "child"
        /\ UNCHANGED <<lines, torn, engine, expected, plan, ranked, batch>>
    BY <1>4 DEF ExecuteChild, parentFile
  <2>2. Truthful(plan, Len(engine)) /\ Fresh /\ ranked = NoValue
    BY <2>1 DEF ChainInv
  <2>3. Len(plan.restored) + 1 = Len(engine)
    BY <2>2, TruthfulIsBehind DEF Behind
  <2>4. Continuing'
    BY <1>4, <2>2, ChildStarts, ChildExecutes, ContinuingKept
  <2>5. ParentLog' = ParentLog
    BY <2>1 DEF ParentLog
  <2>6. Truthful(plan, Len(plan.restored) + 1)
    BY <2>2, <2>3
  <2>7. Truthful(plan, Len(plan.restored) + 1)'
    BY <2>1, <2>5, <2>6, Zenon DEF Truthful
  <2> QED BY <2>1, <2>2, <2>4, <2>7 DEF ChainInv
<1>5. CASE ChildStep
  <2>1. /\ phase = "child" /\ phase' = "child" /\ Child!Process
        /\ UNCHANGED <<lines, torn, expected, ranked, batch>>
    BY <1>5 DEF ChildStep, parentFile
  <2>2. PICK n : n = Len(plan.restored) + 1
    OBVIOUS
  <2>3. Truthful(plan, n) /\ Continuing /\ ranked = NoValue
    BY <2>1, <2>2 DEF ChainInv
  <2>4. plan' = plan /\ Truthful(plan, n)'
    BY <2>1, <2>2, <2>3, StaysTruthful
  <2>5. C!Next
    BY <2>1, <2>3, TruthfulIsBehind, ChildRuns DEF Continuing
  <2>6. Continuing'
    BY <2>3, <2>5, ContinuingKept
  <2>7. Truthful(plan, Len(plan.restored) + 1)'
    BY <2>2, <2>4
  <2> QED BY <2>1, <2>3, <2>6, <2>7 DEF ChainInv
<1>6. CASE AssembleChain
  BY <1>6 DEF AssembleChain, ChainInv
<1>7. CASE UNCHANGED vars
  <2>1. UNCHANGED <<phase, engine, expected, plan, lines, torn, ranked, batch, memory, childFile, run>>
    BY <1>7 DEF vars, chain, parentFile
  <2>2. UNCHANGED P!vars /\ UNCHANGED C!vars
    BY <2>1 DEF memory, childFile, P!vars, C!vars, ChildCalls
  <2>3. phase = "parent" => Running' /\ NoFile'
    BY <2>1, <2>2, RunningKept DEF ChainInv, NoFile, childFile
  <2>4. phase = "child" => Continuing'
    BY <2>2, ContinuingKept DEF ChainInv
  <2>5. ParentLog' = ParentLog
    BY <2>1 DEF ParentLog
  <2>6. Fresh' <=> Fresh
    BY <2>1 DEF Fresh, NoFile, memory, childFile
  <2>7. \A p, n : Truthful(p, n)' <=> Truthful(p, n)
    BY <2>1, <2>5, Zenon DEF Truthful
  <2>8. Captured' <=> Captured
    BY <2>1, <2>5, <2>6, <2>7 DEF Captured
  <2> QED BY <2>1, <2>3, <2>4, <2>6, <2>7, <2>8 DEF ChainInv
<1> QED BY <1>1, <1>2, <1>3, <1>4, <1>5, <1>6, <1>7 DEF Next, Rest

(* The chain starts with a run that starts.                                *)
LEMMA ChainStarts ==
  ASSUME Init
  PROVE  ChainInv
<1>1. P!Init /\ phase = "parent" /\ NoFile /\ batch = NoValue
  BY ParentStarts DEF Init, NoFile
<1>2. P!JournalInv /\ P!InspectionInv /\ P!ReportInv /\ P!Awaited /\ P!FromTheEngine
  BY <1>1, ParentAssumptions, P!InitialJournal, P!InitialInspection, P!InitialReport, P!InitialAwaiting
<1> QED BY <1>1, <1>2 DEF ChainInv, Running, P!ReportInv

(* A prepared plan is the truth about the parent, however it ended and     *)
(* whatever copy of its log was presented by which build: it restores the  *)
(* engine's own value of each completed call, and what remains is what the *)
(* engine was never asked.                                                 *)
THEOREM PlansTellTheTruth == Spec => []PlanIsTrue
<1>1. Init => ChainInv
  BY ChainStarts
<1>2. ChainInv /\ [Next]_vars => ChainInv'
  BY ChainKept
<1>3. ChainInv => PlanIsTrue
  BY DEF ChainInv, PlanIsTrue, Truthful
<1> QED BY <1>1, <1>2, <1>3, PTL DEF Spec

----------------------------------------------------------------------------
(* No dead end.                                                            *)

(* What a parent that was interrupted left over can be continued from its  *)
(* own log: preparation succeeds.                                          *)
LEMMA InterruptedIsPrepared ==
  ASSUME Running, wpc = "closed", ~crashed, Parent!RunState = "Interrupted", baseline # NoValue,
         Parent!NeverStarted # <<>>
  PROVE  Prepare(ParentLog, Expectations(run, ParentLog, Identity, "PureIndependent"), Identity)
           # NoValue
<1>1. error = NoValue /\ status.kind = "Interrupted" /\ P!ReportInv
  BY ParentEnds
<1>2. P!Idle = Parent!NeverStarted
  BY DEF P!Idle, Parent!NeverStarted, Parent!Eval!Pending
<1>3. PICK retained : retained = Expectations(run, ParentLog, Identity, "PureIndependent")
  OBVIOUS
<1>4. /\ retained.run = run /\ retained.identity = Identity
      /\ retained.semantics = "PureIndependent"
      /\ retained.log = [lines |-> lines, torn |-> torn]
  BY <1>3 DEF Expectations, ParentLog
<1>5. P!Continuable(P!Preflight([lines |-> lines, torn |-> torn], retained, Identity))
  <2>1. P!JournalInv /\ P!InspectionInv /\ P!IsParent
    BY DEF Running, P!IsParent
  <2>2. P!ScenariosAssumption /\ P!ValuesAssumption /\ P!PlansAssumption
    BY ParentAssumptions
  <2> QED BY <1>1, <1>2, <1>4, <2>1, <2>2, P!InterruptedIsContinuable
<1>6. P!Continuable(P!Preflight(ParentLog, retained, Identity))
  BY <1>5, Zenon DEF ParentLog
<1>7. PICK p : p = Prepare(ParentLog, retained, Identity)
  OBVIOUS
<1>8. p \in Preparable
  BY <1>3, <1>6, <1>7, StoppedIsTruthful
<1>9. p # NoValue
  BY <1>8, ValuesAssumption DEF Preparable, Second!ValuesAssumption
<1> QED BY <1>3, <1>7, <1>9

(* What a child completed can be assembled with what its plan restored.    *)
LEMMA CompletedIsAssembled ==
  ASSUME NEW n, Truthful(plan, n), Continuing, wpc = "closed", ~crashed,
         Child!RunState = "Completed"
  PROVE  Assemble(ParentLog, ChildLog, [run |-> childRun, log |-> ChildLog], expected, Identity)
           = [baseline |-> plan.baseline, outcomes |-> plan.restored \o outcomes]
<1>1. error = NoValue /\ status.kind = "Completed" /\ C!ReportInv
  BY ChildEnds
<1>2. PICK s : s = InspectChild(ChildLog, ParentLog, expected)
  OBVIOUS
<1>3. plan = Prepare(ParentLog, expected, Identity) /\ plan.log = ParentLog /\ plan.expected = expected
  BY DEF Truthful
<1>4. s = C!InspectChild([lines |-> childLines, torn |-> childTorn], plan.log, plan.expected)
  BY <1>2, <1>3, ChildInspectsChild DEF ChildLog
<1>5. /\ C!Finishes(plan, s, childRun) /\ s.successful = Len(outcomes)
      /\ outcomes \in Seq(C!Outcomes)
      /\ \A i \in 1 .. Len(outcomes) : C!Restored(childLines, i) = outcomes[i]
  <2>1. C!JournalInv /\ C!InspectionInv /\ ~C!IsParent
    BY DEF Continuing, C!IsParent
  <2>2. C!ScenariosAssumption /\ C!ValuesAssumption /\ C!PlansAssumption
    BY ChildAssumptions
  <2> QED BY <1>1, <1>4, <2>1, <2>2, C!CompletedFinishes
<1>6. Finishes(plan, s, childRun)
  BY <1>5 DEF C!Finishes, Finishes
<1>7. \A i \in 1 .. Len(outcomes) : Restored(childLines, i) = outcomes[i]
  BY <1>5, ChildRestores
<1>8. [k \in 1 .. s.successful |-> Restored(childLines, k)] = outcomes
  BY <1>5, <1>7
<1>9. PICK b : b = Joined(plan, s, ChildLog, childRun)
  OBVIOUS
<1>10. b = [baseline |-> plan.baseline, outcomes |-> plan.restored \o outcomes]
  BY <1>6, <1>8, <1>9, Zenon DEF Joined, ChildLog
<1>11. Assemble(ParentLog, ChildLog, [run |-> childRun, log |-> ChildLog], expected, Identity) = b
  BY <1>2, <1>3, <1>9 DEF Assemble
<1> QED BY <1>10, <1>11

(* No dead end, whatever the bundle, the quotas, the builds and the engine *)
(* do: an interrupted run with its baseline and candidates left can be     *)
(* prepared from its own log, and a completed child can be assembled.      *)
THEOREM ChainHasNoDeadEnd == Spec => []ChainGoesOn
<1>1. Init => ChainInv
  BY ChainStarts
<1>2. ChainInv /\ [Next]_vars => ChainInv'
  BY ChainKept
<1>3. ChainInv => InterruptedRunsContinue
  BY InterruptedIsPrepared DEF ChainInv, InterruptedRunsContinue
<1>4. ChainInv => CompletedChildAssembles
  BY CompletedIsAssembled DEF ChainInv, CompletedChildAssembles
<1>5. ChainInv => ChainGoesOn
  BY <1>3, <1>4 DEF ChainGoesOn
<1> QED BY <1>1, <1>2, <1>5, PTL DEF Spec

----------------------------------------------------------------------------
(* The ledger.                                                             *)

(* A call that follows successful ones only is one of the ledger, ...      *)
LEMMA LedgerCalls ==
  ASSUME NEW S, engine \in Seq(S), Len(engine) <= Len(Scenarios), Released' = Released,
         \A i \in 1 .. Len(engine) : engine[i].result \in Signatures,
         NEW target, target = IF Len(engine) = 0 THEN Baseline ELSE Scenarios[Len(engine)],
         engine' = Append(engine, [target |-> target, result |-> NoValue])
  PROVE  Ledger!Call
<1>1. Len(engine) \in Nat /\ DOMAIN engine = 1 .. Len(engine)
  OBVIOUS
<1>2. Len(engine) < Len(AllCalls) /\ target = AllCalls[Len(engine) + 1]
  BY <1>1, AllCallsInOrder
<1> QED BY <1>1, <1>2 DEF Ledger!Call, AllCalls

(* ... a return of the call that is out is one, ...                        *)
LEMMA LedgerReturns ==
  ASSUME Len(engine) > 0, engine[Len(engine)].result = NoValue, Released' = Released,
         NEW value \in Signatures \cup EngineErrors,
         engine' = [engine EXCEPT ![Len(engine)].result = value]
  PROVE  Ledger!Return
BY DEF Ledger!Return

(* ... and so is the release of the whole.                                 *)
LEMMA LedgerReleases ==
  ASSUME NEW S, engine \in Seq(S), Released = NoValue, engine' = engine, NEW b, Released' = b, Whole(b)
  PROVE  Ledger!Release
<1>1. DOMAIN engine = 1 .. Len(engine) /\ Len(engine) = Len(AllCalls)
  BY AllCallsInOrder DEF Whole
<1>2. \A i \in DOMAIN engine : engine[i].result \in Signatures
  BY <1>1 DEF Whole
<1>3. b = [baseline |-> engine[1].result,
           outcomes |-> [i \in 1 .. Len(AllCalls) - 1 |->
                           [scenario |-> AllCalls[i + 1], signature |-> engine[i + 1].result]]]
  <2>1. Len(AllCalls) - 1 = Len(Scenarios)
    BY AllCallsInOrder
  <2>2. \A i \in 1 .. Len(Scenarios) : AllCalls[i + 1] = Scenarios[i]
    BY AllCallsInOrder
  <2>3. [i \in 1 .. Len(AllCalls) - 1 |-> [scenario |-> AllCalls[i + 1], signature |-> engine[i + 1].result]]
          = [i \in 1 .. Len(Scenarios) |->
               [scenario |-> Scenarios[i], signature |-> engine[i + 1].result]]
    BY <2>1, <2>2
  <2> QED BY <2>3, Zenon DEF Whole
<1> QED BY <1>1, <1>2, <1>3, Zenon DEF Ledger!Release, AllCalls

(* The parent acts only while it is alive, and the engine hears of it only *)
(* by its calls.                                                           *)
LEMMA ParentAndEngine ==
  ASSUME Parent!Process
  PROVE  /\ wpc # "closed" /\ ~crashed
         /\ engine' = engine \/ Parent!Invoke \/ Parent!EngineReturns
BY DEF Parent!Process, Parent!Stopped, Parent!Caller, Parent!Evaluate, Parent!IntendBaseline,
   Parent!IntendScenario, Parent!Invoke, Parent!EngineReturns, Parent!RecordReturn,
   Parent!CodecFails, Parent!Answer, Parent!AnswerBlocked, Parent!Close, Parent!Emit,
   Parent!Crash, Parent!Request, Parent!journal, Parent!Journal!Emit, Parent!Journal!EmitBlocked,
   Parent!Journal!EmitOverLimit, Parent!Journal!WriteEntry, Parent!Journal!WriteFails,
   Parent!Journal!SyncEntry, Parent!Journal!SyncFails

(* A batch that the parent may hand out is the whole of what the engine    *)
(* returned.                                                               *)
Yielded ==
  phase = "parent" /\ Parent!CompletedBatch # NoValue => wpc = "closed" /\ Whole(Parent!CompletedBatch)

(* While the parent runs, what it does is the ledger's.                    *)
LEMMA ParentKeepsLedger ==
  ASSUME ChainInv, Yielded', ParentStep
  PROVE  Ledger!Next \/ UNCHANGED <<engine, Released>>
<1>1. /\ phase = "parent" /\ phase' = "parent" /\ batch = NoValue /\ batch' = NoValue
      /\ Parent!Process /\ Running
  BY DEF ParentStep, chain, ChainInv
<1>2. Released = Parent!CompletedBatch /\ Released' = (Parent!CompletedBatch)'
  BY <1>1 DEF Released
<1>3. wpc # "closed" /\ ~crashed
  BY <1>1, ParentAndEngine
<1>4. Released = NoValue
  BY <1>2, <1>3 DEF Parent!CompletedBatch
<1>5. /\ P!JournalInv /\ P!Sent /\ P!InspectionInv /\ P!Awaited /\ P!IsParent
      /\ P!Calls = Len(engine) /\ engine \in Seq(P!EngineCalls) /\ Len(engine) \in Nat
  <2>1. P!JournalInv /\ P!Sent /\ P!InspectionInv /\ P!Awaited
    BY <1>1 DEF Running
  <2>2. engine \in Seq(P!EngineCalls)
    BY <2>1 DEF P!JournalInv, P!ProcessType
  <2>3. Len(engine) \in Nat
    BY <2>2
  <2> QED BY <2>1, <2>2, <2>3 DEF P!IsParent, P!Calls
<1>6. CASE Parent!Invoke
  <2>1. /\ wpc = "engine" /\ wpc' = "in engine"
        /\ engine' = Append(engine, [target |-> current, result |-> NoValue])
    BY <1>6 DEF Parent!Invoke
  <2>2. Released' = Released
    BY <1>2, <1>4, <2>1 DEF Parent!CompletedBatch
  <2>3. \A i \in 1 .. Len(engine) : engine[i].result \in Signatures
    BY <1>3, <1>5, <2>1, ParentAssumptions, P!OnlyAfterSuccess
  <2>4. /\ pc = "calling" /\ current = P!Due(P!Calls + 1) /\ P!Calls + 1 = P!Behind
        /\ taken <= Len(Scenarios) /\ taken \in Nat
    BY <1>5, <2>1 DEF P!Sent, P!Pending, P!JournalInv, P!ProcessType, P!Todo
  <2>5. Len(engine) <= Len(Scenarios)
    BY <1>5, <2>4 DEF P!Behind
  <2>6. current = IF Len(engine) = 0 THEN Baseline ELSE Scenarios[Len(engine)]
    BY <1>5, <2>4 DEF P!Due
  <2>7. Ledger!Call
    BY <1>5, <2>1, <2>2, <2>3, <2>5, <2>6, LedgerCalls
  <2> QED BY <2>7 DEF Ledger!Next
<1>7. CASE Parent!EngineReturns
  <2>1. wpc = "in engine" /\ wpc' = "returned"
    BY <1>7 DEF Parent!EngineReturns
  <2>2. PICK value \in Signatures \cup EngineErrors :
          engine' = [engine EXCEPT ![Len(engine)].result = value]
    BY <1>7 DEF Parent!EngineReturns
  <2>3. Released' = Released
    BY <1>2, <1>4, <2>1 DEF Parent!CompletedBatch
  <2>4. Len(engine) > 0 /\ engine[Len(engine)].result = NoValue
    BY <1>5, <2>1 DEF P!Awaited
  <2>5. Ledger!Return
    BY <2>2, <2>3, <2>4, LedgerReturns
  <2> QED BY <2>5 DEF Ledger!Next
<1>8. CASE engine' = engine
  <2>1. CASE Released' = NoValue
    BY <1>4, <1>8, <2>1
  <2>2. CASE Released' # NoValue
    <3>1. PICK b : b = Released'
      OBVIOUS
    <3>2. Whole(Parent!CompletedBatch)'
      BY <1>1, <1>2, <2>2 DEF Yielded
    <3>3. Whole(b)
      BY <1>2, <1>8, <3>1, <3>2, Zenon DEF Whole
    <3>4. Ledger!Release
      BY <1>4, <1>5, <1>8, <3>1, <3>3, LedgerReleases
    <3> QED BY <3>4 DEF Ledger!Next
  <2> QED BY <2>1, <2>2
<1> QED BY <1>1, <1>6, <1>7, <1>8, ParentAndEngine

(* While the child runs, what it does is the ledger's, behind the calls of *)
(* the parent.                                                             *)
LEMMA ChildKeepsLedger ==
  ASSUME ChainInv, ChildStep
  PROVE  Ledger!Next \/ UNCHANGED <<engine, Released>>
<1>1. /\ phase = "child" /\ phase' = "child" /\ batch = NoValue /\ batch' = NoValue
      /\ ranked = NoValue /\ ranked' = NoValue /\ Child!Process /\ Continuing
  BY DEF ChildStep, ChainInv
<1>2. PICK n : n = Len(plan.restored) + 1
  OBVIOUS
<1>3. Truthful(plan, n)
  BY <1>1, <1>2 DEF ChainInv
<1>4. Released = NoValue /\ Released' = NoValue
  BY <1>1 DEF Released
<1>5. /\ engine \in Seq(C!EngineCalls) /\ n \in Nat /\ n > 0 /\ n <= Len(engine)
      /\ Len(engine) \in Nat /\ Len(ChildCalls) = Len(engine) - n
      /\ \A i \in 1 .. Len(ChildCalls) : ChildCalls[i] = engine[n + i]
  BY <1>3, CallsOfBoth
<1>6. C!JournalInv /\ C!Sent /\ C!InspectionInv /\ C!Awaited /\ ~C!IsParent /\ C!Calls = Len(ChildCalls)
  BY <1>1 DEF Continuing, C!IsParent, C!Calls
<1>7. CASE Child!Invoke
  <2>1. /\ wpc = "engine" /\ wpc' = "in engine" /\ ~crashed
        /\ engine' = Append(engine, [target |-> current, result |-> NoValue])
    <3>1. ~crashed
      BY <1>1 DEF Child!Process, Child!Stopped
    <3> QED BY <1>7, <3>1 DEF Child!Invoke
  <2>2. \A i \in 1 .. Len(ChildCalls) : ChildCalls[i].result \in Signatures
    BY <1>6, <2>1, ChildAssumptions, C!OnlyAfterSuccess
  <2>3. \A i \in 1 .. Len(engine) : engine[i].result \in Signatures
    <3>1. SUFFICES ASSUME NEW i \in 1 .. Len(engine) PROVE engine[i].result \in Signatures
      OBVIOUS
    <3>2. CASE i <= n
      <4>1. \A k \in 1 .. n : engine[k].result \in Signatures
        BY <1>3 DEF Truthful
      <4> QED BY <1>5, <3>2, <4>1
    <3>3. CASE ~(i <= n)
      <4>1. i - n \in 1 .. Len(ChildCalls) /\ n + (i - n) = i
        BY <1>5, <3>3
      <4> QED BY <1>5, <2>2, <4>1
    <3> QED BY <3>2, <3>3
  <2>4. /\ pc = "calling" /\ current = C!Due(C!Calls + 1) /\ C!Calls + 1 = C!Behind
        /\ taken \in Nat /\ taken <= Len(plan.remaining)
    BY <1>6, <2>1 DEF C!Sent, C!Pending, C!JournalInv, C!ProcessType, C!Todo
  <2>5. /\ Len(plan.remaining) = Len(Scenarios) - (n - 1) /\ Len(Scenarios) \in Nat
        /\ \A i \in 1 .. Len(plan.remaining) : plan.remaining[i] = Scenarios[n - 1 + i]
    BY <1>3, PlanLeavesTheRest
  <2>6. C!Behind = taken + 0 /\ current = plan.remaining[Len(ChildCalls) + 1]
    BY <1>6, <2>4 DEF C!Behind, C!Due
  <2>7. PICK k : k = Len(ChildCalls)
    OBVIOUS
  <2>8. k \in Nat /\ k = Len(engine) - n /\ k + 1 <= Len(Scenarios) - (n - 1)
    BY <1>5, <1>6, <2>4, <2>5, <2>6, <2>7
  <2>9. Len(engine) <= Len(Scenarios) /\ k + 1 \in 1 .. Len(plan.remaining) /\ n - 1 + (k + 1) = Len(engine)
    BY <1>5, <2>5, <2>8
  <2>10. current = IF Len(engine) = 0 THEN Baseline ELSE Scenarios[Len(engine)]
    BY <1>5, <2>5, <2>6, <2>7, <2>9
  <2>11. Released' = Released
    BY <1>4
  <2>12. Ledger!Call
    BY <1>5, <2>1, <2>3, <2>9, <2>10, <2>11, LedgerCalls
  <2> QED BY <2>12 DEF Ledger!Next
<1>8. CASE Child!EngineReturns
  <2>1. PICK value \in Signatures \cup EngineErrors :
          wpc = "in engine" /\ engine' = [engine EXCEPT ![Len(engine)].result = value]
    BY <1>8 DEF Child!EngineReturns
  <2>2. Len(ChildCalls) > 0 /\ ChildCalls[Len(ChildCalls)].result = NoValue
    BY <1>6, <2>1 DEF C!Awaited
  <2>3. Behind(n)
    BY <1>3, TruthfulIsBehind
  <2>4. n < Len(engine) /\ ChildCalls[Len(ChildCalls)] = engine[Len(engine)]
    BY <2>2, <2>3, LastCall
  <2>5. Len(engine) > 0 /\ engine[Len(engine)].result = NoValue
    BY <1>5, <2>2, <2>4
  <2>6. Released' = Released
    BY <1>4
  <2>7. Ledger!Return
    BY <2>1, <2>5, <2>6, LedgerReturns
  <2> QED BY <2>7 DEF Ledger!Next
<1>9. CASE engine' = engine
  BY <1>4, <1>9
<1> QED BY <1>1, <1>7, <1>8, <1>9, ChildAndEngine

(* Every step of the chain is one of the ledger's, or is not seen there.   *)
LEMMA LedgerIsKept ==
  ASSUME ChainInv, Yielded', [Next]_vars
  PROVE  [Ledger!Next]_<<engine, Released>>
<1>1. CASE ParentStep
  BY <1>1, ParentKeepsLedger
<1>2. CASE Capture
  <2>1. /\ phase = "parent" /\ phase' = "captured" /\ engine' = engine /\ batch' = batch
        /\ ranked' = Parent!CompletedBatch
    BY <1>2 DEF Capture
  <2>2. batch = NoValue
    BY <2>1 DEF ChainInv
  <2> QED BY <2>1, <2>2 DEF Released
<1>3. CASE PrepareChild
  BY <1>3 DEF PrepareChild, Released
<1>4. CASE ExecuteChild
  BY <1>4 DEF ExecuteChild, Released
<1>5. CASE ChildStep
  BY <1>5, ChildKeepsLedger
<1>6. CASE AssembleChain
  <2>1. /\ phase = "child" /\ engine' = engine /\ batch' # NoValue
        /\ batch' = Assemble(ParentLog, ChildLog, [run |-> childRun, log |-> ChildLog],
                             expected, Identity)
    BY <1>6 DEF AssembleChain
  <2>2. PICK n : n = Len(plan.restored) + 1
    OBVIOUS
  <2>3. Truthful(plan, n) /\ Continuing /\ batch = NoValue /\ ranked = NoValue
    BY <2>1, <2>2 DEF ChainInv
  <2>4. PICK b : b = batch'
    OBVIOUS
  <2>5. Whole(b)
    BY <2>1, <2>3, <2>4, AssembledIsWhole
  <2>6. Released = NoValue /\ Released' = b
    BY <2>1, <2>3, <2>4 DEF Released
  <2>7. engine \in Seq(C!EngineCalls)
    BY <2>3, CallsOfBoth
  <2>8. Ledger!Release
    BY <2>1, <2>5, <2>6, <2>7, LedgerReleases
  <2> QED BY <2>8 DEF Ledger!Next
<1>7. CASE UNCHANGED vars
  BY <1>7 DEF vars, memory, chain, Released, Parent!CompletedBatch, Parent!RunState, Parent!NoError,
     Parent!Eval!CompletedBatch, Parent!Eval!Completed
<1> QED BY <1>1, <1>2, <1>3, <1>4, <1>5, <1>6, <1>7 DEF Next, Rest

(* A run and its continuation implement the ledger: whatever fails or      *)
(* crashes in either process, each candidate is called once and in order,  *)
(* none after a failed or unknown call, and at most one batch is released, *)
(* complete and made of the engine's own values.                           *)
THEOREM ChainImplementsLedger == Spec => ImplementsLedger
<1>1. Init => Ledger!Init
  BY DEF Init, Parent!Init, Ledger!Init, Released, Parent!CompletedBatch
<1>2. Init => ChainInv
  BY ChainStarts
<1>3. ChainInv /\ [Next]_vars => ChainInv'
  BY ChainKept
<1>4. ChainInv => Yielded
  BY YieldedIsWhole DEF ChainInv, Yielded
<1>5. ChainInv /\ Yielded' /\ [Next]_vars => [Ledger!Next]_<<engine, Released>>
  BY LedgerIsKept
<1> QED BY <1>1, <1>2, <1>3, <1>4, <1>5, PTL DEF Spec, ImplementsLedger, Ledger!Spec
==============================================================================
