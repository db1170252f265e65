---------------------- MODULE MCControlledEvaluation ----------------------
(* TLC instance of the controlled evaluator: batches of up to three        *)
(* candidates, with and without repeated ids, and every quota around them. *)
(* A batch without a repeated id may be a bundle's: the report of the      *)
(* evaluator is then made into a record of the bundle that was evaluated.  *)
EXTENDS ControlledEvaluation, Contracts

(* A caller's codec that refuses nothing and keeps its payloads short.     *)
Payload(value) == [value |-> value, long |-> FALSE]

(* A bundle has at least one scenario, and each id once.                   *)
IsBundle == input # <<>> /\ ~HasDuplicate
Requirement == [id |-> 1, version |-> [major |-> 1, minor |-> 0], upstream |-> <<>>]
Metadata ==
  [id |-> Requirement.id, version |-> Requirement.version, upstream |-> Requirement.upstream,
   capabilities |-> <<[id |-> 1, version |-> Requirement.version]>>]
BundleOf == [id |-> 1, seed |-> <<>>, adapter |-> Requirement, 
             scenarios |-> [i \in DOMAIN input |-> [id |-> input[i]]]]

Option(value) == IF value = NoValue THEN <<>> ELSE <<value>>

TerminalOf ==
  CASE status.kind = "Completed"    -> [state |-> "completed"]
    [] status.kind = "Interrupted"  -> [state |-> "interrupted", reason |-> status.reason]
    [] status.kind = "EngineFailed" ->
         [state |-> "failed", scenario |-> Option(status.scenario),
          error |-> Payload(status.error)]

(* capture_record, up to the verification of what it captured.             *)
Captured ==
  Bind(RecordOf(IF baseline = NoValue THEN <<>> ELSE <<Payload(baseline)>>,
                [i \in DOMAIN outcomes |-> [scenario |-> outcomes[i].scenario,
                                            payload |-> Payload(outcomes[i].signature)]],
                Pending, TerminalOf, limit, deadline),
       1, BundleOf, Metadata)

(* None is not a batch.                                                    *)
ASSUME BatchAssumption ==
  NoValue \notin [baseline : Signatures, outcomes : Seq(Outcomes)]

(* How many candidates the engine was called with.                         *)
CandidatesCalled == Cardinality({ i \in DOMAIN called : called[i].target # Baseline })

(* Whatever happened, the record of it can be captured: the reader, which  *)
(* knows the bundle and nothing of the evaluator, accepts it, and what it  *)
(* sums up is what the engine was called for.                              *)
RecordTellsTheReport ==
  pc = "done" /\ IsBundle =>
    LET summary == SummaryOf(Captured) IN
      /\ RecordError(Captured, BundleOf) = NoError
      /\ summary.successful + summary.failed = CandidatesCalled
      /\ summary.failed = Cardinality({ i \in DOMAIN called :
                                          called[i].target # Baseline
                                            /\ called[i].result \in Errors })
      /\ summary.neverStarted = Len(input) - CandidatesCalled
      /\ summary.state = "completed" <=> CompletedBatch # NoValue
      /\ summary.state = "failed" <=> \E i \in DOMAIN called : called[i].result \in Errors

(* The report is told the same way to everyone: to the progress callback,  *)
(* step by step, and to the readers of its record.                         *)
ReportIsTold == NoticesTellTheReport /\ RecordTellsTheReport

----------------------------------------------------------------------------
(* The instance.                                                           *)
CONSTANTS a, b, c

MCIds == {a, b, c}
MCInputs == {<<>>, <<a>>, <<a, b>>, <<a, b, c>>, <<a, a>>, <<a, b, b>>, <<a, b, a>>}
MCLimits == 0 .. 4

=============================================================================
