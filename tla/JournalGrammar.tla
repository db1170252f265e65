-------------------------- MODULE JournalGrammar --------------------------
(***************************************************************************)
(* The languages the two inspectors accept: that of a run's journal, and   *)
(* that of a continuation's, below one admissible parent log.  A log grows *)
(* by any event at all, correctly numbered and chained, until its          *)
(* inspector refuses it; what is never refused is compared with the logs   *)
(* an evaluation can produce, written out as sequences of calls.  The two  *)
(* lifecycles are written separately in the code, and so is a third: that  *)
(* of an execution record, which has the results of a run but no calls.    *)
(***************************************************************************)
EXTENDS Continuation, Contracts

CONSTANTS
  Limits, Payload,
  ParentRun, ChildRun, Identity,
  Parents   \* logs of stopped parents that may be continued

VARIABLES
  parent,   \* the parent's log, or NoValue for a run of its own
  lines     \* the lines of the log that grows

vars == <<parent, lines>>

IsChild == parent # NoValue

Expected == Expectations(ParentRun, parent, Identity, "PureIndependent")
Plan == Prepare(parent, Expected, Identity)

RunHeaders ==
  [run : {NoValue}, bundle : {Scenarios}, identity : {NoValue}, limit : Limits,
   deadline : BOOLEAN]
ChildHeaders ==
  { ChildHeader(Plan, id, Identity, limit, deadline) :
      id \in {ParentRun, ChildRun}, limit \in Limits, deadline \in BOOLEAN }
Headers == IF IsChild THEN ChildHeaders ELSE RunHeaders

Reasons == {"Cancelled", "DeadlineReached", "EvaluationLimitReached"}
Events ==
  { CallStarted(t) : t \in Targets }
    \cup { CallSucceeded(t, Payload) : t \in Targets }
    \cup { CallFailed(t, Payload) : t \in Targets }
    \cup { Finished(terminal, NoValue) : terminal \in {"Completed", "Failed"} }
    \cup { Finished("Interrupted", reason) : reason \in Reasons }
    \cup { Initialized(header) : header \in Headers }

(* What the inspector of this log says of it.                              *)
Accepted ==
  IF IsChild THEN InspectChild([lines |-> lines, torn |-> FALSE], parent, Expected) # NoValue
  ELSE LifecycleOf(lines) # NoValue

Init == parent \in Parents \cup {NoValue} /\ lines = <<>>

(* A line that continues the numbering and the digest chain.               *)
Write(e) ==
  lines' = Append(lines,
    Entry(Len(lines), IF lines = <<>> THEN NoValue ELSE Digest(lines[Len(lines)]), e))

Grow ==
  /\ lines = <<>> \/ Accepted
  /\ \E e \in Events : Write(e)
  /\ UNCHANGED parent

Refused == lines # <<>> /\ ~Accepted /\ UNCHANGED vars

Next == Grow \/ Refused

Spec == Init /\ [][Next]_vars

----------------------------------------------------------------------------
(* The logs of complete evaluations, from the protocol: the calls in       *)
(* order, each an intent and a return, and a terminal event that says why  *)
(* no further call was made.  A child has no baseline call to make.        *)

CallOrder == IF IsChild THEN Plan.remaining ELSE <<Baseline>> \o Scenarios

(* k calls that succeeded.                                                 *)
Calls(k) ==
  [i \in 1 .. 2 * k |->
     IF i % 2 = 1 THEN CallStarted(CallOrder[(i + 1) \div 2])
     ELSE CallSucceeded(CallOrder[i \div 2], Payload)]

Failing(t) == <<CallStarted(t), CallFailed(t, Payload), Finished("Failed", NoValue)>>

(* The calls a header admits: of candidates as many as the limit, and of a *)
(* run's baseline one, unless the limit is zero.                           *)
Admitted(header) ==
  LET candidates == IF IsChild THEN Len(CallOrder) ELSE Len(Scenarios)
      within == IF header.limit < candidates THEN header.limit ELSE candidates
  IN  IF IsChild \/ header.limit = 0 THEN within ELSE 1 + within

Endings(header, k) ==
  { <<Finished("Interrupted", "Cancelled")>> }
    \cup (IF header.deadline THEN {<<Finished("Interrupted", "DeadlineReached")>>} ELSE {})
    \cup (IF k = Admitted(header) /\ k < Len(CallOrder)
          THEN {<<Finished("Interrupted", "EvaluationLimitReached")>>} ELSE {})
    \cup (IF k = Len(CallOrder) THEN {<<Finished("Completed", NoValue)>>} ELSE {})
    \cup (IF k < Admitted(header) THEN {Failing(CallOrder[k + 1])} ELSE {})

Runs(header) ==
  UNION { { <<Initialized(header)>> \o Calls(k) \o ending : ending \in Endings(header, k) } :
            k \in 0 .. Admitted(header) }

----------------------------------------------------------------------------
(* Properties.                                                             *)

(* Each inspector accepts exactly the logs that an evaluation under some   *)
(* recorded controls can have left behind, cut after any complete line: no *)
(* more (an impossible history is refused) and no less (an honest log      *)
(* never is); a child must have a run id of its own.                       *)
AcceptsExactlyRuns ==
  lines # <<>> =>
    (Accepted <=>
       \E header \in { h \in Headers : h.run # ParentRun } : \E r \in Runs(header) :
         IsPrefix([i \in DOMAIN lines |-> lines[i].event], r))

(* The recorded lifecycles, sensible or not: any successes, any work left  *)
(* over, any terminal state.                                               *)
ShortPayload == [value |-> Payload, long |-> FALSE]
TerminalRecords ==
  {[state |-> "completed"]}
    \cup { [state |-> "interrupted", reason |-> reason] : reason \in Reasons }
    \cup { [state |-> "failed", scenario |-> scenario, error |-> ShortPayload] :
             scenario \in {<<>>} \cup { <<id>> : id \in ScenarioIds } }
Orders == UNION { [1 .. n -> ScenarioIds] : n \in 0 .. Len(Scenarios) }
Leftovers == { order \in Orders : Distinct(order) }

RecordWith(header, baseline, order, pending, terminal) ==
  RecordOf(baseline,
           [i \in DOMAIN order |-> [scenario |-> order[i], payload |-> ShortPayload]],
           pending, terminal, header.limit, header.deadline)

(* The journal of the same evaluation.                                     *)
Return(target) == <<CallStarted(target), CallSucceeded(target, Payload)>>
TerminalEvents(terminal, failed) ==
  CASE terminal.state = "completed"   -> <<Finished("Completed", NoValue)>>
    [] terminal.state = "interrupted" -> <<Finished("Interrupted", terminal.reason)>>
    [] terminal.state = "failed"      ->
         <<CallStarted(failed), CallFailed(failed, Payload), Finished("Failed", NoValue)>>
EventsOf(header, baseline, order, terminal) ==
  <<Initialized(header)>> \o (IF baseline = <<>> THEN <<>> ELSE Return(Baseline))
    \o [i \in 1 .. 2 * Len(order) |->
          Return(order[(i + 1) \div 2])[IF i % 2 = 1 THEN 1 ELSE 2]]
    \o TerminalEvents(terminal, IF terminal.state = "failed" /\ terminal.scenario # <<>>
                                 THEN terminal.scenario[1] ELSE Baseline)
LogOf(events) ==
  LET log[k \in 1 .. Len(events)] ==
        Append(IF k = 1 THEN <<>> ELSE log[k - 1],
               Entry(k - 1, IF k = 1 THEN NoValue ELSE Digest(log[k - 1][k - 1]), events[k]))
  IN log[Len(events)]

(* The record of an evaluation and its journal are judged alike: a reader  *)
(* of records accepts a lifecycle exactly if the inspector accepts the     *)
(* journal of the same calls, and what it lists as never started is what   *)
(* the inspector counts as such.                                           *)
RecordsAgreeWithJournals ==
  ~IsChild /\ Len(lines) = 1 /\ Accepted =>
    LET header == lines[1].event.header IN
      \A baseline \in {<<>>, <<ShortPayload>>}, order \in Orders, terminal \in TerminalRecords :
        LET l == LifecycleOf(LogOf(EventsOf(header, baseline, order, terminal))) IN
          \A pending \in Leftovers :
            LifecycleError(RecordWith(header, baseline, order, pending, terminal),
                           [scenarios |-> [i \in DOMAIN Scenarios |-> [id |-> Scenarios[i]]]])
                = NoError
              <=> l # NoValue /\ pending = Suffix(l.started)

----------------------------------------------------------------------------
(* The instance TLC checks: three candidates, quotas below, at and above   *)
(* their number, and parents that stopped with all three, two or one of    *)
(* them left.                                                              *)
CONSTANTS a, b, d

MCScenarios == <<a, b, d>>
MCLimits == 0 .. 4

(* The first k candidates succeeded; the process then died.                *)
ParentEvents(k) ==
  LET header == [run |-> ParentRun, bundle |-> MCScenarios, identity |-> Identity,
                 limit |-> 3, deadline |-> FALSE]
  IN SubSeq(<<Initialized(header), CallStarted(Baseline), CallSucceeded(Baseline, Encode("s")),
              CallStarted(a), CallSucceeded(a, Encode("s")),
              CallStarted(b), CallSucceeded(b, Encode("s"))>>, 1, 3 + 2 * k)
MCParent(k) ==
  LET events == ParentEvents(k)
      entries[i \in DOMAIN events] ==
        Entry(i - 1, IF i = 1 THEN NoValue ELSE Digest(entries[i - 1]), events[i])
  IN [lines |-> entries, torn |-> FALSE]
MCParents == { MCParent(k) : k \in 0 .. 2 }
=============================================================================
