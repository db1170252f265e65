---------------------------- MODULE Continuation ----------------------------
(***************************************************************************)
(* What prospect-dispatch decides from journals at rest: whether a stopped *)
(* run may be continued (preflight), what the continuation starts from     *)
(* (prepare), what a child journal says (the child's inspector), and when  *)
(* parent and child together make a rankable batch (assembly).  Pure       *)
(* functions of the files and of separately retained expectations; an      *)
(* error is NoValue.                                                       *)
(***************************************************************************)
EXTENDS JournalLifecycle, FiniteSets

(* RestartExpectations: the run id, the digests of the captured log and of *)
(* the bundle, the identity (implementation, codecs, adapter metadata) and *)
(* the engine semantics an operator vouches for.                           *)
Expectations(run, log, identity, semantics) ==
  [run |-> run, log |-> log, bundle |-> Scenarios, identity |-> identity,
   semantics |-> semantics]

Suffix(k) == SubSeq(Scenarios, k + 1, Len(Scenarios))

----------------------------------------------------------------------------
(* preflight_journal_restart.                                              *)

Blockers(summary, expected) ==
  (IF summary.state = "incomplete_tail" THEN {"IncompleteTail"} ELSE {})
    \cup (IF summary.unknown # NoValue THEN {"UnknownCallResult"} ELSE {})
    \cup (IF summary.failed # NoValue THEN {"FailedCallRequiresReconciliation"} ELSE {})
    \cup (IF expected.semantics # "PureIndependent" THEN {"StatefulOrEffectfulEngine"} ELSE {})
    \cup (IF summary.state = "Completed" THEN {"AlreadyCompleted"} ELSE {})
    \cup (IF summary.neverStarted = 0 THEN {"NoNeverStartedCandidates"} ELSE {})

(* The summary is that of the run the anchors were retained for.           *)
Anchored(summary, expected) ==
  /\ summary # NoValue
  /\ summary.header.run = expected.run /\ summary.header.identity = expected.identity

Preflighted(summary, expected) ==
  IF Anchored(summary, expected)
  THEN [summary |-> summary, blockers |-> Blockers(summary, expected)]
  ELSE NoValue

(* Fault: the log is not compared with the retained digest.                *)
PreflightOfAnyLog(log, expected, artifact) ==
  IF artifact # expected.identity THEN NoValue
  ELSE Preflighted(Inspect(log.lines, log.torn), expected)

Preflight(log, expected, artifact) ==
  IF artifact # expected.identity \/ log # expected.log THEN NoValue
  ELSE Preflighted(Inspect(log.lines, log.torn), expected)

----------------------------------------------------------------------------
(* prepare_typed_continuation.                                             *)

(* The recorded successes, in order.                                       *)
Successes(lines) ==
  LET among[k \in 0 .. Len(lines)] ==
        IF k = 0 THEN <<>>
        ELSE IF lines[k].event.event = "CallSucceeded" THEN Append(among[k - 1], lines[k])
        ELSE among[k - 1]
  IN among[Len(lines)]

(* Fault: successes are restored newest first.                             *)
RestoredNewestFirst(lines, k) ==
  LET n == Len(Successes(lines)) IN
    [scenario |-> Successes(lines)[k].event.target,
     signature |-> Decode(Successes(lines)[n + 1 - k].event.payload)]

(* The decoded payload of the k-th recorded success.                       *)
Restored(lines, k) ==
  [scenario |-> Successes(lines)[k].event.target,
   signature |-> Decode(Successes(lines)[k].event.payload)]

(* Nothing blocks, the baseline and a prefix are there, the rest is untouched. *)
Continuable(preflight) ==
  /\ preflight # NoValue
  /\ preflight.blockers = {}
  /\ preflight.summary.baseline
  /\ preflight.summary.successful + preflight.summary.neverStarted = Len(Scenarios)

(* The plan that n recorded outcomes make.                                 *)
PlanOf(log, expected, n) ==
  [run |-> expected.run, log |-> log, identity |-> expected.identity,
   expected |-> expected,
   baseline |-> Restored(log.lines, 1).signature,
   restored |-> [k \in 1 .. n |-> Restored(log.lines, k + 1)],
   remaining |-> Suffix(n)]

Prepared(preflight, log, expected) ==
  IF Continuable(preflight) THEN PlanOf(log, expected, preflight.summary.successful)
  ELSE NoValue

Prepare(log, expected, artifact) ==
  Prepared(Preflight(log, expected, artifact), log, expected)

----------------------------------------------------------------------------
(* inspect_continuation_journal.                                           *)

ChildHeader(plan, run, identity, limit, deadline) ==
  [run |-> run, parent |-> [run |-> plan.run, log |-> plan.log, expected |-> plan.expected],
   identity |-> identity, restored |-> Len(plan.restored), remaining |-> plan.remaining,
   limit |-> limit, deadline |-> deadline]

MaxContinuationEntries == 2 * MaxScenarios + 2

(* Fault: only a log without a terminal entry is admitted.                 *)
ParentOpen(summary) ==
  /\ summary.state = "open_after_return"
  /\ summary.failed = NoValue /\ summary.unknown = NoValue
  /\ summary.baseline /\ summary.neverStarted # 0
  /\ summary.successful + summary.neverStarted = Len(Scenarios)

(* The parent's lifecycle admits a continuation.                           *)
ParentAdmissible(summary) ==
  /\ summary.state # "incomplete_tail"
  /\ summary.failed = NoValue /\ summary.unknown = NoValue
  /\ summary.baseline /\ summary.neverStarted # 0
  /\ summary.successful + summary.neverStarted = Len(Scenarios)

HeaderMatches(header, expected, parent) ==
  /\ header.parent = [run |-> expected.run, log |-> expected.log, expected |-> expected]
  /\ header.run # expected.run
  /\ header.identity = expected.identity
  /\ header.restored = parent.successful
  /\ header.remaining = Suffix(parent.successful)

FreshChild ==
  [header |-> NoValue, active |-> NoValue, successful |-> 0, failed |-> NoValue,
   terminal |-> NoValue]

(* Fault: a quota interruption is taken at its word.                       *)
ChildFinishUnchecked(c, terminal, reason) ==
  CASE terminal = "Completed" -> c.failed = NoValue /\ c.successful = Len(c.header.remaining)
    [] terminal = "Failed" -> c.failed # NoValue
    [] terminal = "Interrupted" ->
         c.failed = NoValue /\ (reason = "DeadlineReached" => c.header.deadline)

ChildFinishAllowed(c, terminal, reason) ==
  CASE terminal = "Completed" -> c.failed = NoValue /\ c.successful = Len(c.header.remaining)
    [] terminal = "Failed" -> c.failed # NoValue
    [] terminal = "Interrupted" ->
         /\ c.failed = NoValue
         /\ reason = "DeadlineReached" => c.header.deadline
         /\ reason = "EvaluationLimitReached" =>
              c.successful = c.header.limit /\ c.successful < Len(c.header.remaining)

(* The line is admissible after what was read before it.                   *)
ChildAccepts(c, e, expected, parent) ==
  IF c.header = NoValue
  THEN e.event = "Initialized" /\ HeaderMatches(e.header, expected, parent)
  ELSE
    CASE e.event = "Initialized" -> FALSE
      [] e.event = "CallStarted" ->
           /\ c.active = NoValue /\ c.failed = NoValue
           /\ c.successful < c.header.limit
           /\ c.successful < Len(c.header.remaining)
           /\ c.header.remaining[c.successful + 1] = e.target
      [] e.event \in {"CallSucceeded", "CallFailed"} -> c.active = e.target
      [] e.event = "Finished" ->
           c.active = NoValue /\ ChildFinishAllowed(c, e.terminal, e.reason)

ChildAfter(c, e) ==
  CASE e.event = "Initialized" -> [c EXCEPT !.header = e.header]
    [] e.event = "CallStarted" -> [c EXCEPT !.active = e.target]
    [] e.event = "CallSucceeded" -> [c EXCEPT !.active = NoValue, !.successful = @ + 1]
    [] e.event = "CallFailed" -> [c EXCEPT !.active = NoValue, !.failed = e.target]
    [] e.event = "Finished" -> [c EXCEPT !.terminal = e]

ChildReadLine(c, lines, k, expected, parent) ==
  LET line == lines[k]
      previous == IF k = 1 THEN NoValue ELSE Digest(lines[k - 1])
  IN
    IF \/ k > MaxContinuationEntries
       \/ c.terminal # NoValue
       \/ line = Malformed
       \/ line.sequence # k - 1 \/ line.previous # previous
    THEN NoValue
    ELSE IF ChildAccepts(c, line.event, expected, parent) THEN ChildAfter(c, line.event) ELSE NoValue

ChildLifecycleOf(lines, expected, parent) ==
  LET read[k \in 0 .. Len(lines)] ==
        IF k = 0 THEN FreshChild
        ELSE LET c == read[k - 1]
             IN IF c = NoValue THEN NoValue ELSE ChildReadLine(c, lines, k, expected, parent)
  IN read[Len(lines)]

ChildState(c) ==
  CASE c.active # NoValue -> "unknown_call_result"
    [] c.active = NoValue /\ c.terminal # NoValue -> c.terminal.terminal
    [] c.active = NoValue /\ c.terminal = NoValue ->
         IF c.failed # NoValue THEN "open_after_failure" ELSE "open_after_return"

ChildSummary(c) ==
  IF c = NoValue THEN NoValue
  ELSE [state |-> ChildState(c), run |-> c.header.run, successful |-> c.successful,
        failed |-> c.failed, unknown |-> c.active,
        neverStarted |-> Len(c.header.remaining) - c.successful
                           - (IF c.failed # NoValue \/ c.active # NoValue THEN 1 ELSE 0)]

InspectBelow(parent, child, expected) ==
  IF Anchored(parent, expected) /\ ParentAdmissible(parent)
  THEN ChildSummary(ChildLifecycleOf(child.lines, expected, parent))
  ELSE NoValue

(* Any unterminated line, and a log without a header, is an error.         *)
InspectChild(child, log, expected) ==
  IF \/ expected.semantics # "PureIndependent"
     \/ log # expected.log
     \/ child.torn \/ child.lines = <<>>
  THEN NoValue
  ELSE InspectBelow(Inspect(log.lines, log.torn), child, expected)

----------------------------------------------------------------------------
(* The child is the anchored one and has finished what the plan left.      *)
Finishes(plan, summary, run) ==
  /\ plan # NoValue /\ summary # NoValue
  /\ summary.run = run
  /\ summary.state = "Completed" /\ summary.neverStarted = 0
  /\ summary.successful = Len(plan.remaining)

Joined(plan, summary, child, run) ==
  IF Finishes(plan, summary, run)
  THEN [baseline |-> plan.baseline,
        outcomes |-> plan.restored
          \o [k \in 1 .. summary.successful |-> Restored(child.lines, k)]]
  ELSE NoValue

(* assemble_completed_continuation; `anchor` is the retained identity of   *)
(* the child: its run id and the digest of its journal.                    *)
Assemble(log, child, anchor, expected, artifact) ==
  IF child # anchor.log THEN NoValue
  ELSE Joined(Prepare(log, expected, artifact), InspectChild(child, log, expected),
              child, anchor.run)
=============================================================================
