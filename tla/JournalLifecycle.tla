------------------------- MODULE JournalLifecycle -------------------------
(***************************************************************************)
(* The inspector of the execution journals of prospect-dispatch: what it   *)
(* accepts, line by line, and what it reports of a log.                    *)
(*                                                                         *)
(* A log is the sequence of its LF-terminated lines, and whether bytes     *)
(* without a final LF follow them.  A line is a canonical entry, or        *)
(* Malformed: anything serde or the canonical re-encoding would refuse.    *)
(***************************************************************************)
EXTENDS Naturals, Sequences

CONSTANTS
  Scenarios,    \* bundle.scenarios(): distinct ids in canonical order
  MaxScenarios, \* MAX_RECORD_SCENARIOS
  Baseline,     \* CallTarget::Baseline; scenario targets are their ids
  NoValue,      \* None
  Malformed     \* a complete line that is not a canonical entry

ScenarioIds == { Scenarios[i] : i \in DOMAIN Scenarios }
Targets == ScenarioIds \cup {Baseline}

(* ScenarioBundle::new sorts, rejects an empty list and repeated ids; the  *)
(* journaled evaluator rejects more than MAX_RECORD_SCENARIOS.             *)
ASSUME ScenariosAssumption ==
  /\ MaxScenarios \in Nat
  /\ Scenarios \in Seq(ScenarioIds) /\ Len(Scenarios) \in 1 .. MaxScenarios
  /\ \A i, j \in DOMAIN Scenarios : Scenarios[i] = Scenarios[j] => i = j
  /\ ScenarioIds \cap {Baseline, NoValue} = {}

----------------------------------------------------------------------------
(* Entries: serialization is canonical, so an entry and its line are the   *)
(* same thing, and SHA-256 is taken to be injective, so a digest is what it *)
(* was computed from.                                                      *)

Initialized(header) == [event |-> "Initialized", header |-> header]
CallStarted(target) == [event |-> "CallStarted", target |-> target]
CallSucceeded(target, payload) ==
  [event |-> "CallSucceeded", target |-> target, payload |-> payload]
CallFailed(target, payload) ==
  [event |-> "CallFailed", target |-> target, payload |-> payload]
Finished(terminal, reason) ==
  [event |-> "Finished", terminal |-> terminal, reason |-> reason]

Entry(sequence, previous, event) ==
  [sequence |-> sequence, previous |-> previous, event |-> event]

(* The chain of `previous` digests is kept one link deep: a line's own     *)
(* `previous` was compared when that line was accepted.                    *)
Digest(line) == <<line.sequence, line.event>>

(* A caller-supplied codec; the payload it makes is opaque to the journal. *)
Encode(value) == [encoded |-> value]
Decode(payload) == payload.encoded

----------------------------------------------------------------------------
(* The longest lifecycle: a header, an intent and a return for each call,  *)
(* and a terminal.                                                         *)
MaxEntries == 2 * MaxScenarios + 4

----------------------------------------------------------------------------
(* Lifecycle: what the inspector has learnt from the lines so far.         *)

FreshLifecycle ==
  [header |-> NoValue, baseline |-> FALSE, started |-> 0, successful |-> 0,
   active |-> NoValue, failed |-> NoValue, terminal |-> NoValue]

StartAllowed(l, target) ==
  /\ l.active = NoValue /\ l.failed = NoValue
  /\ l.header.limit # 0
  /\ \/ target = Baseline /\ ~l.baseline /\ l.started = 0
     \/ /\ target # Baseline /\ l.baseline
        /\ l.started < l.header.limit
        /\ l.started < Len(Scenarios) /\ Scenarios[l.started + 1] = target

FinishAllowed(l, terminal, reason) ==
  /\ l.active = NoValue
  /\ terminal = "Completed" =>
       l.baseline /\ l.failed = NoValue /\ l.successful = Len(Scenarios)
  /\ terminal = "Failed" => l.failed # NoValue
  /\ terminal = "Interrupted" =>
       /\ l.failed = NoValue
       /\ reason = "DeadlineReached" => l.header.deadline
       /\ reason = "EvaluationLimitReached" =>
            l.successful = l.header.limit /\ l.started # Len(Scenarios)

(* Lifecycle::accept, as the condition under which it does not refuse.     *)
Accepts(l, e) ==
  CASE e.event = "CallStarted" -> StartAllowed(l, e.target)
    [] e.event \in {"CallSucceeded", "CallFailed"} -> l.active = e.target
    [] e.event = "Finished" -> FinishAllowed(l, e.terminal, e.reason)
    [] OTHER -> FALSE

(* Lifecycle::accept, as what it changes.                                  *)
After(l, e) ==
  CASE e.event = "CallStarted" ->
         [l EXCEPT !.active = e.target,
                   !.started = IF e.target = Baseline THEN @ ELSE @ + 1]
    [] e.event = "CallSucceeded" ->
         [l EXCEPT !.active = NoValue,
                   !.baseline = @ \/ e.target = Baseline,
                   !.successful = IF e.target = Baseline THEN @ ELSE @ + 1]
    [] e.event = "CallFailed" -> [l EXCEPT !.active = NoValue, !.failed = e.target]
    [] e.event = "Finished" -> [l EXCEPT !.terminal = e]

(* One line, read at position k after the lines that led to l; NoValue     *)
(* once the inspector has returned an error.                               *)
ReadLine(l, lines, k) ==
  LET line == lines[k]
      previous == IF k = 1 THEN NoValue ELSE Digest(lines[k - 1])
  IN
    IF \/ l.terminal # NoValue
       \/ k > MaxEntries
       \/ line = Malformed
       \/ line.sequence # k - 1 \/ line.previous # previous
    THEN NoValue
    ELSE IF k = 1
    THEN IF line.event.event = "Initialized" /\ line.event.header.bundle = Scenarios
         THEN [l EXCEPT !.header = line.event.header] ELSE NoValue
    ELSE IF Accepts(l, line.event) THEN After(l, line.event) ELSE NoValue

(* The lifecycle of a whole log, or NoValue if a line is refused.          *)
LifecycleOf(lines) ==
  LET read[k \in 0 .. Len(lines)] ==
        IF k = 0 THEN FreshLifecycle
        ELSE LET l == read[k - 1]
             IN IF l = NoValue THEN NoValue ELSE ReadLine(l, lines, k)
  IN read[Len(lines)]

(* JournalSummary.state: the precedence of the inspector's verdicts.       *)
SummaryState(l, torn) ==
  CASE torn -> "incomplete_tail"
    [] ~torn /\ l.active # NoValue -> "unknown_call_result"
    [] ~torn /\ l.active = NoValue /\ l.terminal # NoValue -> l.terminal.terminal
    [] ~torn /\ l.active = NoValue /\ l.terminal = NoValue ->
         IF l.failed # NoValue THEN "open_after_failure"
         ELSE IF l.baseline THEN "open_after_return" ELSE "not_started"

(* JournalSummary of an accepted log; a torn line after the terminal entry *)
(* is an error.                                                            *)
Summarize(l, torn) ==
  IF l = NoValue \/ (torn /\ l.terminal # NoValue) THEN NoValue
  ELSE [state |-> SummaryState(l, torn), header |-> l.header,
        baseline |-> l.baseline, successful |-> l.successful,
        failed |-> l.failed, unknown |-> l.active,
        neverStarted |-> Len(Scenarios) - l.started]

(* inspect_execution_journal: the summary, or NoValue for an error.        *)
Inspect(lines, torn) ==
  IF lines = <<>> THEN NoValue ELSE Summarize(LifecycleOf(lines), torn)
=============================================================================
